---------------------------- MODULE MCTireCorners ----------------------------
(* The instance of the corners, and with it the rules on a mount history.   *)
EXTENDS MCTireService

\* Figures that differ by less than the same-reading band, at it and beyond
\* it, over every three spans of unknown dates: the running maximum has to be
\* the true one, not the last to clear the band.
Banded == INSTANCE TireHistory WITH Tol <- 1
BandSpan == [position : {"FL"}, on : {None}, at : 1..4, off : {1}, offAt : 1..4]

ASSUME AllReportedInBand ==
    \A p, q, r \in BandSpan : Banded!AllReported(<<p, q, r>>)
=============================================================================
