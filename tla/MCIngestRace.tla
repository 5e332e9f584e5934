---------------------------- MODULE MCIngestRace ----------------------------
(* Instances of IngestRace for TLC. *)
EXTENDS IngestRace

Signals(above, engine, odometer) ==
    [above |-> above, engine |-> engine, odometer |-> odometer]

\* A moving vehicle and a parked one.
MovingParked == {Signals(TRUE, TRUE, None), Signals(FALSE, FALSE, None)}

LiveOnly == {0}
=============================================================================
