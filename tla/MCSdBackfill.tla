---------------------------- MODULE MCSdBackfill -----------------------------
(* Instances of SdBackfill for TLC.                                         *)
EXTENDS SdBackfill, TLC

Idle     == [above |-> FALSE, odometer |-> None]
Moving   == [above |-> TRUE, odometer |-> None]
Reads(n) == [above |-> FALSE, odometer |-> n]

Speeds    == {Idle, Moving}
Odometers == {Moving, Reads(1), Reads(2)}

Tasks == Permutations(Task)
==============================================================================
