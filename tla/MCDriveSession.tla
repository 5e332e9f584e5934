--------------------------- MODULE MCDriveSession ---------------------------
(* Instances of DriveSession for TLC. *)
EXTENDS DriveSession

Signals(above, engine, odometer) ==
    [above |-> above, engine |-> engine, odometer |-> odometer]

\* A moving vehicle, an idling one, and parked heartbeats with two odometers.
Batches == {Signals(TRUE, TRUE, None), Signals(FALSE, TRUE, None),
            Signals(FALSE, FALSE, 1), Signals(FALSE, FALSE, 2)}

\* Without the odometer: moving, idling, parked.
SpeedBatches == {Signals(TRUE, TRUE, None), Signals(FALSE, TRUE, None),
                 Signals(FALSE, FALSE, None)}

\* Moving, parked.
MinimalBatches == {Signals(TRUE, TRUE, None), Signals(FALSE, FALSE, None)}

\* Moving, idling.
DrivingBatches == {Signals(TRUE, TRUE, None), Signals(FALSE, TRUE, None)}

LiveOnly == {0}
Early == {-2, 0}
Replayed == {-2, 0, 2}
=============================================================================
