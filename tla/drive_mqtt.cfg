SPECIFICATION LiveSpec
CONSTANTS
    None = None
    Vin = {vA}
    Odometer = {1, 2}
    Batch <- Batches
    Skew <- LiveOnly
    Gap = 2
    Contact = 1
    Grace = 1
    OfflineAfter = 2
    LiveTolerance = 1
    Modes = {"movement"}
    MaxTime = 6
    MaxSessions = 3
    LastContact = 6
INVARIANTS
    WindowOrdered
    ClosesAtMovement
    NoMovementWhilePending
