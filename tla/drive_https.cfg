SPECIFICATION SteadySpec
CONSTANTS
    None = None
    Vin = {vA}
    Odometer = {1}
    Batch <- DrivingBatches
    Skew <- Early
    Gap = 1
    Contact = 0
    Grace = 1
    OfflineAfter = 2
    LiveTolerance = 1
    Modes = {"movement", "contact"}
    MaxTime = 3
    MaxSessions = 2
    LastContact = 3
INVARIANTS
    NoOrphan
    NoOverlap
    IndexNeverRejects
PROPERTIES
    ReopensInsideGap
    IsTripLog
