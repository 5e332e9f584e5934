SPECIFICATION RaceSpec
CONSTANTS
    None = None
    Vin = {vA}
    Odometer = {1}
    Batch <- MovingParked
    Skew <- LiveOnly
    Gap = 1
    Contact = 0
    Grace = 1
    OfflineAfter = 1
    LiveTolerance = 1
    Modes = {"movement"}
    MaxTime = 3
    MaxSessions = 3
    LastContact = 3
    Racer = {"mqtt", "https", "timeouts"}
    Report = {None}
INVARIANTS
    NoOrphan
    NeitherRaises
PROPERTIES
    IsTripLog
