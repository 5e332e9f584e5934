SPECIFICATION Spec
CONSTANTS
    None = None
    Vin = {vA, vB}
    Odometer = {1}
    Batch <- MinimalBatches
    Skew <- LiveOnly
    Gap = 1
    Contact = 0
    Grace = 0
    OfflineAfter = 1
    LiveTolerance = 1
    Modes = {"movement", "contact"}
    MaxTime = 2
    MaxSessions = 2
    LastContact = 2
INVARIANTS
    TypeOK
PROPERTIES
    HistoryFrozen
