SPECIFICATION FairSteadySpec
CONSTANTS
    None = None
    Vin = {vA}
    Odometer = {1}
    Batch <- SpeedBatches
    Skew <- Replayed
    Gap = 2
    Contact = 1
    Grace = 1
    OfflineAfter = 2
    LiveTolerance = 1
    Modes = {"movement"}
    MaxTime = 7
    MaxSessions = 2
    LastContact = 1
PROPERTIES
    EventuallyQuiet
