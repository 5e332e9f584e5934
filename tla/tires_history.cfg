SPECIFICATION EitherSpec
CONSTANTS
    None = None
    Tol = 0
    Tire = {1}
    Corner = {"FL"}
    Day = {1}
    Km = {1, 2, 3}
    HasSet = FALSE
    Legacy <- OldHistories
    MaxPeriods = 3
    MaxReadings = 0
    MaxRecords = 3
    MaxOthers = 0
    Request = {q1, q2}
    Unknown = Unknown
    Depth = {1, 2}
    Floor = {1}
    Observation <- Observations
    ReadingId = {1, 2}
    WarningId = {1, 2}
INVARIANTS
    NothingUnreported
PROPERTIES
    CoherenceKept
    OnlyRepairsClash
    WarningRight
CONSTRAINTS ThirdForRepairs InService
VIEW EitherView
SYMMETRY Anyone
CHECK_DEADLOCK FALSE
