SPECIFICATION Spec
CONSTANTS
    None = None
    Tol = 0
    Tire = {1}
    Corner = {"FL"}
    Day = {1, 2}
    Km = {1, 2}
    HasSet = FALSE
    Legacy <- NoHistory
    MaxPeriods = 1
    MaxReadings = 1
    MaxRecords = 2
    MaxOthers = 1
INVARIANTS
    EventRecords
PROPERTIES
    EachToTheirOwn
    OneEndCovered
CONSTRAINT InServiceOrMarked
VIEW AnyOrder
CHECK_DEADLOCK FALSE
