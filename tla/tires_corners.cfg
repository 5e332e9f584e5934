SPECIFICATION Spec
CONSTANTS
    None = None
    Tol = 1
    Tire = {1, 2}
    Corner = {"FL", "FR"}
    Day = {1}
    Km = {}
    HasSet = TRUE
    Legacy <- NoHistory
    MaxPeriods = 2
    MaxReadings = 0
    MaxRecords = 3
    MaxOthers = 0
INVARIANTS
    MountedIffOpen
    NeverRaises
CHECK_DEADLOCK FALSE
