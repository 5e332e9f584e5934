SPECIFICATION Spec
CONSTANTS
    None = None
    Task = {p1, p2}
    Samples <- Odometers
    Gap = 1
    Chunk = 2
    MaxTime = 5
    MaxFiles = 2
    MaxSessions = 1
    FirstPull = 4
    MaxPulls = 2
    MaxFaults = 1
INVARIANTS
    TypeOK
    NothingSkipped
PROPERTIES
    EveryDriveIsPlaced
    ReplayAddsNoOverlap
    DrivesStayApart
    ReplayIsIdempotent
CHECK_DEADLOCK FALSE
SYMMETRY Tasks
