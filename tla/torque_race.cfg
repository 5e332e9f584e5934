SPECIFICATION RaceSpec
CONSTANTS
    None = None
    Trip = {t1, t2, t3}
    Contact = 2
    Ahead = 1
    MaxTime = 8
    LastContact = 5
INVARIANTS
    OpenIsCurrent
CHECK_DEADLOCK FALSE
