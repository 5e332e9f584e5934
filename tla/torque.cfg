SPECIFICATION Spec
CONSTANTS
    None = None
    Trip = {t1, t2, t3}
    Contact = 2
    Ahead = 1
    MaxTime = 8
    LastContact = 5
INVARIANTS
    TypeOK
    OpenIsCurrent
    EndsAfterStart
PROPERTIES
    ActiveTripIsSafe
    ClosedIsFinal
    EveryTripCloses
CHECK_DEADLOCK FALSE
