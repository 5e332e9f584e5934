SPECIFICATION Spec
CONSTANTS
    None = None
    Stem <- FewStems
    Releases = 3
    Ships <- ThreeReleases
    Replaces <- SquashFirstTwo
    Fatal = {0, 3}
    MaxFaults = 3
INVARIANTS
    StampedIsBuilt
    OneHistory
    RunsOncePerLoss
    TwoPassesSettle
PROPERTIES
    RunsInOrder
