\* Two runs, one after the other or at the same time.
SPECIFICATION Spec
CONSTANTS
    Runs = {r1, r2}
    Original <- SomeReleases
    Requests <- SomeRequests
SYMMETRY RunSymmetry
CHECK_DEADLOCK FALSE
INVARIANTS
    UndisturbedRunPublishes
    SuccessIsOwnWork
    EveryImageIsWhole
    ContainerIsOwn
