SPECIFICATION PoolFairSpec
CONSTANTS
    Nodes = {n1}
    Callers = {h1}
    Modes = {"update", "onlyNodes"}
    Layered = FALSE
    MaxTarget = 2
    MaxChanges = 1
    Deadline = 1
    Threshold = 1
INVARIANTS
    PausedPoolIsNotDone
PROPERTIES
    ImplementsPoolWait
    OnlyMarkedPauseIsLifted
    CallReturns
    RestIsNoticed
