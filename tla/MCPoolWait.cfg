\* Every entry point, on a pool of two nodes with a MachineOSConfig.
SPECIFICATION Spec
CONSTANTS
    Nodes = {n1, n2}
    Modes = {"update", "onlyPool", "onlyNodes", "all"}
    Layered = TRUE
    MaxTarget = 2
    MaxChanges = 2
    Deadline = 2
    Threshold = 1
SYMMETRY NodeSymmetry
INVARIANTS
    CompletionSound
    TornSnapshotNeverCompletes
    UpdateSeenThrough
    NoWatcherLeaks
PROPERTIES
    GivesUpAfterThreshold
    LastPollCoversMembers
