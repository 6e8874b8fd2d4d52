CONSTANTS
    Procs = {p1}
    r1 = r1
    r2 = r2
    Releases <- TwoReleases
    Overlap <- OneAtATime
    None = None
    Empty = Empty
    MayCrash = FALSE
    MayForce = FALSE
    WritesLog = FALSE
    MaxRuns = 3
SPECIFICATION Spec
CHECK_DEADLOCK FALSE
INVARIANTS TeardownOkMeansNoCluster
