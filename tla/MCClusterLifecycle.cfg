CONSTANTS
    Procs = {p1, p2}
    r1 = r1
    r2 = r2
    Releases <- TwoReleases
    Overlap <- TeardownsOverlap
    None = None
    Empty = Empty
    MayCrash = TRUE
    MayForce = TRUE
    WritesLog = TRUE
    MaxRuns = 3
SPECIFICATION Spec
SYMMETRY LifecycleSymmetry
CHECK_DEADLOCK FALSE
INVARIANTS TypeOK ClusterKeepsItsMetadata ChosenReleaseIsInstalled CurrentInstallDescribesCluster
    ConfigFitsRelease
PROPERTIES LogGrows
