\* Two calls in a row, each of which may fail or die, with the Deployment that need
\* not exist.
SPECIFICATION FairSpec
CONSTANTS
    DaemonSets = {}
    Deployments = {mco, mob}
    MCO = mco
    OSBuilder = mob
    ConfigMap = cm
    Release = release
    Custom = {custom}
    ConfigMapSteps = 1
    BackoffSteps = 2
    MaxCalls = 2
INVARIANTS
    SuccessIsEverywhere
    CustomImageKeepsCVODown
    NoGoroutineOutlivesJoin
    SuccessRestoresOperators
PROPERTIES
    CallReturns
