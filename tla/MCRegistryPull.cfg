\* Three runs, one after the other or at the same time.
SPECIFICATION Spec
CONSTANTS
    Runs = {r1, r2, r3}
    MaxAttempts = 1
SYMMETRY RunSymmetry
CHECK_DEADLOCK FALSE
INVARIANTS
    ExposureIsWithdrawn
    UndisturbedRunSucceeds
