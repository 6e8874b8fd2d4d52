\* Two clones, a long-lived secret that replaces and one that does not, and a user.
SPECIFICATION FairSpec
CONSTANTS
    Cloners = {clone1, clone2}
    Replacers = {longlived1}
    Creators = {longlived2}
    User = user
    MaxEdits = 1
INVARIANTS
    RaceLeavesWinner
    TokenIsNotLeftBehind
PROPERTIES
    UnmanagedSecretSurvives
    CallsEnd
