\* Two clients, branches of the two supported versions and of one that is not.
SPECIFICATION Spec
CONSTANTS
    Clients = {c1, c2}
    Supported = {"4.14", "4.15"}
    Versions = {"4.13", "4.14", "4.15"}
SYMMETRY ClientSymmetry
INVARIANTS
    UserFilesSurvive
    BuildsItsBranch
    TeardownRemovesAll
