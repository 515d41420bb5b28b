CONSTANTS
    Workspaces = {ws1, ws2}
    Places = {"p1"}
    BhkSpellings = {"flat"}
    Normal <- MCNormal
    Phones = {"n1"}
    NoValue = NoValue
    Items <- MCItems
    Workers = {w1}
    MaxJobs = 2
    MaxRestarts = 0
    Sweepers = {s1, s2}
    MaxSweeps = 2
    MaxEdits = 1
SPECIFICATION BackfillSpec
SYMMETRY Symmetry
INVARIANTS
    BackfillTypeOK
    NoDanglingListing
PROPERTY RelinkFollowsFingerprint
CHECK_DEADLOCK FALSE
