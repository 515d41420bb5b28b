CONSTANTS
    Workspaces = {ws1, ws2}
    Places = {"p1"}
    BhkSpellings = {"2BHK", "2 BHK"}
    Normal <- MCNormal
    Phones = {"n1"}
    NoValue = NoValue
    Items <- MCItems
    Workers = {w1, w2}
    MaxJobs = 3
    MaxRestarts = 1
SPECIFICATION Spec
SYMMETRY Symmetry
INVARIANTS
    OneListingPerProperty
    NextCodeFree
    OrphansReported
    IngestInv
PROPERTY ListedOrLogged
CHECK_DEADLOCK FALSE
