CONSTANTS
    Phones = {p1, p2}
    Listings = {l1}
    Tasks = {k1, k2}
    MaxAgents = 3
    MaxRequests = 3
SPECIFICATION Spec
SYMMETRY Symmetry
INVARIANT AgentsInv
CHECK_DEADLOCK FALSE
