CONSTANTS
    Phones = {p1, p2}
    WithCode = {p2}
    NoOne = none
    Tabs = {t1}
    Listings = {l1, l2}
    Tasks = {k1, k2}
    MaxClients = 3
    MaxLinks = 3
    MaxEvents = 3
    MaxFaults = 1
SPECIFICATION Spec
SYMMETRY Symmetry
INVARIANTS
    ClientsInv
    LinkShowsListings
CHECK_DEADLOCK FALSE
