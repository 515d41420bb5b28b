CONSTANTS
    Listings = {l1}
    Canonicals = {c1}
    Values = {v1}
    Requests = {r1, r2}
    MaxDeals = 2
SPECIFICATION Spec
SYMMETRY Symmetry
INVARIANTS
    MilestonesComplete
    AvailabilityHasCause
    DealsInv
CHECK_DEADLOCK FALSE
