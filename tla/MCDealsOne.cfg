CONSTANTS
    Listings = {l1}
    Canonicals = {c1, c2}
    Values = {v1, v2}
    Requests = {r1, r2, r3}
    MaxDeals = 1
SPECIFICATION Spec
SYMMETRY Symmetry
INVARIANT LoneDealShown
PROPERTIES
    OverlappingJourney
    ClosedDealKept
CHECK_DEADLOCK FALSE
