CONSTANTS
    Founder = f
    People = {f, p}
    Seats = 2
    PlanSeats = 2
    Requests = {r1, r2}
    MaxInvites = 2
    Gone = gone
SPECIFICATION Spec
SYMMETRY Symmetry
INVARIANTS
    TeamTypeOK
    SeatsUsedCounts
    MembersWereInvited
    LastOwnerStays
    SerialSeatsKept
CHECK_DEADLOCK FALSE
