CONSTANTS
    Requests = {r1, r2}
    MaxGateway = 1
    MaxPayments = 3
    MaxLapses = 2
    MaxStrays = 1
    MaxRestarts = 1
SPECIFICATION Spec
SYMMETRY Symmetry
INVARIANTS
    BillingTypeOK
    AccessHasCause
    StatusFollowsGateway
    PaymentNotLost
PROPERTIES
    TrialOnce
CHECK_DEADLOCK FALSE
