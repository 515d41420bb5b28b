CONSTANTS
    Firms = {w1, w2}
    Groups = {g1, g2}
    Texts = {t1, t2}
    Names = {n1, n2}
    Tasks = {k1, k2}
    NoFirm = none
    Limit = 1
    MaxEvents = 2
SPECIFICATION Spec
SYMMETRY Symmetry
INVARIANTS
    GroupsInv
    Caught
PROPERTY OwnerKept
CHECK_DEADLOCK FALSE
