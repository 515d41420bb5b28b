CONSTANTS
    Phones = {p1, p2}
    WithCode = {p2}
    NoOne = none
    Tabs = {t1}
    Listings = {l1, l2}
    Tasks = {k1, k2}
    MaxClients = 3
    MaxLinks = 3
    MaxEvents = 4
    MaxFaults = 0
SPECIFICATION Spec
SYMMETRY Symmetry
INVARIANT SentLinkIsRecipients
CHECK_DEADLOCK FALSE
