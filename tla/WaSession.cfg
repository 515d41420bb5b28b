CONSTANTS
    MaxAdds = 2
    MaxRemoves = 2
    MaxDrops = 2
    MaxFails = 1
    MaxRestarts = 1
SPECIFICATION FairSpec
INVARIANTS
    WaSessionTypeOK
    Supervised
    OneLiveSocket
    StatusHonest
    EntryIsTheSocket
PROPERTY Reconnects
CHECK_DEADLOCK FALSE
