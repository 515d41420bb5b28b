CONSTANTS
    ApiTabs = {t1, t2}
    ApiRequests = {r1, r2}
    Logouts = {r2}
    MaxApiEvents = 4
    Suspensions = FALSE
SPECIFICATION FairApiSpec
INVARIANT ApiInv
PROPERTY CallsSettle
CHECK_DEADLOCK FALSE
