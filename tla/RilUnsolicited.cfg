CONSTANTS
    v1 = v1
    v2 = v2
    Event = event
    Vendors <- MCVendors
    Infos <- MCInfos
    Scripts <- MCScripts
    MaxConns = 1
    NULL = NULL
SPECIFICATION FairSpec
CHECK_DEADLOCK FALSE
INVARIANTS
    TypeOK
    WakeLockAccounted
    NitzKept
    NitzFreedOnce
PROPERTIES
    WakeLockReleased
