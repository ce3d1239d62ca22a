CONSTANTS
    r1 = r1
    r2 = r2
    p1 = p1
    p2 = p2
    v1 = v1
    v2 = v2
    Event = event
    Reqs <- MCReqs
    Ptrs <- MCPtrs
    Vendors <- MCVendorsLive
    Fds <- MCFdsLive
    MaxConns = 2
    Kinds <- MCKindsLive
    NULL = NULL
SPECIFICATION FairSpec
CHECK_DEADLOCK FALSE
PROPERTIES
    CompletionReturns
    AnsweredOrLost
