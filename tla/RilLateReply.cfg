CONSTANTS
    r1 = r1
    r2 = r2
    p1 = p1
    p2 = p2
    v1 = v1
    v2 = v2
    Event = event
    Reqs <- MCReqs
    Ptrs <- MCPtrs
    Vendors <- MCVendors
    Fds <- MCFds
    MaxConns = 2
    Kinds <- MCKinds
    NULL = NULL
SPECIFICATION Spec
SYMMETRY Symmetric
CHECK_DEADLOCK FALSE
INVARIANTS
    NoReplyToLaterConnection
