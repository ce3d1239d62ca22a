CONSTANTS
    c1 = c1
    c2 = c2
    Callers <- MCCallers
    MaxCalls <- MCMaxCalls
    MaxEvents = 2
    StartRetries = 2
    StopRetries = 3
    NULL = NULL
SPECIFICATION Spec
CHECK_DEADLOCK FALSE
INVARIANTS
    EntryState
