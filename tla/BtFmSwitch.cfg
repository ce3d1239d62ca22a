CONSTANTS
    c1 = c1
    c2 = c2
    Callers <- MCCallers
    MaxCalls <- MCMaxCalls
    MaxEvents = 3
    StartRetries = 2
    StopRetries = 3
    NULL = NULL
SPECIFICATION FairSpec
CHECK_DEADLOCK FALSE
INVARIANTS
    DaemonsFollowState
    MacFileWhole
PROPERTIES
    SwitchedByItsCaller
    CallReturns
