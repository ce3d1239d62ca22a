CONSTANTS
    wake = wake
    cmds = cmds
    listen = listen
    t1 = t1
    t2 = t2
    FdEvents <- MCFdEvents
    Timers <- MCTimers
    Wakeup = wake
    Persistent <- MCPersistent
    Fds <- MCFds
    MAX_FD_EVENTS = 3
    Threads = {v1}
    MaxTime = 2
    MaxDelay = 1
    NULL = NULL
SPECIFICATION Spec
INVARIANTS
    TypeOK
    TableConsistent
    NoLostAdd
    LinkedOnce
    NoLostWakeup
PROPERTIES
    FireInDeadlineOrder
