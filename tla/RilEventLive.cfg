CONSTANTS
    wake = wake
    cmds = cmds
    listen = listen
    t1 = t1
    t2 = t2
    FdEvents <- MCFdEventsLive
    Timers <- MCTimers
    Wakeup = wake
    Persistent <- MCPersistentLive
    Fds <- MCFdsLive
    MAX_FD_EVENTS = 2
    Threads = {v1}
    MaxTime = 2
    MaxDelay = 1
    NULL = NULL
SPECIFICATION FairSpec
PROPERTIES
    TimerFires
    FdServiced
