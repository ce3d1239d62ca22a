CONSTANTS
    Vendor = vendor
    Event = event
    Scripts <- MCScripts
    MaxFaults = 2
    MaxCloses = 1
    NULL = NULL
SPECIFICATION FairSpec
CHECK_DEADLOCK FALSE
INVARIANTS
    RadioTypeOK
    StartedInOrder
    ListensOrServes
    RadioAgrees
PROPERTIES
    FrameworkServed
