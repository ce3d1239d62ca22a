CONSTANTS
    p1 = p1
    p2 = p2
    p3 = p3
    Pictures <- MCPictures
    Blank = Blank
    Garbage = Garbage
    NULL = NULL
    Dangling = Dangling
    MaxMappings = 2
SPECIFICATION Spec
CHECK_DEADLOCK FALSE
INVARIANTS
    ScreenFollows
    GivenBack
