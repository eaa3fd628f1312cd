CONSTANTS
    a = a
    ds = ds
    bb = bb
    Planes <- MCPlanes
    Passes <- MCPasses
    BackBuffer = bb
    FeedMemory = 2
    MaxFrame = 4
SPECIFICATION Spec
INVARIANTS
    SkipsAgree
PROPERTIES
    ImplementsPolicy
CHECK_DEADLOCK FALSE
