CONSTANTS
    Colors = {"bb", "rt", "px"}
    Depths = {"ds", "sh"}
    Sampleable = {"sh"}
    Backbuffer = "bb"
    FrameDepth = "ds"
    Discards = TRUE
    Extent <- MCExtent
    StencilPlane <- MCStencilPlane
    Draws <- MCDraws
    ClearOps <- MCClears
    Copies <- MCCopies
    Stretches <- MCStretches
    MaxWork = 4
    MaxTotal = 4
SPECIFICATION Spec
INVARIANTS
    Faithful
    ShortClearsRepeat
CHECK_DEADLOCK FALSE
