CONSTANTS
    MaxFrames = 2
    MaxSlots = 2
    Budget = 2
    Kinds = {"page", "redirty"}
    Natives = {"encoder", "other"}
    BacklogCap = 1
    FileFaults = {"create", "first", "append"}
    t1 = t1
    t2 = t2
    Threads = {t1, t2}
    SinkFaults = {"image", "spawn", "open_thread", "wait"}
    MaxPe = 2
    MaxUnix = 1
    MaxReports = 1
    MaxCreates = 2
    MaxNews = 2
SPECIFICATION MCSpec
SYMMETRY Symmetry
CHECK_DEADLOCK FALSE
INVARIANTS
    NothingLost
    BackingRetained
    OwnerIsUnique
    SkipIsSafe
    LinesKept
    FilesInOrder
    NoWaitCycle
