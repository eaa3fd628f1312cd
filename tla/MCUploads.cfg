CONSTANTS
    v1 = v1
    v2 = v2
    v3 = v3
    Versions = {v1, v2, v3}
    Columns = 2
    Rects = {{1}, {3}}
    InFlight = 2
    SpareCap = 2
    SpareIdle = 2
    StateIdle = 2
    MaxSeq = 5
    MaxOps = 8
    MaxFrameOps = 2
    MaxWrites = 4
    MaxExtras = 1
    MaxFrames = 3
    MaxUploads = 2
    MaxReissue = 1
    k1 = k1
    r1 = r1
    r2 = r2
    Keys = {k1}
    Ranges = {r1, r2}
SPECIFICATION MCSpec
SYMMETRY Symmetry
CHECK_DEADLOCK FALSE
INVARIANTS
    ReadersSeeTheirTexels
    VersionsOutliveCommands
    AcknowledgedHasLanded
    NewestBytesWin
