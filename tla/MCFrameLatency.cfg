CONSTANTS
    MaxSeq = 3
    Latencies = {1, 2}
    Ring = 3
SPECIFICATION FairSpec
INVARIANTS
    LatencyBound
    FloorIsSound
PROPERTIES
    FreedFloorUntouched
    PresentReturns
