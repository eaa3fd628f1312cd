CONSTANT MaxSeq = 2
SPECIFICATION FairSpec
INVARIANTS
    CountersExact
    AbortSeenBeforeRetirement
    EmptyMeansPublished
PROPERTIES
    WaitReturnsCovered
    LateHandlerWritesNothing
    EveryBufferRetires
