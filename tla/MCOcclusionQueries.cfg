CONSTANTS
    Queries = {q1, q2}
    MinSlots = 1
    BufferSlots = 2
    FreeCap = 1
    PeakDecay = 2
    MaxDraws = 2
    MaxIssues = 3
    MaxOther = 1
    MaxOps = 5
    MaxFrames = 2
    MaxFailures = 1
SYMMETRY Symmetry
SPECIFICATION Spec
CHECK_DEADLOCK FALSE
INVARIANTS
    CountsAreExact
    FlushIsAnswered
