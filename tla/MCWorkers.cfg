CONSTANTS
    Pipelines <- MCPipelines
    VsOf <- MCVsOf
    PsOf <- MCPsOf
    Twin <- MCTwin
    Twins <- MCTwins
    Fallible <- MCFallible
    MaxWorkers = 2
    MaxDraws = 2
    MaxSubmits = 2
    MaxResets = 1
    Threads = {t1, t2}
    SampleEvery = 1
    Thresholds = 2
    MaxPresents = 3
    MaxForeign = 1
SPECIFICATION MCSpec
CHECK_DEADLOCK FALSE
INVARIANTS
    JobsAccounted
    FiguresBelongToTheLine
    WakeIsOnItsWay
PROPERTIES
    SubmissionIsExact
    CrossingIsLogged
    WaitsEnd
