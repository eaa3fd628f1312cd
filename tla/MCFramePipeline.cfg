CONSTANTS
    MaxSeq = 4
    Slots = 2
    Faults = {"snapshot", "replay", "submit"}
    ChannelCap = 1
    PayloadCap = 2
    Requests = {"flush", "flush_gpu", "intake", "drain_now", "reset"}
    MaxRequests = 1
    Captures = TRUE
SPECIFICATION Spec
INVARIANTS
    PendingShowsItsFrame
    BarrierHolds
    PresentationIsIdle
PROPERTIES
    IdleMeansIdle
    ImplementsPresenter
