SPECIFICATION FairSpec
CONSTANTS
    NULL = NULL
    QueueMax = 2
    VideoRenderer = TRUE
    Refuses = FALSE
    MaxFrames = 4
    MaxFlushes = 1
INVARIANTS
    TypeOK
    QueueBounded
    WakeupPending
    RoomAnnounced
    StopLosesNothing
    InOrder
    OneOwner
PROPERTIES
    ImplementsChannel
    FlushReturns
    PushReturns
    StopReturns
