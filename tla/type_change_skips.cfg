SPECIFICATION FairSpec
CONSTANTS
    NULL = NULL
    QueueMax = 2
    VideoRenderer = TRUE
    Refuses = FALSE
    MaxFrames = 1
    MaxFlushes = 1
PROPERTIES
    SkipsForAWhile
