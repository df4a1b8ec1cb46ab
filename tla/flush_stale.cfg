SPECIFICATION Spec
CONSTANTS
    NULL = NULL
    QueueMax = 2
    VideoRenderer = TRUE
    Refuses = FALSE
    MaxFrames = 2
    MaxFlushes = 1
PROPERTIES
    FlushDiscards
