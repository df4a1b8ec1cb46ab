SPECIFICATION FairSpec
CONSTANTS
    Format = {f1}
    NULL = NULL
    EventDriven = TRUE
    ExclusiveMode = TRUE
    ReleaseDeviceIdle = FALSE
    PauseKeepActive = FALSE
    QueueMax = 1
    QueueCap = 2
    MaxChanges = 0
    DeviceFaults = FALSE
PROPERTIES
    PauseAnswered
    ResumeAnswered
    TransformReturns
    FlushGetsThrough
