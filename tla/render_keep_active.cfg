SPECIFICATION FairSpec
CONSTANTS
    Format = {f1}
    NULL = NULL
    EventDriven = TRUE
    ExclusiveMode = TRUE
    ReleaseDeviceIdle = FALSE
    PauseKeepActive = TRUE
    QueueMax = 1
    QueueCap = 1
    MaxChanges = 0
    DeviceFaults = FALSE
PROPERTIES
    PauseAnswered
CHECK_DEADLOCK FALSE
