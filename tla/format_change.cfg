SPECIFICATION Spec
CONSTANTS
    Format = {f1, f2}
    NULL = NULL
    EventDriven = TRUE
    ExclusiveMode = TRUE
    ReleaseDeviceIdle = FALSE
    PauseKeepActive = FALSE
    QueueMax = 1
    QueueCap = 2
    MaxChanges = 0
    DeviceFaults = FALSE
INVARIANTS
    FillMatchesClient
CHECK_DEADLOCK FALSE
