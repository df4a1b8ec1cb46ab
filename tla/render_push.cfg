SPECIFICATION Spec
CONSTANTS
    Format = {f1, f2}
    NULL = NULL
    EventDriven = FALSE
    ExclusiveMode = FALSE
    ReleaseDeviceIdle = TRUE
    PauseKeepActive = FALSE
    QueueMax = 1
    QueueCap = 1
    MaxChanges = 1
    DeviceFaults = FALSE
SYMMETRY FormatSymmetry
INVARIANTS
    TeardownExcludesRendering
    LockDiscipline
    Answers
    WaitsUnlocked
    FormatsAgree
CHECK_DEADLOCK FALSE
