CONSTANTS
    Pid = {1}
    Counter = {"sent"}
    Emitter = {"cpu0"}
    MapCap = 1
    RingCap = 1
    MaxGen = 1
    MaxBytes = 2
    MaxInserts = 1
    LeaderExitsLast = TRUE
    DeadProcLimit = 1
    FrameMax = 100
    RowLen = 3
    DeadLen = 1
    LookupMayFail = FALSE
    MaxResets = 1
SPECIFICATION Spec
INVARIANT NothingShownTwice
