CONSTANTS
    Pid = {1, 2}
    Counter = {"sent"}
    Emitter = {"cpu0", "cpu1"}
    MapCap = 1
    RingCap = 1
    MaxGen = 2
    MaxBytes = 1
    MaxInserts = 3
    LeaderExitsLast = FALSE
    DeadProcLimit = 1
    FrameMax = 3
    RowLen = 3
    DeadLen = 1
    LookupMayFail = TRUE
    MaxResets = 1
SPECIFICATION Spec
INVARIANTS ProcsUnique RowsMirrorProcs NoSilentProcess
CHECK_DEADLOCK FALSE
