CONSTANTS
    Pid = {1, 2}
    Counter = {"sent"}
    Emitter = {"cpu0"}
    MapCap = 2
    RingCap = 2
    MaxGen = 2
    MaxBytes = 2
    MaxInserts = 2
    LeaderExitsLast = TRUE
    DeadProcLimit = 1
    FrameMax = 100
    RowLen = 3
    DeadLen = 1
    LookupMayFail = FALSE
    MaxResets = 1
SPECIFICATION FairSpec
INVARIANTS WrongNameOneTick DeltasAddUp
PROPERTIES TotalsSurviveExit StartedIsShown ExitIsNoticed
