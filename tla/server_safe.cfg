CONSTANTS
    Client = {k1, k2}
    k1 = k1
    k2 = k2
    ChanCap = 2
    SockCap = 1
    MinInterval = 1
    MaxInterval = 3
    DefaultInterval = 2
    TickCap = 3
    MaxCommands = 2
    CliCommands <- AllCli
    ClientsMayStall = TRUE
    TickMayFail = TRUE
SPECIFICATION Spec
SYMMETRY ClientSymmetry
INVARIANTS TypeOK SnapshotsInOrder 
PROPERTIES LaterKeysAreExecuted ImplementsStream
CHECK_DEADLOCK FALSE
