CONSTANTS
    Client = {k1, k2}
    k1 = k1
    k2 = k2
    ChanCap = 1
    SockCap = 1
    MinInterval = 1
    MaxInterval = 3
    DefaultInterval = 2
    TickCap = 1
    MaxCommands = 1
    CliCommands <- NoCli
    ClientsMayStall = TRUE
    TickMayFail = TRUE
SPECIFICATION FairSpec
PROPERTIES DepartedIsEvicted AttachedIsServed SignalEnds LaterKeysAreHeard
CHECK_DEADLOCK FALSE
