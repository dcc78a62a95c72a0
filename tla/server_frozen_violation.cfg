CONSTANTS
    Client = {k1}
    k1 = k1
    ChanCap = 1
    SockCap = 1
    MinInterval = 1
    MaxInterval = 3
    DefaultInterval = 2
    TickCap = 1
    MaxCommands = 0
    CliCommands <- NoCli
    ClientsMayStall = TRUE
    TickMayFail = FALSE
SPECIFICATION FairSpec
PROPERTY UnservedIsTold
CHECK_DEADLOCK FALSE
