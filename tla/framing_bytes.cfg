CONSTANTS
    Base = 2
    Snapshots <- MCSnapshots
    Commands <- MCCommands
    SockCap = 7
    BufCap = 6
    MaxMsgs = 4
SPECIFICATION FairSpec
INVARIANTS SnapshotsAligned CommandsAligned
PROPERTY WholeIsDelivered
CHECK_DEADLOCK FALSE
