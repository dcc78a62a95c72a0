CONSTANTS
    Pid = {1}
    Leader = "leader"
    Member = {"leader", "worker"}
    Cpu = {0, 1}
    Slot = {1, 2}
    Op = {"tcp_send", "tcp_recv"}
    Addr = {"x", "y"}
    NoAddr = "none"
    AddrCap = 2
    RingCap = 1
    MaxGen = 2
    MaxMoves = 2
    LeaderExitsLast = TRUE
SPECIFICATION ReadSpec
INVARIANTS    NothingMissed BytesConserved ReadIsWithin  RowWasMoved 
CHECK_DEADLOCK FALSE
