CONSTANTS
    Pid = {p1, p2}
    p1 = p1
    p2 = p2
    Leader = "leader"
    Member = {"leader", "worker"}
    Cpu = {0, 1}
    Slot = {1}
    Op = {"tcp_recv", "udp_send"}
    Addr = {"x"}
    NoAddr = "none"
    AddrCap = 1
    RingCap = 1
    MaxGen = 1
    MaxMoves = 3
    LeaderExitsLast = FALSE
SPECIFICATION Spec
SYMMETRY PidSymmetry
PROPERTY ImplementsFeed
CHECK_DEADLOCK FALSE
VIEW WithoutTally
