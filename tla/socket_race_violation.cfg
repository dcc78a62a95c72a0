CONSTANTS
    Daemon = {d1, d2, d3}
    d1 = d1
    d2 = d2
    d3 = d3
    NoFile = NoFile
    MaxStarts = 4
    SameUser = TRUE
SPECIFICATION Spec
INVARIANT LiveIsReachable
CHECK_DEADLOCK FALSE
