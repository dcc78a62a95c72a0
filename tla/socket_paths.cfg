CONSTANTS
    Daemon = {d1, d2, d3}
    d1 = d1
    d2 = d2
    d3 = d3
    NoFile = NoFile
    MaxStarts = 4
    SameUser = FALSE
SPECIFICATION FairSpec
INVARIANT SerialKeepsPath
PROPERTIES EstablishedIsSafe  
CHECK_DEADLOCK FALSE
