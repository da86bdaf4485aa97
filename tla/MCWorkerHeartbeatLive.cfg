SPECIFICATION FairSpec
CONSTANTS
    p1 = p1
    p2 = p2
    Procs = {p1, p2}
    MaxErrors = 0
    NoProc = NoProc
PROPERTIES
    SupersededStops
CHECK_DEADLOCK FALSE
