SPECIFICATION Spec
CONSTANTS
    p1 = p1
    p2 = p2
    Procs = {p1, p2}
    MaxErrors = 2
    NoProc = NoProc
INVARIANTS
    TypeOK
    NoLostUpdate
    StoppedByOwner
    HeartbeatAlive
SYMMETRY Symmetry
CHECK_DEADLOCK FALSE
