SPECIFICATION MCSpec
CONSTANTS
    Threads = {t1, t2}
    Pollers = {p1, p2}
    SeqSpace = 24
    Iss = 22
    PeerIss = 23
    SendCap = 1
    RecvCap = 2
    Mss = 2
    MaxRetries = 1
    Out = 1
    In = 3
    Windows = {0, 2}
    Faults = TRUE
SYMMETRY Symmetry
INVARIANT StreamsExact
INVARIANT GoesOn
PROPERTY WindowRespected
CHECK_DEADLOCK FALSE
