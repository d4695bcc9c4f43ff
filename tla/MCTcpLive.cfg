SPECIFICATION FairSpec
CONSTANTS
    Threads = {t1, t2}
    Pollers = {p1}
    SeqSpace = 24
    Iss = 22
    PeerIss = 23
    SendCap = 1
    RecvCap = 1
    Mss = 1
    MaxRetries = 1
    Out = 2
    In = 1
    Windows = {1}
    Faults = TRUE
PROPERTY CallsReturn
CHECK_DEADLOCK FALSE
