SPECIFICATION MCSpec
CONSTANTS
    Threads = {t1, t2}
    CPUs = {c1, c2}
    Hosts = {h1, h2}
    Macs = {h1, h2}
    CacheSize = 2
    Sockets = {s1, s2}
SYMMETRY Symmetry
INVARIANT CacheIsLatest
INVARIANT NoLostReply
INVARIANT SocketsExact
CHECK_DEADLOCK FALSE
