SPECIFICATION MCSpec
CONSTANTS
    Capacity = 2
    Threads = {t1, t2}
    r = r
    w = w
    c = c
    Slots = {r, w, c}
    TableOf <- MCTableOf
    ReadSlot = r
    WriteSlot = w
    Bytes = {0, 1}
    MaxLen = 2
    NONE = NONE
    Users = {u1, u2, u3}
    Procs = {p1, p2}
    Opened = {o1, o2, o3}
SYMMETRY Symmetry
INVARIANT NoLostWakeup
INVARIANT EndsCounted
INVARIANT InUseNotFreed
INVARIANT DescriptorsExact
PROPERTY ChannelSpec
CHECK_DEADLOCK FALSE
