SPECIFICATION MCSpec
CONSTANTS
    CPUs = {c1, c2}
    Locks = {1, 2}
    Rounds = 2
SYMMETRY Symmetry
INVARIANT LocksSafe
INVARIANT HeapExact
INVARIANT FramesOwned
CHECK_DEADLOCK FALSE
