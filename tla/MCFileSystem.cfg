SPECIFICATION MCSpec
CONSTANTS
    Clusters = {2, 3}
    NumSlots = 2
    ClusterSize = 2
    Names = {a, b}
    Handles = {h1}
    Contents <- MCContents
    Offsets = {3}
    Lengths = {4}
    APPEND = APPEND
    NONE = NONE
    ABSENT = ABSENT
    CLOSED = CLOSED
    STALE = STALE
    MaxSize = 4
    MaxGen = 1
    FaultCalls = {"open", "write", "read"}
SYMMETRY MCSymmetry
INVARIANT ChainsWhole
INVARIANT HandlesNameTheirFile
PROPERTY ImplementsStore
PROPERTY ExactWhenReliable
