SPECIFICATION MCSpec
CONSTANTS
    NumCpus = 2
    MaxTasks = 4
    Keys = {k}
    Blocking = {"event"}
    RetiredSlots = 2
    Slice = 1
    MaxTick = 0
    MaxGen = 1
INVARIANT StackInUseNotFreed
INVARIANT LoadedRootAlive
INVARIANT NoLostWakeup
INVARIANT ResumesWhereStopped
CHECK_DEADLOCK FALSE
