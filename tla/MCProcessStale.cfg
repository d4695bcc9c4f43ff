SPECIFICATION Spec
CONSTANTS
    NumCpus = 2
    MaxTasks = 3
    Keys = {k}
    Blocking = {"event"}
    RetiredSlots = 2
    Slice = 1
    MaxTick = 0
    MaxGen = 1
INVARIANT ResumesSavedContext
CHECK_DEADLOCK FALSE
