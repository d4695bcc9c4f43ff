SPECIFICATION MCSpec
CONSTANTS
    NumCpus = 2
    NumTasks = 2
    MaxDepth = 1
INVARIANT UserResumesOwn
INVARIANT KernelReady
INVARIANT BootExact
INVARIANT RingsExact
INVARIANT KeysExact
CHECK_DEADLOCK FALSE
