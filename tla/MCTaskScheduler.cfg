SPECIFICATION Spec
CONSTANTS
    NumCpus = 2
    MaxTasks = 3
    Stacks = {s1, s2, s3}
    NULL = NULL
    Keys = {k1}
    RetiredSlots = 1
    MaxTick = 1
    MaxGen = 1
SYMMETRY StackSymmetry
CONSTRAINT FewStacksLater
INVARIANT TypeOK
INVARIANT SchedulerInv
INVARIANT ResumesSavedContext
INVARIANT StackInUseNotFreed
INVARIANT LoadedRootAlive
INVARIANT NoLostWakeup
INVARIANT TasksAccounted
INVARIANT ReturnsRight
PROPERTY ZombieIsFinal
