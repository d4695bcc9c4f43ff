SPECIFICATION FairSpec
CONSTANTS
    NumCpus = 2
    MaxTasks = 3
    Stacks = {s1, s2}
    NULL = NULL
    Keys = {}
    RetiredSlots = 2
    MaxTick = 1
    MaxGen = 1
PROPERTY TasksGoOn
