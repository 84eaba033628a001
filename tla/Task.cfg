SPECIFICATION Spec
CONSTANTS
    TASK_ID_COUNT = 3
    Mutexes = {m1}
    UserEvents = {wake}
    WaitFlags = {FALSE}
INVARIANTS
    NoLostWakeup
    NoStrayTimerEvent
    ArmSucceeds
    NoEventLost
    HighestPriorityRuns
    MutualExclusion
    NoSleeperOnFreeMutex
