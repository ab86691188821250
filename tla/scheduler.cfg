CONSTANTS
    Tasks = {t1, t2, t3, t4}
    InitTask = t1
    NoTask = NoTask
    NoEvent = NoEvent
    VFork = VFork
    Events = {Signal}
SPECIFICATION FairSpec
INVARIANT IInv
PROPERTIES ExitedIsFinal UninterruptibleEndsWithVFork ReadyTasksRun
CHECK_DEADLOCK FALSE
