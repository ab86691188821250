CONSTANTS
    Tasks <- T4
    NoTask = NoTask
    NoEvent = NoEvent
    NoSignal = NoSignal
    Workloads <- FairWorkloads
SPECIFICATION FairSpec
PROPERTIES KillTerminates WaitAnyReturns
CHECK_DEADLOCK FALSE
