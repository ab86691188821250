CONSTANTS
    Tasks <- T4
    NoTask = NoTask
    NoEvent = NoEvent
    NoSignal = NoSignal
    Workloads <- SafetyWorkloads
SPECIFICATION Spec
INVARIANTS FamiliesSound AssertionsHold SleepersHaveReason
CHECK_DEADLOCK FALSE
