CONSTANTS
    Tasks = {t1, t2, t3}
    NoTask = NoTask
    NoEvent = NoEvent
    Pipes = {p1, p2}
    RingSize = 4
    PageSize = 2
    Capacity = 8
    Workloads <- SafetyWorkloads
SPECIFICATION PollSpec
SYMMETRY Symmetry
INVARIANTS SleepersHaveReason StreamsSound QueuesSound
CHECK_DEADLOCK FALSE
