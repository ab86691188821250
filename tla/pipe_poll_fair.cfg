CONSTANTS
    Tasks = {t1, t2, t3}
    NoTask = NoTask
    NoEvent = NoEvent
    Pipes = {p1}
    RingSize = 4
    PageSize = 2
    Capacity = 8
    Workloads <- FairWorkloads
SPECIFICATION PollFairSpec
PROPERTIES ReadersSeeEof TimedPollReturns
CHECK_DEADLOCK FALSE
