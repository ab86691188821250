CONSTANTS
    Tasks = {t1, t2, t3}
    NoTask = NoTask
    NoEvent = NoEvent
    Addrs = {a1, a2}
    Workloads <- AllWorkloads
SPECIFICATION Spec
SYMMETRY Symmetry
INVARIANTS SleepsCanEnd ListsSound
CHECK_DEADLOCK FALSE
