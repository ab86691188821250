--------------------------- MODULE ProcessProofs ---------------------------
(***************************************************************************)
(* Proofs about Process, for any number of tasks and any workload: the     *)
(* families of processes stay whole, no assertion fires, and nobody sleeps *)
(* for an event that has already been.                                     *)
(***************************************************************************)
EXTENDS Process, TaskProofs

-----------------------------------------------------------------------------
(* The inductive invariant, of a kernel record q: the kernel between two    *)
(* segments, or inside a segment of the task run.                           *)

Fields == {"load", "state", "event", "queue", "pc", "tid", "proc", "next_tid", "vfork",
           "pending_signal", "signal_to_wait", "signal_mask", "frames", "pstate",
           "parent", "children", "tasks", "waiting_task", "action", "pending", "pcbs",
           "reaped", "kills", "fate"}

IsKernel(q) == DOMAIN q = Fields /\ q = [x \in Fields |-> q[x]]

Events == {NoEvent, Ev("Signal", 0), Ev("VFork", 0)} \cup {Ev("Process", c) : c \in Pids}
Places == {User, At("vfork", 0), At("wait_any", 0)} \cup {At("wait_child", c) : c \in Pids}
Sigs == [num : SigNums, dest : Nat]

Typed(q) ==
    /\ IsKernel(q)
    /\ q.load \in DOMAIN Workloads
    /\ q.state \in [Tasks -> TaskState]
    /\ q.event \in [Tasks -> Events]
    /\ q.queue \in Seq(Tasks)
    /\ q.pc \in [Tasks -> Places]
    /\ q.tid \in [Tasks -> Nat]
    /\ q.proc \in [Tasks -> Pids]
    /\ q.next_tid \in 2..(Cardinality(Tasks) + 1)
    /\ q.vfork \in [Tasks -> Tasks \cup {NoTask}]
    /\ q.pending_signal \in [Tasks -> Sigs \cup {NoSignal}]
    /\ q.signal_to_wait = [t \in Tasks |-> {}]
    /\ q.pstate \in [Pids -> {"None", "Running", "Exited", "Dead"}]
    /\ q.parent \in [Pids -> Pids]
    /\ q.children \in [Pids -> Seq(Pids)]
    /\ q.tasks \in [Pids -> Seq(Tasks)]
    /\ q.waiting_task \in [Pids -> Seq(Tasks)]
    /\ q.pending \in [Pids -> Seq(Sigs)]
    /\ q.pcbs \in SUBSET Pids
    /\ q.reaped \in [Pids -> 0..1]
    /\ q.kills \in Nat
    /\ q.fate \in {"up", "halted"}

Alive(q, t) == q.state[t] \notin {"None", "Exited"}
Waits(q, t) == \E c \in Tasks : q.vfork[c] = t

\* The tasks that are on the queue or may still come to it have tids of their
\* own; the others, whose tid PCB::exec handed on, never come back.
Active(q, t) == Alive(q, t) \/ t \in Entries(q.queue) \/ Waits(q, t)

Queueing(q) ==
    /\ TidsDiffer(q.queue, q.tid)
    /\ \A t \in Entries(q.queue) : q.state[t] \in {"Ready", "Exited"}
    /\ \A c \in Tasks : q.vfork[c] # NoTask =>
          /\ q.state[q.vfork[c]] \in {"BlockedUninterruptible", "Exited"}
          /\ q.vfork[c] \notin Entries(q.queue)
    /\ \A c, d \in Tasks : q.vfork[c] # NoTask /\ q.vfork[c] = q.vfork[d] => c = d
    /\ \A t, u \in Tasks : Active(q, t) /\ Active(q, u) /\ q.tid[t] = q.tid[u] => t = u

\* The tasks and the pids that clone has not handed out.
Fresh(q) ==
    /\ \A t \in Tasks : q.tid[t] < q.next_tid /\ q.proc[t] < q.next_tid
    /\ \A t \in Tasks : q.state[t] = "None" =>
          q.next_tid <= t /\ q.pc[t] = User /\ q.vfork[t] = NoTask
    /\ \A p \in Pids : q.next_tid <= p =>
          /\ p \notin q.pcbs /\ q.pstate[p] = "None" /\ q.reaped[p] = 0
          /\ q.children[p] = <<>> /\ q.tasks[p] = <<>> /\ q.waiting_task[p] = <<>>

OwedIn(q, p) == p \in q.pcbs \/ q.pstate[p] = "Exited"

\* Parents are older than their children and list each of them once; a process
\* whose exit code is owed is listed by its parent, which is alive.
Families(q) ==
    /\ INIT \in q.pcbs
    /\ \A p \in q.pcbs : q.pstate[p] # "Exited"
    /\ \A p \in Pids : OwedIn(q, p) => q.reaped[p] = 0
    /\ \A p \in Pids : \A c \in Entries(q.children[p]) :
          q.parent[c] = p /\ p < c /\ c < q.next_tid
    /\ \A p \in Pids : \A i, j \in 1..Len(q.children[p]) :
          q.children[p][i] = q.children[p][j] => i = j
    /\ \A c \in Pids : OwedIn(q, c) /\ c # INIT =>
          q.parent[c] \in q.pcbs /\ c \in Entries(q.children[q.parent[c]])

\* A task that is not Exited is a thread of a process that is alive, and the
\* lists of a process hold threads of its own.
Threads(q) ==
    /\ \A t \in Tasks : Alive(q, t) =>
          q.proc[t] \in q.pcbs /\ t \in Entries(q.tasks[q.proc[t]])
    /\ \A p \in Pids : \A t \in Entries(q.tasks[p]) \cup Entries(q.waiting_task[p]) :
          q.proc[t] = p /\ q.state[t] # "None"

\* Where a task sleeps, and what it finds when it wakes.
Sleeping(q) ==
    \A t \in Tasks :
        /\ q.state[t] = "Blocked" => q.pc[t].at \in {"wait_child", "wait_any"}
        /\ q.state[t] = "BlockedUninterruptible" => q.pc[t].at = "vfork"
        /\ q.state[t] = "Ready" /\ q.pc[t].at = "vfork" => q.event[t] = Ev("VFork", 0)
        /\ q.state[t] = "Ready" /\ q.pc[t].at \in {"wait_child", "wait_any"} =>
              q.event[t] = Ev("Signal", 0) \/ \E c \in Pids : q.event[t] = Ev("Process", c)
        /\ Alive(q, t) /\ q.pc[t].at = "wait_child" =>
              q.pc[t].arg < q.next_tid /\ q.parent[q.pc[t].arg] = q.proc[t]

\* t sleeps in wait_any_child of a process that is not init and has no other thread.
AloneAt(q, t) ==
    q.pc[t].at = "wait_any" /\ q.proc[t] # INIT /\ Len(q.tasks[q.proc[t]]) = 1

\* It is registered, with no exit behind it; woken for one, it finds it.
Waiting(q) ==
    \A t \in Tasks : AloneAt(q, t) =>
        /\ q.state[t] = "Blocked" =>
              /\ t \in Entries(q.waiting_task[q.proc[t]])
              /\ \A c \in Entries(q.children[q.proc[t]]) : q.pstate[c] # "Exited"
        /\ q.state[t] = "Ready" => \A c \in Pids : q.event[t] = Ev("Process", c) =>
              c \in Entries(q.children[q.proc[t]]) /\ q.pstate[c] = "Exited"

\* Without kill and threads.
Quiet(q) == Workloads[q.load].calls \cap {"kill", "tgkill", "thread"} = {}

\* ... SIGCHLD is the only signal, and a process has one thread.
Peaceful(q) ==
    Quiet(q) =>
        /\ \A t \in Tasks : q.pending_signal[t] # NoSignal => q.pending_signal[t].num = "CHLD"
        /\ \A p \in Pids : \A i \in 1..Len(q.pending[p]) : q.pending[p][i].num = "CHLD"
        /\ \A p \in Pids : Len(q.tasks[p]) <= 1

\* ... and a parent blocked in vfork has a child that is alive, or is the task run
\* on its way out.
VForked(q, run) ==
    Quiet(q) => \A t \in Tasks : q.state[t] = "BlockedUninterruptible" =>
        \E c \in Tasks : q.vfork[c] = t /\ (Alive(q, c) \/ c = run)

Sound(q, run) ==
    /\ Typed(q) /\ Queueing(q) /\ Fresh(q)
    /\ q.fate = "up" => /\ Families(q) /\ Threads(q) /\ Sleeping(q) /\ Waiting(q)
                        /\ Peaceful(q) /\ VForked(q, run)

IInv == Sound(k, NoTask)

-----------------------------------------------------------------------------
(* Records and frames.                                                      *)

\* q is a kernel record that is p outside the fields S.
Except(p, q, S) == IsKernel(q) /\ \A x \in Fields \ S : q[x] = p[x]

\* Sizes: the tasks and the pids are the numbers up to Last.
Last == Cardinality(Tasks)

LEMMA TaskNumbers ==
    /\ Last \in Nat \ {0} /\ Tasks = 1..Last /\ Pids = Tasks /\ INIT \in Tasks
    /\ \A t \in Tasks : t \in Nat /\ t # 0
<1>1. Last \in Nat /\ Tasks = 1..Last /\ INIT \in Tasks
  BY ProcessAssumption, Zenon DEF Last
<1>. QED
  BY <1>1 DEF Pids, INIT

\* What a type invariant says of the fields that did not change it keeps saying.
LEMMA TypedExcept ==
    ASSUME NEW p, NEW q, NEW S, Typed(p), Except(p, q, S), "load" \notin S,
           "signal_to_wait" \notin S,
           "state" \in S => q.state \in [Tasks -> TaskState],
           "event" \in S => q.event \in [Tasks -> Events],
           "queue" \in S => q.queue \in Seq(Tasks),
           "pc" \in S => q.pc \in [Tasks -> Places],
           "tid" \in S => q.tid \in [Tasks -> Nat],
           "proc" \in S => q.proc \in [Tasks -> Pids],
           "next_tid" \in S => q.next_tid \in 2..(Cardinality(Tasks) + 1),
           "vfork" \in S => q.vfork \in [Tasks -> Tasks \cup {NoTask}],
           "pending_signal" \in S => q.pending_signal \in [Tasks -> Sigs \cup {NoSignal}],
           "pstate" \in S => q.pstate \in [Pids -> {"None", "Running", "Exited", "Dead"}],
           "parent" \in S => q.parent \in [Pids -> Pids],
           "children" \in S => q.children \in [Pids -> Seq(Pids)],
           "tasks" \in S => q.tasks \in [Pids -> Seq(Tasks)],
           "waiting_task" \in S => q.waiting_task \in [Pids -> Seq(Tasks)],
           "pending" \in S => q.pending \in [Pids -> Seq(Sigs)],
           "pcbs" \in S => q.pcbs \in SUBSET Pids,
           "reaped" \in S => q.reaped \in [Pids -> 0..1],
           "kills" \in S => q.kills \in Nat,
           "fate" \in S => q.fate \in {"up", "halted"}
    PROVE  Typed(q)
<1>1. \A x \in Fields : x \in S \/ q[x] = p[x]
  BY Zenon DEF Except
<1>2. IsKernel(q)
  BY Zenon DEF Except
<1>3. /\ "load" \in Fields /\ "state" \in Fields /\ "event" \in Fields /\ "queue" \in Fields
      /\ "pc" \in Fields /\ "tid" \in Fields /\ "proc" \in Fields /\ "next_tid" \in Fields
      /\ "vfork" \in Fields /\ "pending_signal" \in Fields /\ "signal_to_wait" \in Fields
      /\ "pstate" \in Fields /\ "parent" \in Fields /\ "children" \in Fields
      /\ "tasks" \in Fields /\ "waiting_task" \in Fields /\ "pending" \in Fields
      /\ "pcbs" \in Fields /\ "reaped" \in Fields /\ "kills" \in Fields /\ "fate" \in Fields
  BY Zenon DEF Fields
<1>4. /\ q.load \in DOMAIN Workloads
      /\ q.state \in [Tasks -> TaskState]
      /\ q.event \in [Tasks -> Events]
      /\ q.queue \in Seq(Tasks)
      /\ q.pc \in [Tasks -> Places]
      /\ q.tid \in [Tasks -> Nat]
      /\ q.proc \in [Tasks -> Pids]
      /\ q.next_tid \in 2..(Cardinality(Tasks) + 1)
      /\ q.vfork \in [Tasks -> Tasks \cup {NoTask}]
      /\ q.pending_signal \in [Tasks -> Sigs \cup {NoSignal}]
  BY <1>1, <1>3, Zenon DEF Typed
<1>5. /\ q.signal_to_wait = [t \in Tasks |-> {}]
      /\ q.pstate \in [Pids -> {"None", "Running", "Exited", "Dead"}]
      /\ q.parent \in [Pids -> Pids]
      /\ q.children \in [Pids -> Seq(Pids)]
      /\ q.tasks \in [Pids -> Seq(Tasks)]
      /\ q.waiting_task \in [Pids -> Seq(Tasks)]
      /\ q.pending \in [Pids -> Seq(Sigs)]
      /\ q.pcbs \in SUBSET Pids
      /\ q.reaped \in [Pids -> 0..1]
      /\ q.kills \in Nat
      /\ q.fate \in {"up", "halted"}
  BY <1>1, <1>3 DEF Typed
<1>. QED
  BY <1>2, <1>4, <1>5, Zenon DEF Typed

LEMMA ExceptTwice ==
    ASSUME NEW p, NEW q, NEW r, NEW S, NEW T, NEW U, Except(p, q, S), Except(q, r, T),
           S \subseteq U, T \subseteq U
    PROVE  Except(p, r, U)
BY Zenon DEF Except

\* Each part of the invariant depends on some of the fields.
LEMMA Frames ==
    ASSUME NEW p, NEW q, NEW S, Except(p, q, S)
    PROVE  /\ S \cap {"state", "queue", "tid", "vfork"} = {} =>
                 (Queueing(p) => Queueing(q))
           /\ S \cap {"tid", "proc", "next_tid", "state", "pc", "vfork", "pcbs",
                      "pstate", "reaped", "children", "tasks", "waiting_task"} = {} =>
                 (Fresh(p) => Fresh(q))
           /\ S \cap {"pcbs", "pstate", "reaped", "children", "parent",
                      "next_tid"} = {} =>
                 (Families(p) => Families(q))
           /\ S \cap {"state", "proc", "pcbs", "tasks", "waiting_task"} = {} =>
                 (Threads(p) => Threads(q))
           /\ S \cap {"state", "pc", "event", "next_tid", "parent", "proc"} = {} =>
                 (Sleeping(p) => Sleeping(q))
           /\ S \cap {"pc", "proc", "tasks", "state", "waiting_task", "children",
                      "pstate", "event"} = {} =>
                 (Waiting(p) => Waiting(q))
           /\ S \cap {"load", "pending_signal", "pending", "tasks"} = {} =>
                 (Peaceful(p) => Peaceful(q))
           /\ S \cap {"load", "state", "vfork"} = {} =>
                 \A run : (VForked(p, run) => VForked(q, run))
<1>1. \A x \in Fields : x \in S \/ q[x] = p[x]
  BY Zenon DEF Except
<1>2. ASSUME S \cap {"state", "queue", "tid", "vfork"} = {},
             Queueing(p)
      PROVE  Queueing(q)
  <2>1. q.state = p.state /\ q.queue = p.queue /\ q.tid = p.tid /\ q.vfork = p.vfork
    BY <1>1, <1>2, Zenon DEF Fields
  <2>. QED
    BY <1>2, <2>1 DEF Queueing, Active, Alive, Waits, Entries, TidsDiffer
<1>3. ASSUME S \cap {"tid", "proc", "next_tid", "state", "pc", "vfork", "pcbs",
                     "pstate", "reaped", "children", "tasks", "waiting_task"} = {},
             Fresh(p)
      PROVE  Fresh(q)
  <2>1. /\ q.tid = p.tid /\ q.proc = p.proc /\ q.next_tid = p.next_tid
        /\ q.state = p.state /\ q.pc = p.pc /\ q.vfork = p.vfork /\ q.pcbs = p.pcbs
        /\ q.pstate = p.pstate /\ q.reaped = p.reaped /\ q.children = p.children
        /\ q.tasks = p.tasks /\ q.waiting_task = p.waiting_task
    BY <1>1, <1>3, Zenon DEF Fields
  <2>. QED
    BY <1>3, <2>1 DEF Fresh
<1>4. ASSUME S \cap {"pcbs", "pstate", "reaped", "children", "parent", "next_tid"} = {},
             Families(p)
      PROVE  Families(q)
  <2>1. /\ q.pcbs = p.pcbs /\ q.pstate = p.pstate /\ q.reaped = p.reaped
        /\ q.children = p.children /\ q.parent = p.parent /\ q.next_tid = p.next_tid
    BY <1>1, <1>4, Zenon DEF Fields
  <2>. QED
    BY <1>4, <2>1 DEF Families, OwedIn
<1>5. ASSUME S \cap {"state", "proc", "pcbs", "tasks", "waiting_task"} = {},
             Threads(p)
      PROVE  Threads(q)
  <2>1. /\ q.state = p.state /\ q.proc = p.proc /\ q.pcbs = p.pcbs /\ q.tasks = p.tasks
        /\ q.waiting_task = p.waiting_task
    BY <1>1, <1>5, Zenon DEF Fields
  <2>. QED
    BY <1>5, <2>1 DEF Threads, Alive
<1>6. ASSUME S \cap {"state", "pc", "event", "next_tid", "parent", "proc"} = {},
             Sleeping(p)
      PROVE  Sleeping(q)
  <2>1. /\ q.state = p.state /\ q.pc = p.pc /\ q.event = p.event
        /\ q.next_tid = p.next_tid /\ q.parent = p.parent /\ q.proc = p.proc
    BY <1>1, <1>6, Zenon DEF Fields
  <2>. QED
    BY <1>6, <2>1 DEF Sleeping, Alive
<1>7. ASSUME S \cap {"pc", "proc", "tasks", "state", "waiting_task", "children",
                     "pstate", "event"} = {},
             Waiting(p)
      PROVE  Waiting(q)
  <2>1. /\ q.pc = p.pc /\ q.proc = p.proc /\ q.tasks = p.tasks /\ q.state = p.state
        /\ q.waiting_task = p.waiting_task /\ q.children = p.children
        /\ q.pstate = p.pstate /\ q.event = p.event
    BY <1>1, <1>7, Zenon DEF Fields
  <2>. QED
    BY <1>7, <2>1 DEF Waiting, AloneAt
<1>8. ASSUME S \cap {"load", "pending_signal", "pending", "tasks"} = {},
             Peaceful(p)
      PROVE  Peaceful(q)
  <2>1. /\ q.load = p.load /\ q.pending_signal = p.pending_signal
        /\ q.pending = p.pending /\ q.tasks = p.tasks
    BY <1>1, <1>8, Zenon DEF Fields
  <2>. QED
    BY <1>8, <2>1, Zenon DEF Peaceful, Quiet
<1>9. ASSUME S \cap {"load", "state", "vfork"} = {},
             NEW run, VForked(p, run)
      PROVE  VForked(q, run)
  <2>1. q.load = p.load /\ q.state = p.state /\ q.vfork = p.vfork
    BY <1>1, <1>9, Zenon DEF Fields
  <2>. QED
    BY <1>9, <2>1 DEF VForked, Quiet, Alive
<1>. QED
  BY <1>2, <1>3, <1>4, <1>5, <1>6, <1>7, <1>8, <1>9, Zenon

-----------------------------------------------------------------------------
(* Tasks on and off the hart.                                               *)

\* Between segments no task is on its way out.
LEMMA RunWeakens ==
    ASSUME NEW q, Sound(q, NoTask), NEW run
    PROVE  Sound(q, run)
BY NoTaskAssumption, Zenon DEF Sound, VForked

\* run_tasks takes the head of the queue and runs it.
LEMMA FetchSound ==
    ASSUME IInv, CanRun
    PROVE  /\ Me \in Tasks /\ k.state[Me] = "Ready" /\ k.fate = "up"
           /\ Except(k, Fetched, {"state", "queue"})
           /\ Fetched.state = [k.state EXCEPT ![Me] = "Running"]
           /\ Sound(Fetched, NoTask)
<1>1. IsTaskRec(k) /\ k.queue # <<>> /\ k.state[Me] = "Ready" /\ k.fate = "up"
  BY Zenon DEF IInv, Sound, Typed, IsKernel, Fields, IsTaskRec, CanRun
<1>2. PICK me, q : me = Me /\ q = Fetched
  OBVIOUS
<1>3. /\ me \in Tasks
      /\ q = [k EXCEPT !.state = [k.state EXCEPT ![me] = "Running"], !.queue = Tail(k.queue)]
  BY <1>1, <1>2, FetchAndRun, Zenon DEF Fetched, Me
<1>4. /\ Except(k, q, {"state", "queue"})
      /\ q.state = [k.state EXCEPT ![me] = "Running"]
      /\ q.queue = Tail(k.queue)
  BY <1>3, Zenon DEF Except, IInv, Sound, Typed, IsKernel, Fields
<1>5. k.queue \in Seq(Tasks) /\ k.state \in [Tasks -> TaskState] /\ k.state[me] = "Ready"
  BY <1>1, <1>2, Zenon DEF IInv, Sound, Typed
<1>6. /\ q.queue \in Seq(Tasks)
      /\ Entries(k.queue) = Entries(q.queue) \cup {me}
      /\ TidsDiffer(q.queue, k.tid) /\ me \notin Entries(q.queue)
  <2>1. TidsDiffer(k.queue, k.tid) /\ me = Head(k.queue)
    BY <1>2, Zenon DEF IInv, Sound, Queueing, Me
  <2>. QED
    BY <1>1, <1>4, <1>5, <2>1, FetchEntries, FetchTids
<1>7. Typed(q)
  <2>1. q.state \in [Tasks -> TaskState] /\ Typed(k)
    BY <1>4, <1>5, Zenon DEF TaskState, IInv, Sound
  <2>. QED
    BY <1>4, <1>6, <2>1, TypedExcept, Zenon
<1>8. \A t \in Tasks : t # me => q.state[t] = k.state[t]
  BY <1>4, <1>5, Zenon
<1>9. q.state[me] = "Running"
  BY <1>3, <1>4, <1>5, Zenon
<1>10. /\ q.tid = k.tid /\ q.vfork = k.vfork /\ q.proc = k.proc /\ q.pc = k.pc
       /\ q.event = k.event /\ q.load = k.load /\ q.fate = k.fate
       /\ q.next_tid = k.next_tid /\ q.tasks = k.tasks /\ q.pcbs = k.pcbs
       /\ q.waiting_task = k.waiting_task /\ q.parent = k.parent /\ q.children = k.children
       /\ q.pstate = k.pstate /\ q.reaped = k.reaped
  BY <1>4, Zenon DEF Except, Fields
<1>11. \A t \in Tasks : Alive(q, t) <=> Alive(k, t)
  BY <1>5, <1>8, <1>9, Zenon DEF Alive
<1>12. Queueing(q)
  <2>1. \A t \in Tasks : Active(q, t) => Active(k, t)
    BY <1>3, <1>6, <1>10, <1>11, Zenon DEF Active, Waits
  <2>2. \A t \in Entries(q.queue) : t \in Tasks /\ q.state[t] \in {"Ready", "Exited"}
    <3>1. Entries(q.queue) \subseteq Tasks
      BY <1>6, EntriesIn, Zenon
    <3>. QED
      BY <1>6, <1>8, <3>1, Zenon DEF IInv, Sound, Queueing
  <2>3. \A c \in Tasks : q.vfork[c] # NoTask =>
          /\ q.state[q.vfork[c]] \in {"BlockedUninterruptible", "Exited"}
          /\ q.vfork[c] \notin Entries(q.queue)
    <3>. TAKE c \in Tasks
    <3>. HAVE q.vfork[c] # NoTask
    <3>1. /\ k.vfork[c] \in Tasks /\ k.vfork[c] \notin Entries(k.queue)
          /\ k.state[k.vfork[c]] \in {"BlockedUninterruptible", "Exited"}
      BY <1>10 DEF IInv, Sound, Queueing, Typed
    <3>. QED
      BY <1>5, <1>6, <1>8, <1>10, <3>1
  <2>. QED
    BY <1>6, <1>10, <2>1, <2>2, <2>3 DEF IInv, Sound, Queueing
<1>13. Fresh(q)
  BY <1>8, <1>9, <1>10 DEF IInv, Sound, Fresh
<1>14. Families(q) /\ Peaceful(q)
  BY <1>1, <1>4, Frames DEF IInv, Sound
<1>15. Threads(q)
  <2>1. Threads(k)
    BY <1>1, Zenon DEF IInv, Sound
  <2>2. \A t \in Tasks : k.state[t] # "None" => q.state[t] # "None"
    BY <1>8, <1>9, Zenon
  <2>3. \A p \in Pids : \A t \in Entries(k.tasks[p]) \cup Entries(k.waiting_task[p]) : t \in Tasks
    <3>1. \A p \in Pids : k.tasks[p] \in Seq(Tasks) /\ k.waiting_task[p] \in Seq(Tasks)
      BY Zenon DEF IInv, Sound, Typed
    <3>. QED
      BY <3>1, EntriesIn, Zenon
  <2>. QED
    BY <1>10, <1>11, <2>1, <2>2, <2>3 DEF Threads
<1>16. Sleeping(q)
  <2>1. Sleeping(k)
    BY <1>1, Zenon DEF IInv, Sound
  <2>. QED
    BY <1>8, <1>9, <1>10, <1>11, <2>1 DEF Sleeping
<1>17. Waiting(q)
  <2>1. Waiting(k)
    BY <1>1, Zenon DEF IInv, Sound
  <2>. QED
    BY <1>8, <1>9, <1>10, <2>1 DEF Waiting, AloneAt
<1>18. VForked(q, NoTask)
  <2>1. VForked(k, NoTask)
    BY <1>1, Zenon DEF IInv, Sound
  <2>2. Quiet(q) <=> Quiet(k)
    BY <1>10, Zenon DEF Quiet
  <2>. QED
    BY <1>8, <1>9, <1>10, <1>11, <2>1, <2>2 DEF VForked
<1>19. Sound(q, NoTask)
  BY <1>7, <1>12, <1>13, <1>14, <1>15, <1>16, <1>17, <1>18, Zenon DEF Sound
<1>. QED
  BY <1>1, <1>2, <1>3, <1>4, <1>19, Zenon

\* The lists of a kernel record hold tasks and pids.
LEMMA TypedLists ==
    ASSUME NEW q, Typed(q), NEW p \in Pids
    PROVE  /\ Entries(q.tasks[p]) \subseteq Tasks /\ Len(q.tasks[p]) \in Nat
           /\ Entries(q.waiting_task[p]) \subseteq Tasks
           /\ Entries(q.children[p]) \subseteq Pids /\ Len(q.children[p]) \in Nat
           /\ Entries(q.queue) \subseteq Tasks
<1>1. /\ q.tasks[p] \in Seq(Tasks) /\ q.waiting_task[p] \in Seq(Tasks)
      /\ q.children[p] \in Seq(Pids) /\ q.queue \in Seq(Tasks)
  BY Zenon DEF Typed
<1>. QED
  BY <1>1, EntriesIn, Zenon

\* The running task me gives up the hart: it goes back to user mode and the end
\* of the queue, or blocks in wait4.
GivesUp(q, r, me, s, at) ==
    /\ Except(q, r, {"state", "queue", "pc"})
    /\ r.state = [q.state EXCEPT ![me] = s]
    /\ r.pc = [q.pc EXCEPT ![me] = at]
    /\ \/ s = "Ready" /\ at = User /\ r.queue = Append(q.queue, me)
       \/ s = "Blocked" /\ at.at \in {"wait_child", "wait_any"} /\ r.queue = q.queue

LEMMA GiveUpSound ==
    ASSUME NEW q, Sound(q, NoTask), NEW me \in Tasks, q.state[me] = "Running",
           NEW r, NEW s, NEW at \in Places, GivesUp(q, r, me, s, at),
           at.at = "wait_child" =>
               at.arg < q.next_tid /\ q.parent[at.arg] = q.proc[me],
           at.at = "wait_any" /\ q.proc[me] # INIT /\ Len(q.tasks[q.proc[me]]) = 1 =>
               /\ me \in Entries(q.waiting_task[q.proc[me]])
               /\ \A c \in Entries(q.children[q.proc[me]]) : q.pstate[c] # "Exited"
    PROVE  Sound(r, NoTask)
<1>0. /\ Except(q, r, {"state", "queue", "pc"})
      /\ r.state = [q.state EXCEPT ![me] = s]
      /\ r.pc = [q.pc EXCEPT ![me] = at]
      /\ \/ s = "Ready" /\ at = User /\ r.queue = Append(q.queue, me)
         \/ s = "Blocked" /\ at.at \in {"wait_child", "wait_any"} /\ r.queue = q.queue
  BY Zenon DEF GivesUp
<1>1. /\ q.queue \in Seq(Tasks) /\ q.state \in [Tasks -> TaskState]
      /\ q.pc \in [Tasks -> Places] /\ s \in TaskState /\ s \notin {"None", "Exited"}
  BY <1>0, Zenon DEF Sound, Typed, TaskState
<1>2. /\ r.tid = q.tid /\ r.vfork = q.vfork /\ r.proc = q.proc
      /\ r.event = q.event /\ r.load = q.load /\ r.fate = q.fate
      /\ r.next_tid = q.next_tid /\ r.tasks = q.tasks /\ r.pcbs = q.pcbs
      /\ r.waiting_task = q.waiting_task /\ r.parent = q.parent /\ r.children = q.children
      /\ r.pstate = q.pstate /\ r.reaped = q.reaped
  BY <1>0, Zenon DEF Except, Fields
<1>3. /\ r.state[me] = s /\ r.pc[me] = at
      /\ \A t \in Tasks : t # me => r.state[t] = q.state[t] /\ r.pc[t] = q.pc[t]
  BY <1>0, <1>1, Zenon
<1>4. \A t \in Tasks : Alive(r, t) <=> Alive(q, t)
  BY <1>1, <1>3, Zenon DEF Alive
<1>5. me \notin Entries(q.queue)
  BY Zenon DEF Sound, Queueing
<1>6. /\ r.queue \in Seq(Tasks)
      /\ \A t : t \in Entries(r.queue) => t \in Entries(q.queue) \/ (t = me /\ s = "Ready")
  <2>1. /\ Append(q.queue, me) \in Seq(Tasks)
        /\ Entries(Append(q.queue, me)) = Entries(q.queue) \cup {me}
    BY <1>1, PushEntries, Zenon
  <2>. QED
    BY <1>0, <1>1, <2>1, Zenon
<1>7. Typed(r)
  <2>1. r.state \in [Tasks -> TaskState] /\ r.pc \in [Tasks -> Places] /\ Typed(q)
    BY <1>0, <1>1 DEF Sound
  <2>. QED
    BY <1>0, <1>6, <2>1, TypedExcept
<1>8. Queueing(r)
  <2>1. \A t \in Tasks : Active(r, t) => Active(q, t)
    BY <1>2, <1>4, <1>6, Zenon DEF Active, Waits, Alive
  <2>2. Entries(q.queue) \subseteq Tasks /\ Active(q, me)
    BY <1>1, EntriesIn, Zenon DEF Active, Alive
  <2>3. \A t \in Entries(r.queue) : r.state[t] \in {"Ready", "Exited"}
    BY <1>3, <1>6, <2>2 DEF Sound, Queueing
  <2>4. TidsDiffer(r.queue, q.tid)
    <3>1. TidsDiffer(q.queue, q.tid)
      BY Zenon DEF Sound, Queueing
    <3>2. \A u \in Entries(q.queue) : Active(q, u)
      BY Zenon DEF Active
    <3>3. \A u \in Entries(q.queue) : q.tid[u] # q.tid[me]
      BY <1>5, <2>2, <3>2, Zenon DEF Sound, Queueing
    <3>. QED
      BY <1>0, <1>1, <3>1, <3>3, PushTids, ZenonT(30)
  <2>5. \A c \in Tasks : q.vfork[c] # NoTask =>
          /\ r.state[q.vfork[c]] \in {"BlockedUninterruptible", "Exited"}
          /\ q.vfork[c] \notin Entries(r.queue)
    <3>. TAKE c \in Tasks
    <3>. HAVE q.vfork[c] # NoTask
    <3>1. /\ q.vfork[c] \in Tasks /\ q.vfork[c] \notin Entries(q.queue)
          /\ q.state[q.vfork[c]] \in {"BlockedUninterruptible", "Exited"}
      BY DEF Sound, Queueing, Typed
    <3>. QED
      BY <1>3, <1>6, <3>1
  <2>. QED
    BY <1>2, <2>1, <2>3, <2>4, <2>5 DEF Sound, Queueing
<1>9. Fresh(r)
  BY <1>1, <1>2, <1>3 DEF Sound, Fresh
<1>10. CASE q.fate # "up"
  BY <1>2, <1>7, <1>8, <1>9, <1>10, Zenon DEF Sound
<1>11. CASE q.fate = "up"
  <2>1. Families(r) /\ Peaceful(r)
    BY <1>0, <1>11, Frames DEF Sound
  <2>2. Threads(r)
    <3>1. Threads(q)
      BY <1>11, Zenon DEF Sound
    <3>2. \A t \in Tasks : q.state[t] # "None" => r.state[t] # "None"
      BY <1>1, <1>3, Zenon
    <3>3. \A p \in Pids : Entries(q.tasks[p]) \cup Entries(q.waiting_task[p]) \subseteq Tasks
      BY TypedLists, Zenon DEF Sound
    <3>. QED
      BY <1>2, <1>4, <3>1, <3>2, <3>3 DEF Threads
  <2>3. Sleeping(r)
    <3>1. Sleeping(q)
      BY <1>11, Zenon DEF Sound
    <3>2. at = User => at.at = "user"
      BY DEF User
    <3>. QED
      BY <1>0, <1>2, <1>3, <1>4, <3>1, <3>2 DEF Sleeping
  <2>4. Waiting(r)
    <3>1. Waiting(q)
      BY <1>11, Zenon DEF Sound
    <3>2. at = User => at.at = "user"
      BY DEF User
    <3>. QED
      BY <1>0, <1>2, <1>3, <3>1, <3>2 DEF Waiting, AloneAt
  <2>5. VForked(r, NoTask)
    <3>1. VForked(q, NoTask)
      BY <1>11, Zenon DEF Sound
    <3>2. Quiet(r) <=> Quiet(q)
      BY <1>2, Zenon DEF Quiet
    <3>. QED
      BY <1>0, <1>1, <1>2, <1>3, <1>4, <3>1, <3>2 DEF VForked
  <2>. QED
    BY <1>7, <1>8, <1>9, <2>1, <2>2, <2>3, <2>4, <2>5, Zenon DEF Sound
<1>. QED
  BY <1>10, <1>11, Zenon

LEMMA ReturnSound ==
    ASSUME NEW q, Sound(q, NoTask), Me \in Tasks, q.state[Me] = "Running"
    PROVE  Sound(Return(q), NoTask)
<1>1. PICK me, r : me = Me /\ r = requeue_if_running([q EXCEPT !.pc[me] = User], me)
  OBVIOUS
<1>2. /\ IsKernel(q) /\ q.state \in [Tasks -> TaskState] /\ me \in Tasks
      /\ q.state[me] = "Running"
  BY <1>1, Zenon DEF Sound, Typed
<1>3. PICK u : u = [q EXCEPT !.pc[me] = User]
  BY Zenon
<1>4. /\ Except(q, r, {"state", "queue", "pc"})
      /\ r.state = [q.state EXCEPT ![me] = "Ready"]
      /\ r.pc = [q.pc EXCEPT ![me] = User]
      /\ r.queue = Append(q.queue, me)
  <2>1. u = [q EXCEPT !.pc = [q.pc EXCEPT ![me] = User]]
    BY <1>2, <1>3, Zenon DEF IsKernel, Fields
  <2>2. /\ Except(q, u, {"pc"}) /\ u.pc = [q.pc EXCEPT ![me] = User]
        /\ u.state = q.state /\ IsKernel(u) /\ u.queue = q.queue
    BY <1>2, <2>1, Zenon DEF Except, IsKernel, Fields
  <2>3. r = [u EXCEPT !.state = [u.state EXCEPT ![me] = "Ready"],
                      !.queue = Append(u.queue, me)]
    BY <1>1, <1>2, <1>3, <2>2, Zenon DEF requeue_if_running, push_task, IsKernel, Fields
  <2>4. /\ Except(u, r, {"state", "queue"}) /\ r.pc = u.pc
        /\ r.state = [u.state EXCEPT ![me] = "Ready"]
        /\ r.queue = Append(u.queue, me)
    BY <2>2, <2>3, Zenon DEF Except, IsKernel, Fields
  <2>. QED
    BY <2>2, <2>4, ExceptTwice
<1>5. User \in Places /\ User.at = "user"
  BY Zenon DEF Places, User
<1>6. Sound(r, NoTask)
  <2>1. GivesUp(q, r, me, "Ready", User)
    BY <1>4, Zenon DEF GivesUp
  <2>. QED
    BY <1>2, <1>5, <2>1, GiveUpSound, Zenon
<1>. QED
  BY <1>1, <1>6, Zenon DEF Return

\* The task on the hart blocks in wait4.
LEMMA BlockSound ==
    ASSUME NEW q, Sound(q, NoTask), Me \in Tasks, q.state[Me] = "Running",
           NEW where, NEW arg,
           \/ where = "wait_any" /\ arg = 0
           \/ where = "wait_child" /\ arg \in Pids,
           where = "wait_child" => arg < q.next_tid /\ q.parent[arg] = q.proc[Me],
           where = "wait_any" /\ q.proc[Me] # INIT /\ Len(q.tasks[q.proc[Me]]) = 1 =>
               /\ Me \in Entries(q.waiting_task[q.proc[Me]])
               /\ \A c \in Entries(q.children[q.proc[Me]]) : q.pstate[c] # "Exited"
    PROVE  Sound(BlockAt(q, where, arg), NoTask)
<1>1. PICK me, r : me = Me /\ r = [block(q, me) EXCEPT !.pc[me] = At(where, arg)]
  BY Zenon
<1>2. /\ IsKernel(q) /\ q.state \in [Tasks -> TaskState] /\ me \in Tasks
      /\ q.state[me] = "Running"
  BY <1>1, Zenon DEF Sound, Typed
<1>3. PICK u : u = block(q, me)
  OBVIOUS
<1>4. /\ Except(q, r, {"state", "queue", "pc"})
      /\ r.state = [q.state EXCEPT ![me] = "Blocked"]
      /\ r.pc = [q.pc EXCEPT ![me] = At(where, arg)]
      /\ r.queue = q.queue
  <2>1. u = [q EXCEPT !.state = [q.state EXCEPT ![me] = "Blocked"]]
    BY <1>2, <1>3, Zenon DEF block, IsKernel, Fields
  <2>2. /\ Except(q, u, {"state"}) /\ u.state = [q.state EXCEPT ![me] = "Blocked"]
        /\ u.pc = q.pc /\ IsKernel(u) /\ u.queue = q.queue
    BY <1>2, <2>1, Zenon DEF Except, IsKernel, Fields
  <2>3. r = [u EXCEPT !.pc = [u.pc EXCEPT ![me] = At(where, arg)]]
    BY <1>1, <1>3, <2>2, Zenon DEF IsKernel, Fields
  <2>4. /\ Except(u, r, {"pc"}) /\ r.pc = [u.pc EXCEPT ![me] = At(where, arg)]
        /\ r.state = u.state /\ r.queue = u.queue
    BY <2>2, <2>3, Zenon DEF Except, IsKernel, Fields
  <2>. QED
    BY <2>2, <2>4, ExceptTwice
<1>5. At(where, arg) \in Places /\ At(where, arg).at = where /\ At(where, arg).arg = arg
  BY Zenon DEF Places, At
<1>6. PICK at : at = At(where, arg)
  OBVIOUS
<1>7. Sound(r, NoTask)
  <2>1. GivesUp(q, r, me, "Blocked", at)
    BY <1>4, <1>5, <1>6, Zenon DEF GivesUp
  <2>. QED
    BY <1>1, <1>2, <1>5, <1>6, <2>1, GiveUpSound, Zenon
<1>. QED
  BY <1>1, <1>7, Zenon DEF BlockAt

-----------------------------------------------------------------------------
(* Waking tasks.                                                            *)

\* t, blocked, is made ready with the event e and pushed; r is q otherwise.
Readied(q, r, t, e) ==
    /\ Except(q, r, {"state", "event", "queue"})
    /\ r.state = [q.state EXCEPT ![t] = "Ready"]
    /\ r.event = [q.event EXCEPT ![t] = e]
    /\ r.queue = Append(q.queue, t)

LEMMA ReadiedQueueing ==
    ASSUME NEW q, Typed(q), Queueing(q), NEW t \in Tasks, q.state[t] = "Blocked",
           NEW e \in Events, NEW r, Readied(q, r, t, e)
    PROVE  Typed(r) /\ Queueing(r)
<1>1. /\ q.state \in [Tasks -> TaskState] /\ q.event \in [Tasks -> Events]
      /\ q.queue \in Seq(Tasks)
  BY Zenon DEF Typed
<1>2. /\ Except(q, r, {"state", "event", "queue"})
      /\ r.state = [q.state EXCEPT ![t] = "Ready"]
      /\ r.event = [q.event EXCEPT ![t] = e]
      /\ r.queue = Append(q.queue, t)
  BY Zenon DEF Readied
<1>3. r.tid = q.tid /\ r.vfork = q.vfork
  BY <1>2, Zenon DEF Except, Fields
<1>4. r.queue \in Seq(Tasks) /\ Entries(r.queue) = Entries(q.queue) \cup {t}
  BY <1>1, <1>2, PushEntries
<1>5. Typed(r)
  <2>1. r.state \in [Tasks -> TaskState] /\ r.event \in [Tasks -> Events]
    BY <1>1, <1>2 DEF TaskState
  <2>. QED
    BY <1>2, <1>4, <2>1, TypedExcept, Zenon
<1>6. r.state[t] = "Ready" /\ \A u \in Tasks : u # t => r.state[u] = q.state[u]
  BY <1>1, <1>2, Zenon
<1>7. t \notin Entries(q.queue) /\ Active(q, t)
  BY Zenon DEF Queueing, Active, Alive
<1>8. \A u \in Tasks : Active(r, u) => Active(q, u)
  BY <1>3, <1>4, <1>6, <1>7, Zenon DEF Active, Waits, Alive
<1>9. Entries(q.queue) \subseteq Tasks
  BY <1>1, EntriesIn, Zenon
<1>10. \A u \in Entries(r.queue) : r.state[u] \in {"Ready", "Exited"}
  BY <1>4, <1>6, <1>9, Zenon DEF Queueing
<1>11. TidsDiffer(r.queue, q.tid)
  <2>1. \A u \in Entries(q.queue) : Active(q, u) /\ u # t
    BY <1>7, Zenon DEF Active
  <2>2. \A u \in Entries(q.queue) : q.tid[u] # q.tid[t]
    BY <1>7, <1>9, <2>1, Zenon DEF Queueing
  <2>3. TidsDiffer(q.queue, q.tid)
    BY Zenon DEF Queueing
  <2>. QED
    BY <1>1, <1>2, <2>2, <2>3, PushTids
<1>12. \A c \in Tasks : q.vfork[c] # NoTask =>
          /\ r.state[q.vfork[c]] \in {"BlockedUninterruptible", "Exited"}
          /\ q.vfork[c] \notin Entries(r.queue)
  <2>. TAKE c \in Tasks
  <2>. HAVE q.vfork[c] # NoTask
  <2>1. /\ q.vfork[c] \in Tasks /\ q.vfork[c] \notin Entries(q.queue)
        /\ q.state[q.vfork[c]] \in {"BlockedUninterruptible", "Exited"}
    BY Zenon DEF Queueing, Typed
  <2>. QED
    BY <1>4, <1>6, <2>1, Zenon
<1>13. Queueing(r)
  BY <1>3, <1>8, <1>10, <1>11, <1>12 DEF Queueing
<1>. QED
  BY <1>5, <1>13, Zenon

\* wakeup_task wakes a blocked task and leaves any other alone.
LEMMA WakeupSound ==
    ASSUME NEW q, Typed(q), Queueing(q), NEW t \in Tasks, NEW e \in Events,
           NEW r, r = wakeup_task(q, t, e)
    PROVE  /\ Typed(r) /\ Queueing(r) /\ Except(q, r, {"state", "event", "queue"})
           /\ q.state[t] = "Blocked" => r.state[t] = "Ready" /\ r.event[t] = e
           /\ q.state[t] # "Blocked" => r = q
           /\ \A u \in Tasks : u # t => r.state[u] = q.state[u] /\ r.event[u] = q.event[u]
<1>1. CASE q.state[t] # "Blocked"
  <2>1. r = q
    BY <1>1, Zenon DEF wakeup_task
  <2>2. Except(q, q, {"state", "event", "queue"})
    BY Zenon DEF Except, Typed
  <2>. QED
    BY <1>1, <2>1, <2>2, Zenon
<1>2. CASE q.state[t] = "Blocked"
  <2>1. IsKernel(q) /\ q.state \in [Tasks -> TaskState] /\ q.event \in [Tasks -> Events]
    BY Zenon DEF Typed
  <2>2. r = [q EXCEPT !.state = [q.state EXCEPT ![t] = "Ready"],
                      !.event = [q.event EXCEPT ![t] = e],
                      !.queue = Append(q.queue, t)]
    BY <1>2, <2>1, Zenon DEF wakeup_task, push_task, IsKernel, Fields
  <2>3. /\ Except(q, r, {"state", "event", "queue"})
        /\ r.state = [q.state EXCEPT ![t] = "Ready"]
        /\ r.event = [q.event EXCEPT ![t] = e]
        /\ r.queue = Append(q.queue, t)
    BY <2>1, <2>2, Zenon DEF Except, IsKernel, Fields
  <2>4. Readied(q, r, t, e)
    BY <2>3, Zenon DEF Readied
  <2>5. Typed(r) /\ Queueing(r)
    BY <1>2, <2>4, ReadiedQueueing, Zenon
  <2>. QED
    BY <1>2, <2>1, <2>3, <2>5, Zenon
<1>. QED
  BY <1>1, <1>2, Zenon

\* The waiters W that were blocked are woken with the event e, and nobody else.
Drained(q, r, W, e) ==
    /\ Typed(r) /\ Queueing(r) /\ Except(q, r, {"state", "event", "queue"})
    /\ \A t \in Tasks : q.state[t] = "Blocked" /\ t \in W =>
          r.state[t] = "Ready" /\ r.event[t] = e
    /\ \A t \in Tasks : q.state[t] # "Blocked" \/ t \notin W =>
          r.state[t] = q.state[t] /\ r.event[t] = q.event[t]

LEMMA DrainedStep ==
    ASSUME NEW q, NEW p, NEW W, NEW e \in Events, Drained(q, p, W, e),
           NEW t \in Tasks, NEW r, r = wakeup_task(p, t, e)
    PROVE  Drained(q, r, W \cup {t}, e)
<1>1. /\ Typed(r) /\ Queueing(r) /\ Except(p, r, {"state", "event", "queue"})
      /\ p.state[t] = "Blocked" => r.state[t] = "Ready" /\ r.event[t] = e
      /\ p.state[t] # "Blocked" => r = p
      /\ \A u \in Tasks : u # t => r.state[u] = p.state[u] /\ r.event[u] = p.event[u]
  <2>1. Typed(p) /\ Queueing(p)
    BY Zenon DEF Drained
  <2>. QED
    BY <2>1, WakeupSound
<1>2. Except(q, r, {"state", "event", "queue"})
  <2>1. Except(q, p, {"state", "event", "queue"})
    BY Zenon DEF Drained
  <2>. QED
    BY <1>1, <2>1, ExceptTwice
<1>3. ASSUME NEW u \in Tasks, q.state[u] = "Blocked", u \in W \cup {t}
      PROVE  r.state[u] = "Ready" /\ r.event[u] = e
  <2>1. CASE u \in W
    <3>1. p.state[u] = "Ready" /\ p.event[u] = e
      BY <1>3, <2>1, Zenon DEF Drained
    <3>. QED
      BY <1>1, <3>1, Zenon
  <2>2. CASE u \notin W
    <3>1. u = t /\ p.state[u] = "Blocked"
      BY <1>3, <2>2, Zenon DEF Drained
    <3>. QED
      BY <1>1, <3>1, Zenon
  <2>. QED
    BY <2>1, <2>2, Zenon
<1>4. ASSUME NEW u \in Tasks, q.state[u] # "Blocked" \/ u \notin W \cup {t}
      PROVE  r.state[u] = q.state[u] /\ r.event[u] = q.event[u]
  <2>1. p.state[u] = q.state[u] /\ p.event[u] = q.event[u]
    BY <1>4, Zenon DEF Drained
  <2>2. u # t \/ p.state[t] # "Blocked"
    BY <1>4, <2>1, Zenon
  <2>. QED
    BY <1>1, <2>1, <2>2, Zenon
<1>. QED
  BY <1>1, <1>2, <1>3, <1>4, Zenon DEF Drained

\* PCB::exit wakes the waiters of the parent with its pid, and clears the list.
LEMMA DrainSound ==
    ASSUME NEW q, Typed(q), Queueing(q), NEW par \in Pids, NEW p \in Pids,
           NEW r, r = wake_waiting_tasks(q, par, p)
    PROVE  \E u : /\ Except(q, u, {"waiting_task"})
                  /\ u.waiting_task = [q.waiting_task EXCEPT ![par] = <<>>]
                  /\ Drained(u, r, Entries(q.waiting_task[par]), Ev("Process", p))
<1>0. PICK l, e : l = q.waiting_task[par] /\ e = Ev("Process", p)
  OBVIOUS
<1>. DEFINE w == [n \in 1..Len(l) |-> Waiter(l[n], e)]
<1>1. PICK u : u = [q EXCEPT !.waiting_task[par] = <<>>]
  BY Zenon
<1>2. /\ IsKernel(q) /\ q.waiting_task \in [Pids -> Seq(Tasks)]
      /\ l \in Seq(Tasks) /\ Len(l) \in Nat /\ e \in Events
  BY <1>0 DEF Typed, Events
<1>3. u = [q EXCEPT !.waiting_task = [q.waiting_task EXCEPT ![par] = <<>>]]
  BY <1>1, <1>2, Zenon DEF IsKernel, Fields
<1>4. /\ Except(q, u, {"waiting_task"})
      /\ u.waiting_task = [q.waiting_task EXCEPT ![par] = <<>>]
  BY <1>2, <1>3, Zenon DEF Except, IsKernel, Fields
<1>5. Typed(u) /\ Queueing(u)
  <2>1. u.waiting_task \in [Pids -> Seq(Tasks)]
    BY <1>2, <1>4
  <2>2. Typed(u)
    BY <1>4, <2>1, TypedExcept, Zenon
  <2>3. Queueing(u)
    BY <1>4, Frames
  <2>. QED
    BY <2>2, <2>3, Zenon
<1>6. r = wake_all(u, w)
  BY <1>0, <1>1, Zenon DEF wake_waiting_tasks
<1>7. Len(w) = Len(l) /\ \A n \in 1..Len(l) : w[n].task = l[n] /\ w[n].arg = e
  BY <1>2 DEF Waiter
<1>. HIDE DEF w
<1>8. PICK f : /\ r = f[Len(l)] /\ f[0] = u
               /\ \A n \in 1..Len(l) : f[n] = wakeup_task(f[n - 1], l[n], e)
  <2>1. \E f : /\ wake_all(u, w) = f[Len(w)]
               /\ f[0] = u
               /\ \A n \in 1..Len(w) : f[n] = wakeup_task(f[n - 1], w[n].task, w[n].arg)
    <3>1. Len(w) \in Nat
      BY <1>2, <1>7, Zenon
    <3>. HIDE DEF w
    <3>. QED
      BY ONLY <3>1, WakeAllUnfolds
  <2>. QED
    BY <1>6, <1>7, <2>1
<1>. DEFINE W(n) == {l[i] : i \in 1..n}
            Bad == {n \in 0..Len(l) : ~Drained(u, f[n], W(n), e)}
<1>9. ASSUME Bad # {} PROVE FALSE
  <2>1. PICK n \in Bad : \A m \in Bad : n <= m
    <3>1. Bad \in SUBSET Nat
      BY <1>2
    <3>. HIDE DEF Bad
    <3>. QED
      BY <1>9, <3>1, NatMin, Zenon
  <2>2. W(0) = {} /\ Except(u, u, {"state", "event", "queue"})
    BY <1>5 DEF Except, Typed
  <2>3. Drained(u, f[0], W(0), e)
    BY <1>5, <1>8, <2>2, Zenon DEF Drained
  <2>4. n # 0 /\ n \in 0..Len(l)
    BY <2>1, <2>3, Zenon
  <2>5. n \in 1..Len(l) /\ n - 1 \in 0..Len(l) /\ ~(n <= n - 1)
    BY <1>2, <2>4
  <2>6. n - 1 \notin Bad
    BY <2>1, <2>5, Zenon
  <2>7. Drained(u, f[n - 1], W(n - 1), e)
    BY <2>5, <2>6, Zenon
  <2>8. l[n] \in Tasks /\ W(n) = W(n - 1) \cup {l[n]}
    BY <1>2, <2>5
  <2>9. f[n] = wakeup_task(f[n - 1], l[n], e)
    BY <1>8, <2>5, Zenon
  <2>10. Drained(u, f[n], W(n), e)
    <3>. HIDE DEF W
    <3>. QED
      BY ONLY <1>2, <2>7, <2>8, <2>9, DrainedStep
  <2>. QED
    BY <2>1, <2>10, Zenon
<1>10. Drained(u, r, W(Len(l)), e)
  <2>1. Len(l) \in 0..Len(l)
    BY <1>2
  <2>. QED
    BY <1>8, <1>9, <2>1, Zenon
<1>11. W(Len(l)) = Entries(q.waiting_task[par])
  BY <1>0, Zenon DEF Entries
<1>. QED
  BY <1>0, <1>4, <1>10, <1>11, Zenon

-----------------------------------------------------------------------------
(* Sending and taking signals.                                              *)

\* Tasks may be woken for a signal.
Roused(q, r) ==
    \A t \in Tasks :
        \/ r.state[t] = q.state[t] /\ r.event[t] = q.event[t]
        \/ q.state[t] = "Blocked" /\ r.state[t] = "Ready" /\ r.event[t] = Ev("Signal", 0)

\* Every signal of r, taken or queued, was there in q or is of S.
SignalsFrom(q, r, S) ==
    /\ \A t \in Tasks : r.pending_signal[t] \in {q.pending_signal[t], NoSignal} \cup S
                           \cup Entries(q.pending[q.proc[t]])
    /\ \A p \in Pids : Entries(r.pending[p]) \subseteq Entries(q.pending[p]) \cup S

Signalled(q, r, s) ==
    /\ Typed(r) /\ Queueing(r)
    /\ Except(q, r, {"state", "event", "queue", "pending_signal", "pending"})
    /\ Roused(q, r)
    /\ SignalsFrom(q, r, {s})

LEMMA MinIn ==
    ASSUME NEW S \in SUBSET Nat, S # {}
    PROVE  Min(S) \in S /\ \A n \in S : Min(S) <= n
BY NatMin, Zenon DEF Min

\* A thread takes the signal and is woken if it sleeps in wait4.
LEMMA TakeSignal ==
    ASSUME NEW q, Typed(q), Queueing(q), NEW t \in Tasks, NEW s \in Sigs,
           NEW r, r = try_recive_pending_signal(q, t, s)
    PROVE  Signalled(q, r, s)
<1>1. /\ IsKernel(q) /\ q.pending_signal \in [Tasks -> Sigs \cup {NoSignal}]
      /\ q.signal_to_wait[t] = {}
  BY Zenon DEF Typed
<1>2. PICK u : u = [q EXCEPT !.pending_signal[t] = s]
  BY Zenon
<1>3. r = wakeup_task(u, t, Ev("Signal", 0))
  BY <1>1, <1>2, Zenon DEF try_recive_pending_signal
<1>4. u = [q EXCEPT !.pending_signal = [q.pending_signal EXCEPT ![t] = s]]
  BY <1>1, <1>2, Zenon DEF IsKernel, Fields
<1>5. /\ Except(q, u, {"pending_signal"})
      /\ u.pending_signal = [q.pending_signal EXCEPT ![t] = s]
      /\ u.state = q.state /\ u.event = q.event /\ u.pending = q.pending
  BY <1>1, <1>4, Zenon DEF Except, IsKernel, Fields
<1>6. Typed(u)
  <2>1. u.pending_signal \in [Tasks -> Sigs \cup {NoSignal}]
    BY <1>1, <1>5, Zenon
  <2>. QED
    BY <1>5, <2>1, TypedExcept, Zenon
<1>7. Queueing(u)
  BY <1>5, Frames
<1>8. PICK e : e = Ev("Signal", 0)
  OBVIOUS
<1>9. /\ Typed(r) /\ Queueing(r) /\ Except(u, r, {"state", "event", "queue"})
      /\ u.state[t] = "Blocked" => r.state[t] = "Ready" /\ r.event[t] = e
      /\ u.state[t] # "Blocked" => r = u
      /\ \A v \in Tasks : v # t => r.state[v] = u.state[v] /\ r.event[v] = u.event[v]
  <2>1. e \in Events /\ r = wakeup_task(u, t, e)
    BY <1>3, <1>8, Zenon DEF Events
  <2>. QED
    BY ONLY <1>6, <1>7, <2>1, t \in Tasks, WakeupSound
<1>10. r.pending_signal = u.pending_signal /\ r.pending = u.pending
  BY <1>9, Zenon DEF Except, Fields
<1>11. Except(q, r, {"state", "event", "queue", "pending_signal", "pending"})
  BY <1>5, <1>9, ExceptTwice
<1>12. Roused(q, r)
  BY <1>5, <1>8, <1>9, Zenon DEF Roused
<1>13. SignalsFrom(q, r, {s})
  BY <1>1, <1>5, <1>10, Zenon DEF SignalsFrom
<1>. QED
  BY <1>9, <1>11, <1>12, <1>13, Zenon DEF Signalled

\* PCB::send_signal: a thread takes the signal, or the queue, or nobody.
LEMMA SendSignal ==
    ASSUME NEW q, Typed(q), Queueing(q), NEW p \in Pids, NEW s \in Sigs,
           NEW r, r = send_signal(q, p, s)
    PROVE  Signalled(q, r, s)
<1>0. IsKernel(q) /\ q.tasks[p] \in Seq(Tasks) /\ q.pending \in [Pids -> Seq(Sigs)]
  BY Zenon DEF Typed
<1>1. \/ \E t \in Tasks : r = try_recive_pending_signal(q, t, s)
      \/ r = add_pending(q, p, s)
      \/ r = q
  <2>. DEFINE l == q.tasks[p]
              named == {i \in 1..Len(l) : s.dest \in {0, q.tid[l[i]]}}
              tried == {i \in named : s.dest = 0 \/ \A j \in named : i <= j}
              takers == {i \in tried : accepts(q, l[i], s)}
  <2>1. r = CASE takers # {} -> try_recive_pending_signal(q, l[Min(takers)], s)
              [] takers = {} /\ (s.dest = 0 \/ tried # {}) -> add_pending(q, p, s)
              [] OTHER -> q
    BY Zenon DEF send_signal
  <2>2. takers \in SUBSET (1..Len(l)) /\ Len(l) \in Nat
    BY <1>0
  <2>3. takers # {} => l[Min(takers)] \in Tasks
    <3>1. takers # {} => Min(takers) \in 1..Len(l)
      <4>. HIDE DEF takers
      <4>1. takers \in SUBSET Nat
        BY <2>2
      <4>. QED
        BY <2>2, <4>1, MinIn, Zenon
    <3>. HIDE DEF takers
    <3>. QED
      BY <1>0, <3>1
  <2>. HIDE DEF takers, tried, l
  <2>. QED
    BY <2>1, <2>3, Zenon
<1>2. CASE \E t \in Tasks : r = try_recive_pending_signal(q, t, s)
  BY <1>2, TakeSignal, Zenon
<1>3. CASE r = add_pending(q, p, s)
  <2>1. r = [q EXCEPT !.pending = [q.pending EXCEPT ![p] = Append(q.pending[p], s)]]
    BY <1>0, <1>3, Zenon DEF add_pending, IsKernel, Fields
  <2>2. /\ Except(q, r, {"pending"})
        /\ r.pending = [q.pending EXCEPT ![p] = Append(q.pending[p], s)]
        /\ r.state = q.state /\ r.event = q.event /\ r.pending_signal = q.pending_signal
    BY <1>0, <2>1, Zenon DEF Except, IsKernel, Fields
  <2>3. r.pending \in [Pids -> Seq(Sigs)]
    BY <1>0, <2>2
  <2>4. Typed(r)
    BY <2>2, <2>3, TypedExcept, Zenon
  <2>5. Queueing(r)
    BY <2>2, Frames
  <2>6. Except(q, r, {"state", "event", "queue", "pending_signal", "pending"})
    BY <2>2, Zenon DEF Except
  <2>7. Entries(Append(q.pending[p], s)) \subseteq Entries(q.pending[p]) \cup {s}
    <3>1. q.pending[p] \in Seq(Sigs)
      BY <1>0, Zenon
    <3>. QED
      BY <3>1 DEF Entries
  <2>8. SignalsFrom(q, r, {s})
    BY <1>0, <2>2, <2>7, Zenon DEF SignalsFrom
  <2>9. Roused(q, r)
    BY <2>2, Zenon DEF Roused
  <2>. QED
    BY <2>4, <2>5, <2>6, <2>8, <2>9, Zenon DEF Signalled
<1>4. CASE r = q
  <2>1. Except(q, r, {"state", "event", "queue", "pending_signal", "pending"})
    BY <1>0, <1>4, Zenon DEF Except
  <2>. QED
    BY <1>4, <2>1, Zenon DEF Signalled, Roused, SignalsFrom
<1>. QED
  BY <1>1, <1>2, <1>3, <1>4, Zenon

\* Signals that are SIGCHLD only, where there is no kill.
LEMMA PeacefulSignals ==
    ASSUME NEW q, Typed(q), Peaceful(q), NEW S, Quiet(q) => \A s \in S : s.num = "CHLD",
           NEW r, r.load = q.load, SignalsFrom(q, r, S),
           \A p \in Pids : Len(r.tasks[p]) <= 1 \/ Len(r.tasks[p]) = Len(q.tasks[p])
    PROVE  Peaceful(r)
<1>. SUFFICES ASSUME Quiet(r) PROVE Peaceful(r)
  BY Zenon DEF Peaceful
<1>1. Quiet(q)
  BY Zenon DEF Quiet
<1>2. \A p \in Pids : Entries(q.pending[p]) \subseteq {s \in Sigs : s.num = "CHLD"}
  <2>1. \A p \in Pids : q.pending[p] \in Seq(Sigs)
    BY Zenon DEF Typed
  <2>2. \A p \in Pids : \A i \in 1..Len(q.pending[p]) :
          q.pending[p][i] \in Sigs /\ q.pending[p][i].num = "CHLD"
    BY <1>1, <2>1 DEF Peaceful
  <2>. QED
    BY <2>2, Zenon DEF Entries
<1>3. \A t \in Tasks : r.pending_signal[t] # NoSignal => r.pending_signal[t].num = "CHLD"
  <2>1. \A t \in Tasks : q.proc[t] \in Pids
    BY Zenon DEF Typed
  <2>2. \A t \in Tasks : q.pending_signal[t] # NoSignal => q.pending_signal[t].num = "CHLD"
    BY <1>1, Zenon DEF Peaceful
  <2>. QED
    BY <1>1, <1>2, <2>1, <2>2, Zenon DEF SignalsFrom
<1>4. \A p \in Pids : \A i \in 1..Len(r.pending[p]) : r.pending[p][i].num = "CHLD"
  <2>. TAKE p \in Pids
  <2>. TAKE i \in 1..Len(r.pending[p])
  <2>1. r.pending[p][i] \in Entries(q.pending[p]) \cup S
    BY Zenon DEF SignalsFrom, Entries
  <2>. QED
    BY <1>1, <1>2, <2>1, Zenon
<1>5. \A p \in Pids : Len(r.tasks[p]) <= 1
  BY <1>1, Zenon DEF Peaceful
<1>. QED
  BY <1>3, <1>4, <1>5, Zenon DEF Peaceful

\* Nothing but signals and the tasks woken for them.
Stirred(q, r, S) ==
    /\ Typed(r) /\ Queueing(r)
    /\ Except(q, r, {"state", "event", "queue", "pending_signal", "pending", "frames",
                     "signal_mask", "kills"})
    /\ Roused(q, r)
    /\ SignalsFrom(q, r, S)

LEMMA StirredSound ==
    ASSUME NEW q, NEW run, Sound(q, run), NEW S, Quiet(q) => \A s \in S : s.num = "CHLD",
           NEW r, Stirred(q, r, S)
    PROVE  Sound(r, run)
<1>1. /\ r.tid = q.tid /\ r.vfork = q.vfork /\ r.proc = q.proc /\ r.pc = q.pc
      /\ r.load = q.load /\ r.fate = q.fate
      /\ r.next_tid = q.next_tid /\ r.tasks = q.tasks /\ r.pcbs = q.pcbs
      /\ r.waiting_task = q.waiting_task /\ r.parent = q.parent /\ r.children = q.children
      /\ r.pstate = q.pstate /\ r.reaped = q.reaped
  BY Zenon DEF Stirred, Except, Fields
<1>2. \A t \in Tasks :
        \/ r.state[t] = q.state[t] /\ r.event[t] = q.event[t]
        \/ q.state[t] = "Blocked" /\ r.state[t] = "Ready" /\ r.event[t] = Ev("Signal", 0)
  BY Zenon DEF Stirred, Roused
<1>3. /\ \A t \in Tasks : Alive(r, t) <=> Alive(q, t)
      /\ \A t \in Tasks : (r.state[t] = "None") <=> (q.state[t] = "None")
  BY <1>2, Zenon DEF Alive
<1>4. Typed(r) /\ Queueing(r) /\ Typed(q) /\ Fresh(q)
  BY Zenon DEF Stirred, Sound
<1>5. Fresh(r)
  BY <1>1, <1>3, <1>4 DEF Fresh
<1>6. CASE q.fate # "up"
  BY <1>1, <1>4, <1>5, <1>6, Zenon DEF Sound
<1>7. CASE q.fate = "up"
  <2>0. /\ Families(q) /\ Threads(q) /\ Sleeping(q) /\ Waiting(q)
        /\ Peaceful(q) /\ VForked(q, run)
    BY <1>7, Zenon DEF Sound
  <2>1. Families(r)
    BY <2>0, Frames DEF Stirred
  <2>2. Threads(r)
    <3>1. \A p \in Pids : Entries(q.tasks[p]) \cup Entries(q.waiting_task[p]) \subseteq Tasks
      BY <1>4, TypedLists, Zenon
    <3>. QED
      BY <1>1, <1>3, <2>0, <3>1 DEF Threads
  <2>3. Sleeping(r)
    <3>1. \A t \in Tasks : q.state[t] = "Blocked" => q.pc[t].at # "vfork"
      BY <2>0, Zenon DEF Sleeping
    <3>. QED
      BY <1>1, <1>2, <1>3, <2>0, <3>1, SMTT(30) DEF Sleeping
  <2>4. Waiting(r)
    <3>1. \A c : Ev("Signal", 0) # Ev("Process", c)
      BY Zenon DEF Ev
    <3>. QED
      BY <1>1, <1>2, <2>0, <3>1, SMTT(30) DEF Waiting, AloneAt
  <2>5. Peaceful(r)
    <3>1. SignalsFrom(q, r, S)
      BY Zenon DEF Stirred
    <3>. QED
      BY <1>1, <1>4, <2>0, <3>1, PeacefulSignals, Zenon
  <2>6. VForked(r, run)
    <3>1. Quiet(r) <=> Quiet(q)
      BY <1>1, Zenon DEF Quiet
    <3>. QED
      BY <1>1, <1>2, <1>3, <2>0, <3>1 DEF VForked
  <2>. QED
    BY <1>4, <1>5, <2>1, <2>2, <2>3, <2>4, <2>5, <2>6, Zenon DEF Sound
<1>. QED
  BY <1>6, <1>7, Zenon

\* The signal a task takes off the queue of its process on its way to user mode.
LEMMA Receive ==
    ASSUME NEW q, Typed(q), Queueing(q), NEW t \in Tasks, NEW r,
           r = recive_pending_signal_from_parent(q, q.proc[t], t)
    PROVE  /\ Stirred(q, r, {})
           /\ Except(q, r, {"pending_signal", "pending"})
<1>. DEFINE p == q.proc[t]
            D == deliverable(q, p, t)
<1>0. /\ IsKernel(q) /\ p \in Pids /\ q.pending \in [Pids -> Seq(Sigs)]
      /\ q.pending_signal \in [Tasks -> Sigs \cup {NoSignal}]
  BY Zenon DEF Typed
<1>1. CASE r = q
  <2>1. /\ Except(q, r, {"pending_signal", "pending"})
        /\ Except(q, r, {"state", "event", "queue", "pending_signal", "pending", "frames",
                         "signal_mask", "kills"})
    BY <1>0, <1>1, Zenon DEF Except
  <2>. QED
    BY <1>1, <2>1, Zenon DEF Stirred, Roused, SignalsFrom
<1>2. CASE D # {} /\ r # q
  <2>1. PICK i, l : i = Min(D) /\ l = q.pending[p]
    OBVIOUS
  <2>2. PICK m : m = Picked(l, 1..Len(l) \ {i})
    OBVIOUS
  <2>3. l \in Seq(Sigs) /\ Len(l) \in Nat
    BY <1>0, <2>1
  <2>4. i \in 1..Len(l)
    <3>1. D \in SUBSET (1..Len(l))
      BY <2>1, Zenon DEF deliverable
    <3>2. D \in SUBSET Nat
      BY <2>3, <3>1
    <3>. HIDE DEF D
    <3>. QED
      BY <1>2, <2>1, <3>1, <3>2, MinIn, Zenon
  <2>5. m \in Seq(Sigs) /\ Entries(m) \subseteq Entries(l)
    <3>. DEFINE I == 1..Len(l) \ {i}
    <3>1. I \in SUBSET (1..Len(l))
      OBVIOUS
    <3>2. PICK f : Numbers(f, l, I)
      <4>. HIDE DEF I
      <4>. QED
        BY <2>3, <3>1, PickedNumbers, Zenon
    <3>3. PICK n : n = Len(m)
      BY Zenon
    <3>4. n \in Nat /\ f \in [1..n -> I] /\ m = [j \in 1..n |-> l[f[j]]]
      <4>1. n \in 0..Len(l) /\ f \in [1..n -> I] /\ m = [j \in 1..n |-> l[f[j]]]
        BY <2>2, <3>2, <3>3, Zenon DEF Numbers
      <4>. QED
        BY <2>3, <4>1
    <3>. HIDE DEF I
    <3>5. \A j \in 1..n : f[j] \in 1..Len(l) /\ l[f[j]] \in Sigs
      <4>1. \A j \in 1..Len(l) : l[j] \in Sigs
        BY <2>3
      <4>2. \A j \in 1..n : f[j] \in I
        BY <3>4, Zenon
      <4>. QED
        BY <3>1, <4>1, <4>2, Zenon
    <3>6. m \in Seq(Sigs) /\ \A j \in 1..n : m[j] = l[f[j]]
      BY <3>4, <3>5
    <3>. QED
      BY ONLY <3>3, <3>5, <3>6 DEF Entries
  <2>6. r = [q EXCEPT !.pending_signal = [q.pending_signal EXCEPT ![t] = l[i]],
                      !.pending = [q.pending EXCEPT ![p] = m]]
    BY <1>0, <1>2, <2>1, <2>2, Zenon DEF recive_pending_signal_from_parent, IsKernel, Fields
  <2>7. /\ Except(q, r, {"pending_signal", "pending"})
        /\ r.pending_signal = [q.pending_signal EXCEPT ![t] = l[i]]
        /\ r.pending = [q.pending EXCEPT ![p] = m]
        /\ r.state = q.state /\ r.event = q.event
    BY <1>0, <2>6, Zenon DEF Except, IsKernel, Fields
  <2>8. l[i] \in Sigs /\ l[i] \in Entries(l)
    BY <2>3, <2>4 DEF Entries
  <2>9. /\ r.pending_signal \in [Tasks -> Sigs \cup {NoSignal}]
        /\ r.pending \in [Pids -> Seq(Sigs)]
    BY <1>0, <2>5, <2>7, <2>8, Zenon
  <2>10. Typed(r)
    BY <2>7, <2>9, TypedExcept, Zenon
  <2>11. Queueing(r)
    BY <2>7, Frames
  <2>12. Except(q, r, {"state", "event", "queue", "pending_signal", "pending", "frames",
                       "signal_mask", "kills"})
    BY <2>7, Zenon DEF Except
  <2>13. Roused(q, r)
    BY <2>7, Zenon DEF Roused
  <2>14. SignalsFrom(q, r, {})
    BY <1>0, <2>1, <2>5, <2>7, <2>8, Zenon DEF SignalsFrom
  <2>. QED
    BY <2>7, <2>10, <2>11, <2>12, <2>13, <2>14, Zenon DEF Stirred
<1>3. r = q \/ D # {}
  BY Zenon DEF recive_pending_signal_from_parent
<1>. QED
  BY <1>1, <1>2, <1>3, Zenon

-----------------------------------------------------------------------------
(* The end of a process.                                                    *)

LEMMA MarkExited ==
    ASSUME NEW q, Typed(q), Queueing(q), NEW S, NEW r, r = mark_exited(q, S)
    PROVE  /\ Typed(r) /\ Queueing(r) /\ Except(q, r, {"state"})
           /\ \A t \in Tasks : /\ t \in S => r.state[t] = "Exited"
                               /\ t \notin S => r.state[t] = q.state[t]
<1>1. IsKernel(q) /\ q.state \in [Tasks -> TaskState]
  BY Zenon DEF Typed
<1>2. r = [q EXCEPT !.state = [t \in Tasks |-> IF t \in S THEN "Exited" ELSE q.state[t]]]
  BY <1>1, Zenon DEF mark_exited, IsKernel, Fields
<1>3. /\ Except(q, r, {"state"})
      /\ r.state = [t \in Tasks |-> IF t \in S THEN "Exited" ELSE q.state[t]]
      /\ r.tid = q.tid /\ r.vfork = q.vfork /\ r.queue = q.queue
  BY <1>1, <1>2 DEF Except, IsKernel, Fields
<1>4. \A t \in Tasks : /\ t \in S => r.state[t] = "Exited"
                       /\ t \notin S => r.state[t] = q.state[t]
  BY <1>3, Zenon
<1>5. Typed(r)
  <2>1. r.state \in [Tasks -> TaskState]
    BY <1>1, <1>3 DEF TaskState
  <2>. QED
    BY <1>3, <2>1, TypedExcept, Zenon
<1>6. Queueing(r)
  <2>1. \A t \in Tasks : Active(r, t) => Active(q, t)
    BY <1>3, <1>4, Zenon DEF Active, Alive, Waits
  <2>2. Entries(q.queue) \subseteq Tasks
    <3>1. q.queue \in Seq(Tasks)
      BY Zenon DEF Typed
    <3>. QED
      BY <3>1, EntriesIn, Zenon
  <2>3. \A t \in Entries(q.queue) : r.state[t] \in {"Ready", "Exited"}
    BY <1>4, <2>2, Zenon DEF Queueing
  <2>4. \A c \in Tasks : q.vfork[c] # NoTask =>
          r.state[q.vfork[c]] \in {"BlockedUninterruptible", "Exited"}
    <3>. TAKE c \in Tasks
    <3>. HAVE q.vfork[c] # NoTask
    <3>1. /\ q.vfork[c] \in Tasks
          /\ q.state[q.vfork[c]] \in {"BlockedUninterruptible", "Exited"}
      BY Zenon DEF Queueing, Typed
    <3>. QED
      BY <1>4, <3>1, Zenon
  <2>. QED
    BY <1>3, <2>1, <2>3, <2>4 DEF Queueing
<1>. QED
  BY <1>3, <1>4, <1>5, <1>6, Zenon

\* The threads of p are marked, its list cleared, its code stored.
Died(q, r, p) ==
    /\ Typed(r) /\ Queueing(r) /\ Except(q, r, {"state", "tasks", "pstate"})
    /\ r.tasks = [q.tasks EXCEPT ![p] = <<>>]
    /\ r.pstate = [q.pstate EXCEPT ![p] = "Exited"]
    /\ \A t \in Tasks : /\ t \in Entries(q.tasks[p]) => r.state[t] = "Exited"
                        /\ t \notin Entries(q.tasks[p]) => r.state[t] = q.state[t]

Dead(q, p) == [mark_exited(q, Entries(q.tasks[p])) EXCEPT
                  !.tasks[p] = <<>>, !.pstate[p] = "Exited"]

LEMMA Dies ==
    ASSUME NEW q, Typed(q), Queueing(q), NEW p \in Pids, NEW r, r = Dead(q, p)
    PROVE  Died(q, r, p)
<1>1. PICK u : u = mark_exited(q, Entries(q.tasks[p]))
  OBVIOUS
<1>2. /\ Typed(u) /\ Queueing(u) /\ Except(q, u, {"state"})
      /\ \A t \in Tasks : /\ t \in Entries(q.tasks[p]) => u.state[t] = "Exited"
                          /\ t \notin Entries(q.tasks[p]) => u.state[t] = q.state[t]
  BY <1>1, MarkExited
<1>3. /\ IsKernel(u) /\ u.tasks \in [Pids -> Seq(Tasks)]
      /\ u.pstate \in [Pids -> {"None", "Running", "Exited", "Dead"}]
  BY <1>2, Zenon DEF Typed
<1>4. u.tasks = q.tasks /\ u.pstate = q.pstate
  BY <1>2, Zenon DEF Except, Fields
<1>5. r = [u EXCEPT !.tasks = [u.tasks EXCEPT ![p] = <<>>],
                    !.pstate = [u.pstate EXCEPT ![p] = "Exited"]]
  BY <1>1, <1>3, Zenon DEF Dead, IsKernel, Fields
<1>6. /\ Except(u, r, {"tasks", "pstate"}) /\ r.state = u.state
      /\ r.tasks = [u.tasks EXCEPT ![p] = <<>>]
      /\ r.pstate = [u.pstate EXCEPT ![p] = "Exited"]
  BY <1>3, <1>5, Zenon DEF Except, IsKernel, Fields
<1>7. Except(q, r, {"state", "tasks", "pstate"})
  BY <1>2, <1>6, ExceptTwice
<1>8. Typed(r)
  <2>1. /\ r.tasks \in [Pids -> Seq(Tasks)]
        /\ r.pstate \in [Pids -> {"None", "Running", "Exited", "Dead"}]
    BY <1>3, <1>6
  <2>. QED
    BY <1>2, <1>6, <2>1, TypedExcept, Zenon
<1>9. Queueing(r)
  BY <1>2, <1>6, Frames
<1>. QED
  BY <1>2, <1>4, <1>6, <1>7, <1>8, <1>9, Zenon DEF Died

\* The children of p go to init.
Reparented(q, r, p) ==
    /\ Except(q, r, {"parent", "children", "pcbs"})
    /\ r.parent = [c \in Pids |-> IF c \in Entries(q.children[p]) THEN INIT ELSE q.parent[c]]
    /\ r.children = [x \in Pids |-> IF x = INIT THEN q.children[INIT] \o q.children[p]
                                    ELSE IF x = p THEN <<>> ELSE q.children[x]]
    /\ r.pcbs = q.pcbs \ {p}

Disowned(q, p) == [reparent_to_init(q, p) EXCEPT !.pcbs = @ \ {p}]

LEMMA Reparents ==
    ASSUME NEW q, Typed(q), Queueing(q), NEW p \in Pids, p # INIT, NEW r,
           r = Disowned(q, p)
    PROVE  Reparented(q, r, p) /\ Typed(r) /\ Queueing(r)
<1>1. /\ IsKernel(q) /\ q.children \in [Pids -> Seq(Pids)] /\ INIT \in Pids
      /\ q.parent \in [Pids -> Pids] /\ q.pcbs \in SUBSET Pids
  BY TaskNumbers, Zenon DEF Typed
<1>2. PICK par, ch, u :
          /\ par = [c \in Pids |-> IF c \in Entries(q.children[p]) THEN INIT ELSE q.parent[c]]
          /\ ch = [q.children EXCEPT ![p] = <<>>, ![INIT] = q.children[INIT] \o q.children[p]]
          /\ u = reparent_to_init(q, p)
  BY Zenon
<1>3. /\ Except(q, r, {"parent", "children", "pcbs"})
      /\ r.parent = [c \in Pids |-> IF c \in Entries(q.children[p])
                                    THEN INIT ELSE q.parent[c]]
      /\ r.children = [q.children EXCEPT ![p] = <<>>, ![INIT] = q.children[INIT] \o q.children[p]]
      /\ r.pcbs = q.pcbs \ {p}
  <2>1. u = [q EXCEPT !.parent = par, !.children = ch]
    <3>1. u = [q EXCEPT !.parent = [c \in Pids |-> IF c \in Entries(q.children[p])
                                                  THEN INIT ELSE q.parent[c]],
                        !.children = [q.children EXCEPT ![p] = <<>>,
                                                        ![INIT] = q.children[INIT] \o q.children[p]]]
      BY <1>2, Zenon DEF reparent_to_init
    <3>. QED
      BY ONLY <1>2, <3>1, Zenon
  <2>2. r = [u EXCEPT !.pcbs = u.pcbs \ {p}]
    BY <1>2, Zenon DEF Disowned
  <2>3. r.parent = par /\ r.children = ch /\ r.pcbs = q.pcbs \ {p}
    BY ONLY <1>1, <2>1, <2>2, Zenon DEF IsKernel, Fields
  <2>4. Except(q, r, {"parent", "children", "pcbs"})
    BY ONLY <1>1, <2>1, <2>2, Zenon DEF Except, IsKernel, Fields
  <2>. QED
    BY <1>2, <2>3, <2>4, Zenon
<1>4. r.children = [x \in Pids |-> IF x = INIT THEN q.children[INIT] \o q.children[p]
                                   ELSE IF x = p THEN <<>> ELSE q.children[x]]
  BY <1>1, <1>3, Zenon
<1>5. Typed(r)
  <2>1. q.children[INIT] \in Seq(Pids) /\ q.children[p] \in Seq(Pids)
    BY <1>1, Zenon
  <2>2. q.children[INIT] \o q.children[p] \in Seq(Pids)
    BY <2>1
  <2>3. r.children \in [Pids -> Seq(Pids)]
    BY <1>1, <1>4, <2>2
  <2>4. r.parent \in [Pids -> Pids] /\ r.pcbs \in SUBSET Pids
    BY <1>1, <1>3
  <2>5. Except(q, r, {"parent", "children", "pcbs"})
    BY <1>3, Zenon
  <2>. QED
    BY ONLY Typed(q), <2>3, <2>4, <2>5, TypedExcept, Zenon
<1>6. Queueing(r)
  BY <1>3, Frames
<1>. QED
  BY <1>3, <1>4, <1>5, <1>6, Zenon DEF Reparented

\* p, with its parent par, is gone: the waiters of par are woken with its pid,
\* others of par's threads perhaps with SIGCHLD.
Ended(q, r, p, par) ==
    /\ Typed(r) /\ Queueing(r)
    /\ Except(q, r, {"state", "event", "queue", "tasks", "pstate", "waiting_task",
                     "pending_signal", "pending", "parent", "children", "pcbs"})
    /\ r.tasks = [q.tasks EXCEPT ![p] = <<>>]
    /\ r.pstate = [q.pstate EXCEPT ![p] = "Exited"]
    /\ r.waiting_task = [q.waiting_task EXCEPT ![par] = <<>>]
    /\ r.pcbs = q.pcbs \ {p}
    /\ r.parent = [c \in Pids |-> IF c \in Entries(q.children[p]) THEN INIT ELSE q.parent[c]]
    /\ r.children = [x \in Pids |-> IF x = INIT THEN q.children[INIT] \o q.children[p]
                                    ELSE IF x = p THEN <<>> ELSE q.children[x]]
    /\ \A t \in Tasks : t \in Entries(q.tasks[p]) => r.state[t] = "Exited"
    /\ \A t \in Tasks : t \notin Entries(q.tasks[p]) =>
          \/ /\ r.state[t] = q.state[t] /\ r.event[t] = q.event[t]
             /\ q.state[t] # "Blocked" \/ t \notin Entries(q.waiting_task[par])
          \/ /\ q.state[t] = "Blocked" /\ r.state[t] = "Ready"
             /\ \/ r.event[t] = Ev("Signal", 0)
                \/ t \in Entries(q.waiting_task[par]) /\ r.event[t] = Ev("Process", p)
    /\ SignalsFrom(q, r, {Signal("CHLD", 0)})

LEMMA ExitEnds ==
    ASSUME NEW q, Typed(q), Queueing(q), NEW p \in Pids, p # INIT, NEW r, r = PCB_exit(q, p)
    PROVE  Ended(q, r, p, q.parent[p])
<1>1. PICK par, s : par = q.parent[p] /\ s = Signal("CHLD", 0)
  OBVIOUS
<1>2. par \in Pids /\ s \in Sigs
  BY <1>1, Zenon DEF Typed, Sigs, Signal, SigNums
<1>3. PICK d : d = Dead(q, p)
  OBVIOUS
<1>4. Died(q, d, p)
  BY <1>3, Dies, Zenon
<1>5. Typed(d) /\ Queueing(d) /\ d.parent[p] = par
  BY <1>1, <1>4, Zenon DEF Died, Except, Fields
<1>6. PICK w : w = wake_waiting_tasks(d, par, p)
  OBVIOUS
<1>7. PICK u : /\ Except(d, u, {"waiting_task"})
               /\ u.waiting_task = [d.waiting_task EXCEPT ![par] = <<>>]
               /\ Drained(u, w, Entries(d.waiting_task[par]), Ev("Process", p))
  BY <1>2, <1>5, <1>6, DrainSound, Zenon
<1>8. PICK told : told = send_signal(w, par, s)
  OBVIOUS
<1>9. Signalled(w, told, s)
  <2>1. Typed(w) /\ Queueing(w)
    BY <1>7, Zenon DEF Drained
  <2>. QED
    BY <1>2, <1>8, <2>1, SendSignal, Zenon
<1>10. r = Disowned(told, p)
  BY <1>1, <1>3, <1>5, <1>6, <1>8, Zenon DEF PCB_exit, Dead, Disowned
<1>11. Reparented(told, r, p) /\ Typed(r) /\ Queueing(r)
  <2>1. Typed(told) /\ Queueing(told)
    BY <1>9, Zenon DEF Signalled
  <2>. QED
    BY <1>10, <2>1, Reparents, Zenon
<1>12. /\ Except(q, d, {"state", "tasks", "pstate"})
       /\ Except(d, u, {"waiting_task"})
       /\ Except(u, w, {"state", "event", "queue"})
       /\ Except(w, told, {"state", "event", "queue", "pending_signal", "pending"})
       /\ Except(told, r, {"parent", "children", "pcbs"})
  BY <1>4, <1>7, <1>9, <1>11, Zenon DEF Died, Drained, Signalled, Reparented
<1>13. Except(q, r, {"state", "event", "queue", "tasks", "pstate", "waiting_task",
                     "pending_signal", "pending", "parent", "children", "pcbs"})
  <2>1. Except(q, u, {"state", "tasks", "pstate", "waiting_task"})
    BY <1>12, ExceptTwice
  <2>2. Except(q, w, {"state", "tasks", "pstate", "waiting_task", "event", "queue"})
    BY <1>12, <2>1, ExceptTwice
  <2>3. Except(q, told, {"state", "tasks", "pstate", "waiting_task", "event", "queue",
                         "pending_signal", "pending"})
    BY <1>12, <2>2, ExceptTwice
  <2>. QED
    BY <1>12, <2>3, ExceptTwice
<1>14. /\ d.waiting_task = q.waiting_task /\ d.event = q.event
       /\ d.parent = q.parent /\ d.children = q.children /\ d.pcbs = q.pcbs
       /\ d.pending = q.pending /\ d.pending_signal = q.pending_signal /\ d.proc = q.proc
  BY <1>12, Zenon DEF Except, Fields
<1>15. /\ u.tasks = d.tasks /\ u.pstate = d.pstate /\ u.state = d.state /\ u.event = d.event
       /\ u.parent = d.parent /\ u.children = d.children /\ u.pcbs = d.pcbs
       /\ u.pending = d.pending /\ u.pending_signal = d.pending_signal /\ u.proc = d.proc
  BY <1>12, Zenon DEF Except, Fields
<1>16. /\ w.tasks = u.tasks /\ w.pstate = u.pstate /\ w.waiting_task = u.waiting_task
       /\ w.parent = u.parent /\ w.children = u.children /\ w.pcbs = u.pcbs
       /\ w.pending = u.pending /\ w.pending_signal = u.pending_signal /\ w.proc = u.proc
  BY <1>12, Zenon DEF Except, Fields
<1>17. /\ told.tasks = w.tasks /\ told.pstate = w.pstate
       /\ told.waiting_task = w.waiting_task
       /\ told.parent = w.parent /\ told.children = w.children /\ told.pcbs = w.pcbs
  BY <1>12, Zenon DEF Except, Fields
<1>18. /\ r.tasks = told.tasks /\ r.pstate = told.pstate
       /\ r.waiting_task = told.waiting_task /\ r.state = told.state /\ r.event = told.event
       /\ r.pending = told.pending /\ r.pending_signal = told.pending_signal
  BY <1>12, Zenon DEF Except, Fields
<1>19. /\ r.tasks = [q.tasks EXCEPT ![p] = <<>>]
       /\ r.pstate = [q.pstate EXCEPT ![p] = "Exited"]
       /\ r.waiting_task = [q.waiting_task EXCEPT ![par] = <<>>]
  BY <1>4, <1>7, <1>14, <1>15, <1>16, <1>17, <1>18 DEF Died
<1>20. /\ r.pcbs = q.pcbs \ {p}
       /\ r.parent = [c \in Pids |-> IF c \in Entries(q.children[p])
                                     THEN INIT ELSE q.parent[c]]
       /\ r.children = [x \in Pids |-> IF x = INIT THEN q.children[INIT] \o q.children[p]
                                       ELSE IF x = p THEN <<>> ELSE q.children[x]]
  <2>1. /\ told.pcbs = q.pcbs /\ told.parent = q.parent /\ told.children = q.children
    BY <1>14, <1>15, <1>16, <1>17, Zenon
  <2>. QED
    BY <1>11, <2>1, Zenon DEF Reparented
<1>21. \A t \in Tasks : /\ t \in Entries(q.tasks[p]) => u.state[t] = "Exited"
                        /\ t \notin Entries(q.tasks[p]) => u.state[t] = q.state[t]
                        /\ u.event[t] = q.event[t]
  BY <1>4, <1>14, <1>15 DEF Died
<1>22. \A t \in Tasks :
          \/ /\ w.state[t] = u.state[t] /\ w.event[t] = u.event[t]
             /\ u.state[t] # "Blocked" \/ t \notin Entries(q.waiting_task[par])
          \/ /\ u.state[t] = "Blocked" /\ w.state[t] = "Ready"
             /\ t \in Entries(q.waiting_task[par]) /\ w.event[t] = Ev("Process", p)
  BY <1>7, <1>14, Zenon DEF Drained
<1>23. \A t \in Tasks :
          \/ r.state[t] = w.state[t] /\ r.event[t] = w.event[t]
          \/ w.state[t] = "Blocked" /\ r.state[t] = "Ready" /\ r.event[t] = Ev("Signal", 0)
  BY <1>9, <1>18 DEF Signalled, Roused
<1>24. \A t \in Tasks : t \in Entries(q.tasks[p]) => r.state[t] = "Exited"
  BY <1>21, <1>22, <1>23, Zenon
<1>25. \A t \in Tasks : t \notin Entries(q.tasks[p]) =>
          \/ /\ r.state[t] = q.state[t] /\ r.event[t] = q.event[t]
             /\ q.state[t] # "Blocked" \/ t \notin Entries(q.waiting_task[par])
          \/ /\ q.state[t] = "Blocked" /\ r.state[t] = "Ready"
             /\ \/ r.event[t] = Ev("Signal", 0)
                \/ t \in Entries(q.waiting_task[par]) /\ r.event[t] = Ev("Process", p)
  BY <1>21, <1>22, <1>23
<1>26. SignalsFrom(q, r, {s})
  <2>1. w.pending = q.pending /\ w.pending_signal = q.pending_signal /\ w.proc = q.proc
    BY <1>14, <1>15, <1>16, Zenon
  <2>. QED
    BY <1>9, <1>18, <2>1, Zenon DEF Signalled, SignalsFrom
<1>. QED
  BY <1>1, <1>11, <1>13, <1>19, <1>20, <1>24, <1>25, <1>26, Zenon DEF Ended

LEMMA Concat ==
    ASSUME NEW S, NEW s \in Seq(S), NEW t \in Seq(S)
    PROVE  /\ \A x : x \in Entries(s \o t) <=> x \in Entries(s) \/ x \in Entries(t)
           /\ (/\ \A i, j \in 1..Len(s) : s[i] = s[j] => i = j
               /\ \A i, j \in 1..Len(t) : t[i] = t[j] => i = j
               /\ Entries(s) \cap Entries(t) = {})
              => \A i, j \in 1..Len(s \o t) : (s \o t)[i] = (s \o t)[j] => i = j
<1>1. PICK u, m, n : u = s \o t /\ m = Len(s) /\ n = Len(t)
  BY Zenon
<1>2. /\ m \in Nat /\ n \in Nat /\ Len(u) = m + n
      /\ \A i \in 1..m : u[i] = s[i]
      /\ \A i \in 1..n : u[m + i] = t[i]
  BY <1>1
<1>3. \A i \in 1..(m + n) : i \in 1..m \/ \E j \in 1..n : i = m + j
  <2>. TAKE i \in 1..(m + n)
  <2>1. i \in 1..m \/ (i - m \in 1..n /\ i = m + (i - m))
    BY <1>2
  <2>. QED
    BY <2>1, Zenon
<1>4. \A i \in 1..(m + n) : \/ i \in 1..m /\ u[i] = s[i]
                            \/ \E j \in 1..n : i = m + j /\ u[i] = t[j]
  BY ONLY <1>2, <1>3, Zenon
<1>5. \A i \in 1..m : i \in 1..(m + n)
  BY <1>2
<1>6. \A i \in 1..n : m + i \in 1..(m + n)
  BY <1>2
<1>7. /\ \A x : x \in Entries(s) <=> \E i \in 1..m : s[i] = x
      /\ \A x : x \in Entries(t) <=> \E i \in 1..n : t[i] = x
      /\ \A x : x \in Entries(u) <=> \E i \in 1..(m + n) : u[i] = x
  <2>1. m = Len(s) /\ n = Len(t) /\ Len(u) = m + n
    BY <1>1, <1>2, Zenon
  <2>. QED
    BY ONLY <2>1, Zenon DEF Entries
<1>8. \A x : x \in Entries(u) => x \in Entries(s) \/ x \in Entries(t)
  BY ONLY <1>7, <1>4, Zenon
<1>9. \A x : x \in Entries(s) \/ x \in Entries(t) => x \in Entries(u)
  BY ONLY <1>7, <1>2, <1>5, <1>6
<1>10. ASSUME \A i, j \in 1..m : s[i] = s[j] => i = j,
             \A i, j \in 1..n : t[i] = t[j] => i = j,
             Entries(s) \cap Entries(t) = {},
             NEW i \in 1..(m + n), NEW j \in 1..(m + n), u[i] = u[j]
      PROVE  i = j
  <2>1. \A a \in 1..m, b \in 1..n : s[a] # t[b]
    BY ONLY <1>7, <1>10, Zenon
  <2>2. CASE i \in 1..m /\ j \in 1..m
    BY <1>2, <1>10, <2>2, Zenon
  <2>3. CASE i \in 1..m /\ j \notin 1..m
    BY ONLY <1>10, <1>4, <2>1, <2>3
  <2>4. CASE i \notin 1..m /\ j \in 1..m
    BY ONLY <1>10, <1>4, <2>1, <2>4
  <2>5. CASE i \notin 1..m /\ j \notin 1..m
    <3>1. PICK a \in 1..n : i = m + a
      BY <1>3, <2>5, Zenon
    <3>2. PICK b \in 1..n : j = m + b
      BY <1>3, <2>5, Zenon
    <3>3. t[a] = t[b]
      BY <1>2, <1>10, <3>1, <3>2, Zenon
    <3>. QED
      BY <1>10, <3>1, <3>2, <3>3, Zenon
  <2>. QED
    BY <2>2, <2>3, <2>4, <2>5, Zenon
<1>. QED
  BY <1>1, <1>2, <1>8, <1>9, <1>10, Zenon

\* The families after the end of p.
LEMMA EndedFamilies ==
    ASSUME NEW q, Typed(q), Families(q), NEW p \in q.pcbs, p # INIT,
           NEW r, Ended(q, r, p, q.parent[p])
    PROVE  Families(r)
<1>0. /\ p \in Pids /\ p \in Nat /\ INIT \in Pids /\ INIT = 1
      /\ \A c \in Pids : c \in Nat /\ 1 <= c
  <2>1. q.pcbs \in SUBSET Pids
    BY Zenon DEF Typed
  <2>2. INIT = 1
    BY Zenon DEF INIT
  <2>3. \A c \in Pids : c \in Nat /\ 1 <= c
    BY ONLY TaskNumbers
  <2>. QED
    BY <2>1, <2>2, <2>3, TaskNumbers, Zenon
<1>1. /\ r.next_tid = q.next_tid /\ r.reaped = q.reaped
      /\ r.pstate = [q.pstate EXCEPT ![p] = "Exited"]
      /\ r.pcbs = q.pcbs \ {p}
  BY Zenon DEF Ended, Except, Fields
<1>2. r.parent = [c \in Pids |-> IF c \in Entries(q.children[p]) THEN INIT ELSE q.parent[c]]
  BY Zenon DEF Ended
<1>3. r.children = [x \in Pids |-> IF x = INIT THEN q.children[INIT] \o q.children[p]
                                   ELSE IF x = p THEN <<>> ELSE q.children[x]]
  BY Zenon DEF Ended
<1>4. /\ q.pstate \in [Pids -> {"None", "Running", "Exited", "Dead"}]
      /\ q.children \in [Pids -> Seq(Pids)]
      /\ q.children[INIT] \in Seq(Pids) /\ q.children[p] \in Seq(Pids)
      /\ q.next_tid \in Nat /\ q.pcbs \in SUBSET Pids
  <2>1. q.next_tid \in 2..(Last + 1)
    BY Zenon DEF Typed, Last
  <2>2. q.next_tid \in Nat
    BY ONLY <2>1, TaskNumbers
  <2>. QED
    BY <1>0, <2>2, Zenon DEF Typed
<1>5. /\ INIT \in q.pcbs
      /\ \A x \in q.pcbs : q.pstate[x] # "Exited"
      /\ \A x \in Pids : OwedIn(q, x) => q.reaped[x] = 0
      /\ \A x \in Pids : \A c \in Entries(q.children[x]) :
            q.parent[c] = x /\ x < c /\ c < q.next_tid
      /\ \A x \in Pids : \A i, j \in 1..Len(q.children[x]) :
            q.children[x][i] = q.children[x][j] => i = j
      /\ \A c \in Pids : OwedIn(q, c) /\ c # INIT =>
            q.parent[c] \in q.pcbs /\ c \in Entries(q.children[q.parent[c]])
  BY Zenon DEF Families
<1>6. \A x \in Pids : Entries(q.children[x]) \subseteq Pids
  BY TypedLists, Zenon
<1>7. \A x \in Pids : x # p => (OwedIn(r, x) <=> OwedIn(q, x))
  BY <1>1, <1>4, Zenon DEF OwedIn
<1>8. OwedIn(q, p) /\ r.pstate[p] = "Exited"
  BY <1>0, <1>1, <1>4, Zenon DEF OwedIn
<1>9. /\ r.children[INIT] = q.children[INIT] \o q.children[p]
      /\ r.children[p] = <<>>
      /\ \A x \in Pids \ {INIT, p} : r.children[x] = q.children[x]
  BY <1>0, <1>3, Zenon
<1>10. Entries(q.children[INIT]) \cap Entries(q.children[p]) = {}
  BY <1>0, <1>5
<1>11. \A c : c \in Entries(r.children[INIT])
              <=> c \in Entries(q.children[INIT]) \/ c \in Entries(q.children[p])
  BY <1>4, <1>9, Concat
<1>12. Entries(r.children[p]) = {}
  BY <1>9 DEF Entries
<1>13. \A c \in Pids : /\ c \in Entries(q.children[p]) => r.parent[c] = INIT
                       /\ c \notin Entries(q.children[p]) => r.parent[c] = q.parent[c]
  BY <1>2, Zenon
<1>14. INIT \in r.pcbs /\ \A x \in r.pcbs : r.pstate[x] # "Exited"
  BY <1>1, <1>4, <1>5, Zenon
<1>15. \A x \in Pids : OwedIn(r, x) => r.reaped[x] = 0
  BY <1>1, <1>5, <1>7, <1>8, Zenon
<1>16. ASSUME NEW x \in Pids, NEW c \in Entries(r.children[x])
       PROVE  r.parent[c] = x /\ x < c /\ c < r.next_tid
  <2>1. CASE x = INIT
    <3>1. c \in Pids /\ (c \in Entries(q.children[INIT]) \/ c \in Entries(q.children[p]))
      BY <1>0, <1>6, <1>11, <1>16, <2>1, Zenon
    <3>2. c \in Nat /\ c < q.next_tid /\ 1 < c
      BY <1>0, <1>4, <1>5, <3>1
    <3>3. r.parent[c] = INIT
      BY <1>0, <1>5, <1>13, <3>1, Zenon
    <3>. QED
      BY <1>0, <1>1, <2>1, <3>2, <3>3, Zenon
  <2>2. CASE x = p
    BY <1>12, <1>16, <2>2, Zenon
  <2>3. CASE x \notin {INIT, p}
    <3>1. c \in Entries(q.children[x]) /\ c \in Pids
      BY <1>6, <1>9, <1>16, <2>3, Zenon
    <3>2. q.parent[c] = x /\ c \notin Entries(q.children[p])
      BY <1>0, <1>5, <2>3, <3>1, Zenon
    <3>. QED
      BY <1>1, <1>5, <1>13, <3>1, <3>2, Zenon
  <2>. QED
    BY <2>1, <2>2, <2>3, Zenon
<1>17. ASSUME NEW x \in Pids
       PROVE  \A i, j \in 1..Len(r.children[x]) : r.children[x][i] = r.children[x][j] => i = j
  <2>1. CASE x = INIT
    <3>1. /\ \A i, j \in 1..Len(q.children[INIT]) :
                q.children[INIT][i] = q.children[INIT][j] => i = j
          /\ \A i, j \in 1..Len(q.children[p]) : q.children[p][i] = q.children[p][j] => i = j
      BY <1>0, <1>5, Zenon
    <3>2. \A i, j \in 1..Len(q.children[INIT] \o q.children[p]) :
             (q.children[INIT] \o q.children[p])[i] = (q.children[INIT] \o q.children[p])[j]
             => i = j
      BY <1>4, <1>10, <3>1, Concat, Zenon
    <3>. QED
      BY <1>9, <2>1, <3>2, Zenon
  <2>2. CASE x = p
    BY <1>9, <2>2
  <2>3. CASE x \notin {INIT, p}
    BY <1>5, <1>9, <2>3, Zenon
  <2>. QED
    BY <2>1, <2>2, <2>3, Zenon
<1>18. ASSUME NEW c \in Pids, OwedIn(r, c), c # INIT
       PROVE  r.parent[c] \in r.pcbs /\ c \in Entries(r.children[r.parent[c]])
  <2>1. q.parent[c] \in q.pcbs /\ c \in Entries(q.children[q.parent[c]])
    BY <1>5, <1>7, <1>8, <1>18, Zenon
  <2>2. CASE c \in Entries(q.children[p])
    BY <1>11, <1>13, <1>14, <2>2, Zenon
  <2>3. CASE c \notin Entries(q.children[p])
    <3>1. q.parent[c] # p /\ r.parent[c] = q.parent[c]
      BY <1>13, <2>1, <2>3, Zenon
    <3>2. c \in Entries(r.children[q.parent[c]])
      BY <1>4, <1>9, <1>11, <2>1, <3>1, Zenon
    <3>. QED
      BY <1>1, <2>1, <3>1, <3>2, Zenon
  <2>. QED
    BY <2>2, <2>3, Zenon
<1>. QED
  BY <1>14, <1>15, <1>16, <1>17, <1>18, Zenon DEF Families

\* The sleepers after the end of p: a task alone in wait_any_child is woken by the
\* exit of its child, and finds it.
LEMMA EndedSleepers ==
    ASSUME NEW q, NEW run, Sound(q, run), q.fate = "up", NEW p \in q.pcbs, p # INIT,
           NEW r, Ended(q, r, p, q.parent[p])
    PROVE  Fresh(r) /\ Threads(r) /\ Sleeping(r) /\ Waiting(r)
<1>0. /\ Typed(q) /\ Queueing(q) /\ Fresh(q) /\ Families(q) /\ Threads(q) /\ Sleeping(q)
      /\ Waiting(q) /\ p \in Pids /\ INIT \in Pids
  BY TaskNumbers, Zenon DEF Sound, Typed
<1>1. PICK par : par = q.parent[p]
  OBVIOUS
<1>2. /\ r.next_tid = q.next_tid /\ r.reaped = q.reaped /\ r.tid = q.tid /\ r.proc = q.proc
      /\ r.pc = q.pc /\ r.vfork = q.vfork
      /\ r.pstate = [q.pstate EXCEPT ![p] = "Exited"]
      /\ r.pcbs = q.pcbs \ {p}
      /\ r.tasks = [q.tasks EXCEPT ![p] = <<>>]
      /\ r.waiting_task = [q.waiting_task EXCEPT ![par] = <<>>]
  BY <1>1 DEF Ended, Except, Fields
<1>3. /\ \A t \in Tasks : t \in Entries(q.tasks[p]) => r.state[t] = "Exited"
      /\ \A t \in Tasks : t \notin Entries(q.tasks[p]) =>
            \/ /\ r.state[t] = q.state[t] /\ r.event[t] = q.event[t]
               /\ q.state[t] # "Blocked" \/ t \notin Entries(q.waiting_task[par])
            \/ /\ q.state[t] = "Blocked" /\ r.state[t] = "Ready"
               /\ \/ r.event[t] = Ev("Signal", 0)
                  \/ t \in Entries(q.waiting_task[par]) /\ r.event[t] = Ev("Process", p)
  BY <1>1, Zenon DEF Ended
<1>4. /\ q.tasks \in [Pids -> Seq(Tasks)] /\ q.waiting_task \in [Pids -> Seq(Tasks)]
      /\ q.pstate \in [Pids -> {"None", "Running", "Exited", "Dead"}]
      /\ q.proc \in [Tasks -> Pids] /\ par \in Pids
  BY <1>0, <1>1, Zenon DEF Typed
<1>5. /\ r.tasks[p] = <<>> /\ r.waiting_task[par] = <<>> /\ r.pstate[p] = "Exited"
      /\ \A x \in Pids : x # p => r.tasks[x] = q.tasks[x] /\ r.pstate[x] = q.pstate[x]
      /\ \A x \in Pids : x # par => r.waiting_task[x] = q.waiting_task[x]
  BY <1>0, <1>2, <1>4
<1>6. \A t \in Tasks : t \in Entries(q.tasks[p]) => q.proc[t] = p /\ q.state[t] # "None"
  BY <1>0 DEF Threads
<1>7. \A t \in Tasks : Alive(r, t) => Alive(q, t) /\ t \notin Entries(q.tasks[p])
  BY <1>3, Zenon DEF Alive
<1>8. \A t \in Tasks : Alive(r, t) => q.proc[t] # p
  BY <1>0, <1>7, Zenon DEF Threads
<1>9. \A t \in Tasks : r.state[t] = "None" => q.state[t] = "None"
  BY <1>3, Zenon
<1>10. \A t \in Tasks : q.state[t] # "None" => r.state[t] # "None"
  BY <1>3, Zenon
<1>11. Entries(<<>>) = {}
  BY DEF Entries
<1>12. \A c \in Pids : /\ c \in Entries(q.children[p]) => r.parent[c] = INIT
                       /\ c \notin Entries(q.children[p]) => r.parent[c] = q.parent[c]
  BY DEF Ended
<1>13. \A x \in Pids \ {INIT, p} : r.children[x] = q.children[x]
  BY Zenon DEF Ended
<1>14. p < q.next_tid /\ INIT < q.next_tid
  <2>1. q.next_tid \in 2..(Last + 1) /\ INIT \in q.pcbs /\ \A x \in q.pcbs : x \in Pids
    BY <1>0, Zenon DEF Typed, Last, Families
  <2>2. q.next_tid \in Nat /\ \A x \in Pids : x \in Nat
    BY ONLY <2>1, TaskNumbers
  <2>3. \A x \in Pids : x \in q.pcbs => ~(q.next_tid <= x)
    BY <1>0, Zenon DEF Fresh
  <2>. QED
    BY <1>0, <2>1, <2>2, <2>3
<1>15. Fresh(r)
  <2>1. \A x \in Pids : q.next_tid <= x => x # p /\ x # INIT /\ x \in Nat
    <3>1. \A x \in Pids : x \in Nat
      BY ONLY TaskNumbers, Zenon
    <3>2. q.next_tid \in 2..(Last + 1)
      BY <1>0, Zenon DEF Typed, Last
    <3>3. q.next_tid \in Nat
      BY ONLY <3>2, TaskNumbers
    <3>. QED
      BY <1>0, <1>14, <3>1, <3>3
  <2>2. ASSUME NEW x \in Pids, q.next_tid <= x
        PROVE  /\ x \notin r.pcbs /\ r.pstate[x] = "None" /\ r.reaped[x] = 0
               /\ r.children[x] = <<>> /\ r.tasks[x] = <<>> /\ r.waiting_task[x] = <<>>
    <3>1. /\ x \notin q.pcbs /\ q.pstate[x] = "None" /\ q.reaped[x] = 0
          /\ q.children[x] = <<>> /\ q.tasks[x] = <<>> /\ q.waiting_task[x] = <<>>
      BY <1>0, <2>2, Zenon DEF Fresh
    <3>2. x # p /\ x # INIT
      BY <2>1, <2>2, Zenon
    <3>3. r.waiting_task[x] = <<>>
      BY <1>5, <3>1, Zenon
    <3>. QED
      BY <1>2, <1>5, <1>13, <3>1, <3>2, <3>3, Zenon
  <2>. QED
    BY <1>0, <1>2, <1>9, <2>2, SMTT(30) DEF Fresh
<1>16. Threads(r)
  <2>1. ASSUME NEW t \in Tasks, Alive(r, t)
        PROVE  r.proc[t] \in r.pcbs /\ t \in Entries(r.tasks[r.proc[t]])
    <3>1. q.proc[t] \in q.pcbs /\ t \in Entries(q.tasks[q.proc[t]]) /\ q.proc[t] # p
      BY <1>0, <1>7, <1>8, <2>1, Zenon DEF Threads
    <3>. QED
      BY <1>2, <1>4, <1>5, <3>1
  <2>2. ASSUME NEW x \in Pids, NEW t \in Entries(r.tasks[x]) \cup Entries(r.waiting_task[x])
        PROVE  r.proc[t] = x /\ r.state[t] # "None"
    <3>1. t \in Entries(q.tasks[x]) \cup Entries(q.waiting_task[x])
      BY <1>5, <1>11, <2>2, Zenon
    <3>2. t \in Tasks
      BY <1>0, <3>1, TypedLists, Zenon
    <3>. QED
      BY <1>0, <1>2, <1>10, <3>1, <3>2 DEF Threads
  <2>. QED
    BY <2>1, <2>2, Zenon DEF Threads
<1>17. Sleeping(r)
  <2>. SUFFICES ASSUME NEW t \in Tasks
       PROVE  /\ r.state[t] = "Blocked" => r.pc[t].at \in {"wait_child", "wait_any"}
              /\ r.state[t] = "BlockedUninterruptible" => r.pc[t].at = "vfork"
              /\ r.state[t] = "Ready" /\ r.pc[t].at = "vfork" => r.event[t] = Ev("VFork", 0)
              /\ r.state[t] = "Ready" /\ r.pc[t].at \in {"wait_child", "wait_any"} =>
                    \/ r.event[t] = Ev("Signal", 0)
                    \/ \E c \in Pids : r.event[t] = Ev("Process", c)
              /\ Alive(r, t) /\ r.pc[t].at = "wait_child" =>
                    r.pc[t].arg < r.next_tid /\ r.parent[r.pc[t].arg] = r.proc[t]
    BY Zenon DEF Sleeping
  <2>1. /\ q.state[t] = "Blocked" => q.pc[t].at \in {"wait_child", "wait_any"}
        /\ q.state[t] = "BlockedUninterruptible" => q.pc[t].at = "vfork"
        /\ q.state[t] = "Ready" /\ q.pc[t].at = "vfork" => q.event[t] = Ev("VFork", 0)
        /\ q.state[t] = "Ready" /\ q.pc[t].at \in {"wait_child", "wait_any"} =>
              \/ q.event[t] = Ev("Signal", 0)
              \/ \E c \in Pids : q.event[t] = Ev("Process", c)
        /\ Alive(q, t) /\ q.pc[t].at = "wait_child" =>
              q.pc[t].arg < q.next_tid /\ q.parent[q.pc[t].arg] = q.proc[t]
    BY <1>0, Zenon DEF Sleeping
  <2>2. CASE ~Alive(r, t)
    BY <2>2, Zenon DEF Alive
  <2>3. CASE Alive(r, t)
    <3>1. /\ r.pc = q.pc /\ r.next_tid = q.next_tid /\ r.proc = q.proc
          /\ \/ r.state[t] = q.state[t] /\ r.event[t] = q.event[t]
             \/ /\ q.state[t] = "Blocked" /\ r.state[t] = "Ready"
                /\ r.event[t] = Ev("Signal", 0) \/ r.event[t] = Ev("Process", p)
      BY <1>2, <1>3, <1>7, <2>3, Zenon
    <3>2. q.pc[t].at = "wait_child" => r.parent[q.pc[t].arg] = q.proc[t]
      <4>1. SUFFICES ASSUME q.pc[t].at = "wait_child"
                     PROVE  r.parent[q.pc[t].arg] = q.proc[t]
        OBVIOUS
      <4>2. q.pc[t] \in Places
        BY <1>0, Zenon DEF Typed
      <4>3. q.pc[t].arg \in Pids
        BY <4>1, <4>2 DEF Places, User, At
      <4>4. q.parent[q.pc[t].arg] = q.proc[t] /\ q.proc[t] # p
        BY <1>7, <1>8, <2>1, <2>3, <4>1, Zenon
      <4>5. q.pc[t].arg \notin Entries(q.children[p])
        BY <1>0, <4>4, Zenon DEF Families
      <4>. QED
        BY <1>12, <4>3, <4>4, <4>5, Zenon
    <3>. QED
      BY <1>0, <1>7, <2>1, <2>3, <3>1, <3>2, Zenon
  <2>. QED
    BY <2>2, <2>3, Zenon
<1>18. Waiting(r)
  <2>. SUFFICES ASSUME NEW t \in Tasks, AloneAt(r, t)
       PROVE  /\ r.state[t] = "Blocked" =>
                    /\ t \in Entries(r.waiting_task[r.proc[t]])
                    /\ \A c \in Entries(r.children[r.proc[t]]) : r.pstate[c] # "Exited"
              /\ r.state[t] = "Ready" => \A c \in Pids : r.event[t] = Ev("Process", c) =>
                    c \in Entries(r.children[r.proc[t]]) /\ r.pstate[c] = "Exited"
    BY Zenon DEF Waiting
  <2>1. PICK x : x = q.proc[t]
    OBVIOUS
  <2>2. x \in Pids /\ x # p /\ x # INIT /\ r.proc[t] = x
    BY <1>2, <1>4, <1>5, <2>1 DEF AloneAt
  <2>3. AloneAt(q, t) /\ r.children[x] = q.children[x] /\ t \notin Entries(q.tasks[p])
    BY <1>2, <1>5, <1>6, <1>13, <2>1, <2>2 DEF AloneAt
  <2>4. /\ q.state[t] = "Blocked" =>
              /\ t \in Entries(q.waiting_task[x])
              /\ \A c \in Entries(q.children[x]) : q.pstate[c] # "Exited"
        /\ q.state[t] = "Ready" => \A c \in Pids : q.event[t] = Ev("Process", c) =>
              c \in Entries(q.children[x]) /\ q.pstate[c] = "Exited"
    BY <1>0, <2>1, <2>3 DEF Waiting
  <2>5. ASSUME r.state[t] = "Blocked"
        PROVE  /\ t \in Entries(r.waiting_task[x])
               /\ \A c \in Entries(r.children[x]) : r.pstate[c] # "Exited"
    <3>1. q.state[t] = "Blocked" /\ t \notin Entries(q.waiting_task[par])
      BY <1>3, <2>3, <2>5, Zenon
    <3>2. x # par /\ t \in Entries(r.waiting_task[x])
      BY <1>5, <2>2, <2>4, <3>1, Zenon
    <3>3. \A c \in Entries(q.children[x]) : c \in Pids /\ c # p
      BY <1>0, <1>1, <2>2, <3>2, TypedLists, SMTT(30) DEF Families
    <3>. QED
      BY <1>5, <2>3, <2>4, <3>1, <3>2, <3>3, Zenon
  <2>6. ASSUME r.state[t] = "Ready", NEW c \in Pids, r.event[t] = Ev("Process", c)
        PROVE  c \in Entries(r.children[x]) /\ r.pstate[c] = "Exited"
    <3>1. CASE q.state[t] = "Ready" /\ q.event[t] = Ev("Process", c)
      BY <1>5, <2>3, <2>4, <3>1, Zenon
    <3>2. CASE t \in Entries(q.waiting_task[par]) /\ Ev("Process", p) = Ev("Process", c)
      <4>1. x = par /\ c = p
        BY <1>0, <1>4, <2>1, <3>2, Zenon DEF Threads, Ev
      <4>2. p \in Entries(q.children[par])
        BY <1>0, <1>1 DEF Families, OwedIn
      <4>. QED
        BY <1>5, <2>3, <4>1, <4>2, Zenon
    <3>3. Ev("Signal", 0) # Ev("Process", c)
      BY Zenon DEF Ev
    <3>. QED
      BY <1>3, <2>3, <2>6, <3>1, <3>2, <3>3, Zenon
  <2>. QED
    BY <2>2, <2>5, <2>6, Zenon
<1>. QED
  BY <1>15, <1>16, <1>17, <1>18, Zenon

\* PCB::exit by, or on the behalf of, the thread run of the process p.
LEMMA ExitSound ==
    ASSUME NEW q, NEW run \in Tasks, Sound(q, run), q.fate = "up", NEW p \in q.pcbs,
           run \in Entries(q.tasks[p]), NEW r, r = PCB_exit(q, p)
    PROVE  /\ Sound(r, run) /\ r.state[run] = "Exited"
           /\ r.vfork = q.vfork /\ r.tid = q.tid /\ r.load = q.load
<1>0. /\ Typed(q) /\ Queueing(q) /\ Fresh(q) /\ Families(q) /\ Threads(q) /\ Peaceful(q)
      /\ VForked(q, run) /\ p \in Pids
  BY Zenon DEF Sound, Typed
<1>1. CASE p # INIT
  <2>1. Ended(q, r, p, q.parent[p])
    BY <1>0, <1>1, ExitEnds, Zenon
  <2>2. Typed(r) /\ Queueing(r) /\ Families(r)
    <3>1. Typed(r) /\ Queueing(r)
      BY <2>1, Zenon DEF Ended
    <3>. QED
      BY <1>0, <1>1, <2>1, <3>1, EndedFamilies, Zenon
  <2>3. Fresh(r) /\ Threads(r) /\ Sleeping(r) /\ Waiting(r)
    BY <1>1, <2>1, EndedSleepers, Zenon
  <2>4. /\ r.load = q.load /\ r.vfork = q.vfork /\ r.fate = q.fate /\ r.tid = q.tid
        /\ r.tasks = [q.tasks EXCEPT ![p] = <<>>]
    BY <2>1, ZenonT(30) DEF Ended, Except, Fields
  <2>5. Peaceful(r)
    <3>1. SignalsFrom(q, r, {Signal("CHLD", 0)})
      BY <2>1, Zenon DEF Ended
    <3>2. \A s \in {Signal("CHLD", 0)} : s.num = "CHLD"
      BY DEF Signal
    <3>3. \A x \in Pids : Len(r.tasks[x]) <= 1 \/ Len(r.tasks[x]) = Len(q.tasks[x])
      <4>1. q.tasks \in [Pids -> Seq(Tasks)]
        BY <1>0, Zenon DEF Typed
      <4>2. \A x \in Pids : r.tasks[x] = <<>> \/ r.tasks[x] = q.tasks[x]
        BY <2>4, <4>1, Zenon
      <4>3. Len(<<>>) <= 1
        OBVIOUS
      <4>. QED
        BY ONLY <4>2, <4>3, Zenon
    <3>. QED
      BY <1>0, <2>4, <3>1, <3>2, <3>3, PeacefulSignals, ZenonT(30)
  <2>6. VForked(r, run)
    <3>. SUFFICES ASSUME Quiet(r), NEW t \in Tasks, r.state[t] = "BlockedUninterruptible"
                  PROVE  \E c \in Tasks : r.vfork[c] = t /\ (Alive(r, c) \/ c = run)
      BY Zenon DEF VForked
    <3>1. Quiet(q)
      BY <2>4, Zenon DEF Quiet
    <3>2. q.state[t] = "BlockedUninterruptible"
      BY <2>1, Zenon DEF Ended
    <3>3. PICK c \in Tasks : q.vfork[c] = t /\ (Alive(q, c) \/ c = run)
      BY <1>0, <3>1, <3>2, Zenon DEF VForked
    <3>4. c \in Entries(q.tasks[p]) => c = run
      <4>1. q.tasks[p] \in Seq(Tasks) /\ Len(q.tasks[p]) <= 1
        BY <1>0, <3>1, Zenon DEF Typed, Peaceful
      <4>. QED
        BY <4>1 DEF Entries
    <3>5. c \notin Entries(q.tasks[p]) => (Alive(q, c) => Alive(r, c))
      BY <2>1, Zenon DEF Ended, Alive
    <3>. QED
      BY <2>4, <3>3, <3>4, <3>5, Zenon
  <2>7. r.state[run] = "Exited"
    BY <2>1, Zenon DEF Ended
  <2>. QED
    BY <2>2, <2>3, <2>4, <2>5, <2>6, <2>7, Zenon DEF Sound
<1>2. CASE p = INIT
  <2>1. PICK d : d = Dead(q, p)
    OBVIOUS
  <2>2. Died(q, d, p)
    BY <1>0, <2>1, Dies, Zenon
  <2>3. Typed(d) /\ Queueing(d) /\ IsKernel(d)
    BY <2>2, Zenon DEF Died, Typed
  <2>4. r = [d EXCEPT !.fate = "halted"]
    BY <1>2, <2>1, Zenon DEF PCB_exit, Dead
  <2>5. Except(d, r, {"fate"}) /\ r.fate = "halted"
    BY <2>3, <2>4, Zenon DEF Except, IsKernel, Fields
  <2>6. Typed(r)
    BY <2>3, <2>5, TypedExcept, Zenon
  <2>7. Queueing(r)
    BY <2>3, <2>5, Frames, SMTT(30)
  <2>8. Fresh(d)
    <3>1. /\ d.tid = q.tid /\ d.proc = q.proc /\ d.next_tid = q.next_tid /\ d.pc = q.pc
          /\ d.vfork = q.vfork /\ d.pcbs = q.pcbs /\ d.reaped = q.reaped
          /\ d.children = q.children /\ d.waiting_task = q.waiting_task
      BY <2>2, Zenon DEF Died, Except, Fields
    <3>2. \A t \in Tasks : d.state[t] = "None" => q.state[t] = "None"
      BY <2>2, Zenon DEF Died
    <3>3. \A x \in Pids : q.next_tid <= x => x # p
      BY <1>0, Zenon DEF Fresh
    <3>4. \A x \in Pids : x # p => d.tasks[x] = q.tasks[x] /\ d.pstate[x] = q.pstate[x]
      <4>1. /\ q.tasks \in [Pids -> Seq(Tasks)]
            /\ q.pstate \in [Pids -> {"None", "Running", "Exited", "Dead"}]
        BY <1>0, Zenon DEF Typed
      <4>2. /\ d.tasks = [q.tasks EXCEPT ![p] = <<>>]
            /\ d.pstate = [q.pstate EXCEPT ![p] = "Exited"]
        BY <2>2, Zenon DEF Died
      <4>. QED
        BY <4>1, <4>2, Zenon
    <3>. QED
      BY <1>0, <3>1, <3>2, <3>3, <3>4 DEF Fresh
  <2>9. Fresh(r)
    BY <2>5, <2>8, Frames
  <2>10. d.state[run] = "Exited" /\ d.vfork = q.vfork /\ d.tid = q.tid /\ d.load = q.load
    BY <2>2, Zenon DEF Died, Except, Fields
  <2>11. r.state = d.state /\ r.vfork = d.vfork /\ r.tid = d.tid /\ r.load = d.load
    BY <2>5, Zenon DEF Except, Fields
  <2>. QED
    BY <2>5, <2>6, <2>7, <2>9, <2>10, <2>11, Zenon DEF Sound
<1>. QED
  BY <1>1, <1>2, Zenon

\* The way to user mode: TCB::handle_signal ends the process or lets t go on.
LEMMA HandleSound ==
    ASSUME NEW q, Sound(q, NoTask), q.fate = "up", NEW t \in Tasks, q.state[t] = "Running",
           NEW r, r = handle_signal(q, t)
    PROVE  /\ Sound(r, NoTask)
           /\ \/ Except(q, r, {"pending_signal", "frames", "signal_mask"})
              \/ r.state[t] = "Exited"
<1>0. /\ Typed(q) /\ Queueing(q) /\ Threads(q) /\ Peaceful(q) /\ IsKernel(q)
      /\ q.pending_signal \in [Tasks -> Sigs \cup {NoSignal}]
  BY Zenon DEF Sound, Typed
<1>1. PICK s, p, u : /\ s = q.pending_signal[t] /\ p = q.proc[t]
                     /\ u = [q EXCEPT !.pending_signal[t] = NoSignal]
  BY Zenon
<1>. DEFINE fatal == \/ is_unignorable(s.num)
                     \/ /\ q.action[p][s.num] = "DFL"
                        /\ default_action(s.num) \in {"Term", "Stop", "Core"}
<1>2. \/ r = q
      \/ s # NoSignal /\ fatal /\ r = PCB_exit(u, p)
      \/ r = [u EXCEPT !.frames[t] = Append(@, q.signal_mask[t]),
                       !.signal_mask[t] = @ \cup {s.num}]
      \/ r = u
  BY <1>1, Zenon DEF handle_signal
<1>3. /\ u = [q EXCEPT !.pending_signal = [q.pending_signal EXCEPT ![t] = NoSignal]]
  BY <1>0, <1>1, Zenon DEF IsKernel, Fields
<1>4. /\ Except(q, u, {"pending_signal"}) /\ IsKernel(u)
      /\ u.pending_signal = [q.pending_signal EXCEPT ![t] = NoSignal]
      /\ u.state = q.state /\ u.event = q.event /\ u.pending = q.pending /\ u.proc = q.proc
      /\ u.tasks = q.tasks /\ u.pcbs = q.pcbs /\ u.fate = q.fate /\ u.load = q.load
  BY <1>0, <1>3, Zenon DEF Except, IsKernel, Fields
<1>5. Typed(u)
  <2>1. u.pending_signal \in [Tasks -> Sigs \cup {NoSignal}]
    BY <1>0, <1>4, Zenon
  <2>. QED
    BY <1>0, <1>4, <2>1, TypedExcept, Zenon
<1>6. Roused(q, u) /\ SignalsFrom(q, u, {})
  BY <1>0, <1>4, Zenon DEF Roused, SignalsFrom
<1>7. ASSUME NEW v, Except(u, v, {"frames", "signal_mask"})
      PROVE  Sound(v, NoTask) /\ Except(q, v, {"pending_signal", "frames", "signal_mask"})
  <2>1. Except(q, v, {"pending_signal", "frames", "signal_mask"})
    BY <1>4, <1>7, ExceptTwice
  <2>2. Except(q, v, {"state", "event", "queue", "pending_signal", "pending", "frames",
                      "signal_mask", "kills"})
    BY <2>1, Zenon DEF Except
  <2>3. Typed(v)
    BY <1>5, <1>7, TypedExcept, Zenon
  <2>4. Queueing(v)
    BY <1>0, <2>1, Frames
  <2>5. /\ v.state = u.state /\ v.event = u.event /\ v.pending = u.pending
        /\ v.pending_signal = u.pending_signal
    BY <1>7, Zenon DEF Except, Fields
  <2>6. Roused(q, v) /\ SignalsFrom(q, v, {})
    BY <1>6, <2>5 DEF Roused, SignalsFrom
  <2>7. Stirred(q, v, {})
    BY <2>2, <2>3, <2>4, <2>6, Zenon DEF Stirred
  <2>. QED
    BY <2>1, <2>7, StirredSound, Zenon
<1>8. CASE r = q
  <2>1. Except(q, q, {"pending_signal", "frames", "signal_mask"})
    BY <1>0, Zenon DEF Except
  <2>. QED
    BY <1>8, <2>1, Zenon
<1>9. CASE r = u
  <2>1. Except(u, u, {"frames", "signal_mask"})
    BY <1>4, Zenon DEF Except
  <2>. QED
    BY <1>7, <1>9, <2>1, Zenon
<1>10. CASE r = [u EXCEPT !.frames[t] = Append(@, q.signal_mask[t]),
                          !.signal_mask[t] = @ \cup {s.num}]
  <2>1. Except(u, r, {"frames", "signal_mask"})
    BY <1>4, <1>10, Zenon DEF Except, IsKernel, Fields
  <2>. QED
    BY <1>7, <2>1, Zenon
<1>11. CASE s # NoSignal /\ fatal /\ r = PCB_exit(u, p)
  <2>1. Sound(u, NoTask)
    <3>1. Except(u, u, {"frames", "signal_mask"})
      BY <1>4, Zenon DEF Except
    <3>. QED
      BY <1>7, <3>1, Zenon
  <2>2. Sound(u, t)
    BY <2>1, RunWeakens, Zenon
  <2>3. p \in u.pcbs /\ t \in Entries(u.tasks[p])
    BY <1>0, <1>1, <1>4, Zenon DEF Threads, Alive
  <2>4. Sound(r, t) /\ r.state[t] = "Exited" /\ r.load = q.load
    BY <1>4, <1>11, <2>2, <2>3, ExitSound
  <2>5. ~Quiet(q)
    <3>1. SUFFICES ASSUME Quiet(q) PROVE FALSE
      OBVIOUS
    <3>2. s.num = "CHLD"
      BY <1>0, <1>1, <1>11, <3>1, Zenon DEF Peaceful
    <3>3. default_action("CHLD") = "Ign" /\ ~is_unignorable("CHLD")
      BY Zenon DEF default_action, is_unignorable
    <3>. QED
      BY <1>11, <3>2, <3>3, Zenon
  <2>6. ~Quiet(r)
    BY <2>4, <2>5, Zenon DEF Quiet
  <2>. QED
    BY <2>4, <2>6, Zenon DEF Sound, VForked
<1>. QED
  BY <1>2, <1>8, <1>9, <1>10, <1>11, Zenon

\* A task that enters a system call runs in a kernel where only its own state
\* and the signals changed; or a signal ended its process.
Inside(q, me, r) ==
    /\ Except(q, r, {"state", "queue", "pending_signal", "pending", "frames",
                     "signal_mask"})
    /\ r.state = [q.state EXCEPT ![me] = "Running"]

LEMMA Entering ==
    ASSUME IInv, CanRun
    PROVE  /\ Sound(Entered, NoTask)
           /\ Inside(k, Me, Entered) \/ Entered.state[Me] = "Exited"
<1>1. PICK me, f : me = Me /\ f = Fetched
  OBVIOUS
<1>2. /\ me \in Tasks /\ k.state[me] = "Ready" /\ k.fate = "up"
      /\ Except(k, f, {"state", "queue"})
      /\ f.state = [k.state EXCEPT ![me] = "Running"]
      /\ Sound(f, NoTask)
  BY <1>1, FetchSound, Zenon
<1>3. k.state \in [Tasks -> TaskState] /\ f.fate = "up"
  BY <1>2, Zenon DEF IInv, Sound, Typed, Except, Fields
<1>4. PICK u : u = recive_pending_signal_from_parent(f, f.proc[me], me)
  OBVIOUS
<1>5. Stirred(f, u, {}) /\ Except(f, u, {"pending_signal", "pending"})
  <2>1. Typed(f) /\ Queueing(f)
    BY <1>2, Zenon DEF Sound
  <2>. QED
    BY <1>2, <1>4, <2>1, Receive, Zenon
<1>6. Sound(u, NoTask)
  BY <1>2, <1>5, StirredSound, Zenon
<1>7. u.state = f.state /\ u.fate = f.fate
  BY <1>5, Zenon DEF Except, Fields
<1>8. PICK r : r = handle_signal(u, me)
  OBVIOUS
<1>9. r = Entered
  BY <1>1, <1>4, <1>8, Zenon DEF Entered, trap_return
<1>10. /\ Sound(r, NoTask)
       /\ \/ Except(u, r, {"pending_signal", "frames", "signal_mask"})
          \/ r.state[me] = "Exited"
  <2>1. u.state[me] = "Running" /\ u.fate = "up"
    BY <1>2, <1>3, <1>7, Zenon
  <2>. QED
    BY <1>2, <1>6, <1>8, <2>1, HandleSound, Zenon
<1>11. CASE Except(u, r, {"pending_signal", "frames", "signal_mask"})
  <2>1. r.state = u.state
    BY <1>11, Zenon DEF Except, Fields
  <2>2. Except(k, u, {"state", "queue", "pending_signal", "pending"})
    BY <1>2, <1>5, ExceptTwice
  <2>3. Except(k, r, {"state", "queue", "pending_signal", "pending", "frames",
                      "signal_mask"})
    BY <1>11, <2>2, ExceptTwice
  <2>4. Inside(k, me, r)
    BY <1>2, <1>7, <2>1, <2>3, Zenon DEF Inside
  <2>. QED
    BY <1>1, <1>9, <1>10, <2>4, Zenon
<1>12. CASE r.state[me] = "Exited"
  BY <1>1, <1>9, <1>10, <1>12, Zenon
<1>. QED
  BY <1>10, <1>11, <1>12, Zenon

\* What a system call starts from.
LEMMA UserCalls ==
    ASSUME IInv, CanRun, Entered.state[Me] = "Running"
    PROVE  /\ Me \in Tasks /\ Sound(Entered, NoTask) /\ Entered.fate = "up"
           /\ Inside(k, Me, Entered)
           /\ Entered.load = k.load /\ Entered.next_tid = k.next_tid
           /\ Entered.proc[Me] \in Pids
           /\ Entered.proc[Me] \in Entered.pcbs
           /\ Me \in Entries(Entered.tasks[Entered.proc[Me]])
<1>1. PICK me, r : me = Me /\ r = Entered
  OBVIOUS
<1>2. me \in Tasks /\ Sound(r, NoTask) /\ Inside(k, me, r) /\ k.fate = "up"
  BY <1>1, FetchSound, Entering, Zenon
<1>3. r.fate = k.fate /\ r.load = k.load /\ r.next_tid = k.next_tid
  BY <1>2, Zenon DEF Inside, Except, Fields
<1>4. Threads(r) /\ Typed(r)
  BY <1>2, <1>3, Zenon DEF Sound
<1>5. /\ r.proc[me] \in Pids /\ r.proc[me] \in r.pcbs /\ me \in Entries(r.tasks[r.proc[me]])
  BY <1>1, <1>2, <1>4, Zenon DEF Threads, Alive, Typed
<1>. QED
  BY <1>1, <1>2, <1>3, <1>5, Zenon

=============================================================================
