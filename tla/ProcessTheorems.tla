--------------------------- MODULE ProcessTheorems ---------------------------
(***************************************************************************)
(* The theorems about Process: every system call keeps the inductive       *)
(* invariant of ProcessProofs, which implies the properties of Process.    *)
(***************************************************************************)
EXTENDS ProcessCalls

-----------------------------------------------------------------------------
(* The caller of clone pushes the clone, or blocks until it is gone.        *)

\* push_task of a task that is ready and not queued.
Enqueued(q, r, c) == Except(q, r, {"queue"}) /\ r.queue = Append(q.queue, c)

LEMMA PushNew ==
    ASSUME NEW q, Sound(q, NoTask), NEW c \in Tasks, q.state[c] = "Ready",
           c \notin Entries(q.queue), NEW r, Enqueued(q, r, c)
    PROVE  Sound(r, NoTask)
<1>1. Except(q, r, {"queue"}) /\ r.queue = Append(q.queue, c)
  BY Zenon DEF Enqueued
<1>2. /\ q.queue \in Seq(Tasks) /\ Typed(q) /\ Queueing(q) /\ Fresh(q)
      /\ q.vfork \in [Tasks -> Tasks \cup {NoTask}] /\ q.tid \in [Tasks -> Nat]
  BY Zenon DEF Sound, Typed
<1>3. /\ r.queue \in Seq(Tasks) /\ Entries(r.queue) = Entries(q.queue) \cup {c}
      /\ Entries(q.queue) \subseteq Tasks
  BY <1>1, <1>2, PushEntries, EntriesIn
<1>4. Typed(r)
  BY <1>1, <1>2, <1>3, TypedExcept, Zenon
<1>5. /\ r.state = q.state /\ r.tid = q.tid /\ r.vfork = q.vfork /\ r.fate = q.fate
  BY <1>1, Zenon DEF Except, Fields
<1>6. Queueing(r)
  <2>1. Active(q, c) /\ \A u \in Entries(q.queue) : Active(q, u)
    BY Zenon DEF Active, Alive
  <2>2. \A u \in Entries(q.queue) : q.tid[u] # q.tid[c]
    BY <1>2, <1>3, <2>1, Zenon DEF Queueing
  <2>3. TidsDiffer(r.queue, r.tid)
    BY <1>1, <1>2, <1>5, <2>2, PushTids, Zenon DEF Queueing
  <2>4. \A t \in Entries(r.queue) : r.state[t] \in {"Ready", "Exited"}
    BY <1>2, <1>3, <1>5, Zenon DEF Queueing
  <2>5. \A d \in Tasks : r.vfork[d] # NoTask =>
          /\ r.state[r.vfork[d]] \in {"BlockedUninterruptible", "Exited"}
          /\ r.vfork[d] \notin Entries(r.queue)
    BY <1>2, <1>3, <1>5, Zenon DEF Queueing
  <2>6. \A t \in Tasks : Active(r, t) => Active(q, t)
    BY <1>3, <1>5, <2>1, Zenon DEF Active, Alive, Waits
  <2>. QED
    BY <1>2, <1>5, <2>3, <2>4, <2>5, <2>6 DEF Queueing
<1>7. Fresh(r)
  BY <1>1, <1>2, Frames
<1>8. q.fate = "up" => /\ Families(r) /\ Threads(r) /\ Sleeping(r) /\ Waiting(r)
                       /\ Peaceful(r) /\ VForked(r, NoTask)
  <2>1. SUFFICES ASSUME q.fate = "up"
                 PROVE  /\ Families(r) /\ Threads(r) /\ Sleeping(r) /\ Waiting(r)
                        /\ Peaceful(r) /\ VForked(r, NoTask)
    OBVIOUS
  <2>2. /\ Families(q) /\ Threads(q) /\ Sleeping(q) /\ Waiting(q)
        /\ Peaceful(q) /\ VForked(q, NoTask)
    BY <2>1, Zenon DEF Sound
  <2>. QED
    BY <1>1, <2>2, Frames
<1>. QED
  BY <1>4, <1>5, <1>6, <1>7, <1>8, Zenon DEF Sound

\* push_task, as a relation.
LEMMA Enqueues ==
    ASSUME NEW q, IsKernel(q), NEW c, NEW r, r = push_task(q, c)
    PROVE  Enqueued(q, r, c)
<1>1. r = [q EXCEPT !.queue = Append(q.queue, c)]
  BY Zenon DEF push_task, IsKernel, Fields
<1>. QED
  BY <1>1, Zenon DEF Enqueued, Except, IsKernel, Fields

\* The caller me waits for c in block_uninterruptible.
Awaits(q, r, me, c) ==
    /\ Except(q, r, {"vfork", "state", "pc"})
    /\ r.vfork = [q.vfork EXCEPT ![c] = me]
    /\ r.state = [q.state EXCEPT ![me] = "BlockedUninterruptible"]
    /\ r.pc = [q.pc EXCEPT ![me] = At("vfork", 0)]

LEMMA AwaitSound ==
    ASSUME NEW q, Sound(q, NoTask), q.fate = "up", NEW me \in Tasks, NEW c \in Tasks,
           c # me, q.state[me] = "Running", q.state[c] = "Ready", q.vfork[c] = NoTask,
           NEW r, Awaits(q, r, me, c)
    PROVE  Sound(r, NoTask)
<1>1. /\ Except(q, r, {"vfork", "state", "pc"})
      /\ r.vfork = [q.vfork EXCEPT ![c] = me]
      /\ r.state = [q.state EXCEPT ![me] = "BlockedUninterruptible"]
      /\ r.pc = [q.pc EXCEPT ![me] = At("vfork", 0)]
  BY Zenon DEF Awaits
<1>2. /\ Typed(q) /\ Queueing(q) /\ Fresh(q) /\ Families(q) /\ Threads(q) /\ Sleeping(q)
      /\ Waiting(q) /\ Peaceful(q) /\ VForked(q, NoTask)
  BY Zenon DEF Sound
<1>3. /\ q.vfork \in [Tasks -> Tasks \cup {NoTask}] /\ q.state \in [Tasks -> TaskState]
      /\ q.pc \in [Tasks -> Places] /\ Entries(q.queue) \subseteq Tasks
      /\ At("vfork", 0) \in Places
      /\ \A p \in Pids : Entries(q.tasks[p]) \cup Entries(q.waiting_task[p]) \subseteq Tasks
  BY <1>2, TypedLists, Zenon DEF Typed, Places
<1>4. /\ r.tid = q.tid /\ r.proc = q.proc /\ r.queue = q.queue
      /\ r.event = q.event /\ r.load = q.load /\ r.fate = q.fate
      /\ r.next_tid = q.next_tid /\ r.tasks = q.tasks /\ r.pcbs = q.pcbs
      /\ r.waiting_task = q.waiting_task /\ r.parent = q.parent /\ r.children = q.children
      /\ r.pstate = q.pstate /\ r.reaped = q.reaped
  BY <1>1, Zenon DEF Except, Fields
<1>5. /\ r.vfork[c] = me /\ \A d \in Tasks : d # c => r.vfork[d] = q.vfork[d]
  BY ONLY <1>1, <1>3, c \in Tasks, Zenon
<1>6. /\ r.state[me] = "BlockedUninterruptible" /\ r.pc[me].at = "vfork"
      /\ \A t \in Tasks : t # me => r.state[t] = q.state[t] /\ r.pc[t] = q.pc[t]
  BY ONLY <1>1, <1>3, me \in Tasks DEF At
<1>7. /\ \A t \in Tasks : Alive(r, t) <=> Alive(q, t)
      /\ Alive(q, me) /\ Alive(q, c)
  BY <1>6, Zenon DEF Alive
<1>8. Typed(r)
  <2>1. r.vfork \in [Tasks -> Tasks \cup {NoTask}]
    BY ONLY <1>1, <1>3, c \in Tasks, me \in Tasks
  <2>2. r.state \in [Tasks -> TaskState]
    BY ONLY <1>1, <1>3, me \in Tasks, Zenon DEF TaskState
  <2>3. r.pc \in [Tasks -> Places]
    BY ONLY <1>1, <1>3, me \in Tasks
  <2>. QED
    BY <1>1, <1>2, <2>1, <2>2, <2>3, TypedExcept
<1>9. Queueing(r)
  <2>1. me \notin Entries(q.queue) /\ \A d \in Tasks : q.vfork[d] # me
    BY <1>2, NoTaskAssumption, Zenon DEF Queueing
  <2>2. \A t \in Entries(r.queue) : r.state[t] \in {"Ready", "Exited"}
    BY <1>2, <1>3, <1>4, <1>6, <2>1, Zenon DEF Queueing
  <2>3. ASSUME NEW d \in Tasks, r.vfork[d] # NoTask
        PROVE  /\ r.state[r.vfork[d]] \in {"BlockedUninterruptible", "Exited"}
               /\ r.vfork[d] \notin Entries(r.queue)
    <3>1. CASE d = c
      BY <1>4, <1>5, <1>6, <2>1, <3>1, Zenon
    <3>2. CASE d # c
      <4>1. q.vfork[d] = r.vfork[d] /\ q.vfork[d] \in Tasks /\ q.vfork[d] # me
        BY <1>3, <1>5, <2>1, <2>3, <3>2, Zenon
      <4>. QED
        BY <1>2, <1>4, <1>6, <2>3, <4>1 DEF Queueing
    <3>. QED
      BY <3>1, <3>2, Zenon
  <2>4. \A d, e \in Tasks : r.vfork[d] # NoTask /\ r.vfork[d] = r.vfork[e] => d = e
    BY <1>2, <1>5, <2>1 DEF Queueing
  <2>5. \A t \in Tasks : Active(r, t) => Active(q, t)
    <3>1. \A t \in Tasks : Waits(r, t) => Waits(q, t) \/ t = me
      BY <1>5, Zenon DEF Waits
    <3>. QED
      BY <1>4, <1>7, <3>1, Zenon DEF Active
  <2>. QED
    BY <1>2, <1>4, <2>2, <2>3, <2>4, <2>5 DEF Queueing
<1>10. Fresh(r)
  <2>1. \A t \in Tasks : r.state[t] = "None" => t # me /\ t # c /\ q.state[t] = "None"
    BY <1>6, Zenon
  <2>. QED
    BY <1>2, <1>4, <1>5, <1>6, <2>1 DEF Fresh
<1>11. Families(r) /\ Peaceful(r)
  BY <1>1, <1>2, Frames
<1>12. Threads(r)
  <2>1. \A t \in Tasks : q.state[t] # "None" => r.state[t] # "None"
    BY <1>6, Zenon
  <2>. QED
    BY <1>2, <1>3, <1>4, <1>7, <2>1 DEF Threads
<1>13. Sleeping(r)
  BY <1>2, <1>4, <1>6, <1>7 DEF Sleeping
<1>14. Waiting(r)
  BY <1>2, <1>4, <1>6 DEF Waiting, AloneAt
<1>15. VForked(r, NoTask)
  <2>1. Quiet(r) <=> Quiet(q)
    BY <1>4, Zenon DEF Quiet
  <2>2. ASSUME Quiet(q), NEW t \in Tasks, r.state[t] = "BlockedUninterruptible"
        PROVE  \E d \in Tasks : r.vfork[d] = t /\ Alive(r, d)
    <3>1. CASE t = me
      BY <1>5, <1>7, <3>1, Zenon
    <3>2. CASE t # me
      <4>1. PICK d \in Tasks : q.vfork[d] = t /\ Alive(q, d)
        BY <1>2, <1>6, <2>2, <3>2, NoTaskAssumption DEF VForked
      <4>2. d # c
        BY <4>1, NoTaskAssumption, Zenon
      <4>. QED
        BY <1>5, <1>7, <4>1, <4>2, Zenon
    <3>. QED
      BY <3>1, <3>2, Zenon
  <2>. QED
    BY <2>1, <2>2, Zenon DEF VForked
<1>. QED
  BY <1>4, <1>8, <1>9, <1>10, <1>11, <1>12, <1>13, <1>14, <1>15, Zenon DEF Sound

-----------------------------------------------------------------------------
(* wait4.                                                                   *)

\* Two tasks of a process that are alive are two of its threads.
LEMMA AloneIsMe ==
    ASSUME NEW q, Typed(q), Threads(q), NEW t \in Tasks, NEW me \in Tasks, Alive(q, t),
           Alive(q, me), q.proc[t] = q.proc[me], Len(q.tasks[q.proc[t]]) = 1
    PROVE  t = me
<1>1. PICK s : s = q.tasks[q.proc[t]]
  OBVIOUS
<1>2. t \in Entries(s) /\ me \in Entries(s) /\ Len(s) = 1
  BY <1>1, Zenon DEF Threads
<1>. QED
  BY ONLY <1>2 DEF Entries

\* The wait of me for the child c ends: PCB::recycle, which hands the code out or not.
Recycled(q, r, c) ==
    /\ Except(q, r, {"pstate", "reaped"})
    /\ r.pstate = [q.pstate EXCEPT ![c] = "Dead"]
    /\ \/ r.reaped = q.reaped
       \/ q.pstate[c] = "Exited" /\ r.reaped = [q.reaped EXCEPT ![c] = q.reaped[c] + 1]

LEMMA Recycles ==
    ASSUME NEW q, Typed(q), NEW c \in Pids
    PROVE  /\ Recycled(q, recycle(q, c), c)
           /\ q.pstate[c] = "Exited" => Recycled(q, reap(q, c), c)
<1>1. PICK u, r : u = recycle(q, c) /\ r = reap(q, c)
  OBVIOUS
<1>2. IsKernel(q)
  BY Zenon DEF Typed
<1>3. u = [q EXCEPT !.pstate = [q.pstate EXCEPT ![c] = "Dead"]]
  BY <1>1, <1>2, Zenon DEF recycle, IsKernel, Fields
<1>4. /\ Except(q, u, {"pstate"}) /\ u.pstate = [q.pstate EXCEPT ![c] = "Dead"]
      /\ u.reaped = q.reaped /\ IsKernel(u)
  BY <1>2, <1>3, Zenon DEF Except, IsKernel, Fields
<1>5. r = [u EXCEPT !.reaped = [u.reaped EXCEPT ![c] = u.reaped[c] + 1]]
  BY <1>1, <1>4, Zenon DEF reap, IsKernel, Fields
<1>6. /\ Except(u, r, {"reaped"}) /\ r.pstate = u.pstate
      /\ r.reaped = [u.reaped EXCEPT ![c] = u.reaped[c] + 1]
  BY <1>4, <1>5, Zenon DEF Except, IsKernel, Fields
<1>7. Except(q, r, {"pstate", "reaped"}) /\ Except(q, u, {"pstate", "reaped"})
  <2>1. Except(q, r, {"pstate", "reaped"})
    BY <1>4, <1>6, ExceptTwice, Zenon
  <2>2. Except(q, u, {"pstate", "reaped"})
    BY <1>4, Zenon DEF Except
  <2>. QED
    BY <2>1, <2>2, Zenon
<1>8. Recycled(q, u, c)
  BY <1>4, <1>7, Zenon DEF Recycled
<1>9. q.pstate[c] = "Exited" => Recycled(q, r, c)
  BY <1>4, <1>6, <1>7, Zenon DEF Recycled
<1>. QED
  BY <1>1, <1>8, <1>9, Zenon

LEMMA RecycleSound ==
    ASSUME NEW q, Sound(q, NoTask), q.fate = "up", NEW me \in Tasks,
           q.state[me] = "Running", NEW c \in Pids, c < q.next_tid,
           q.parent[c] = q.proc[me], NEW r, Recycled(q, r, c)
    PROVE  /\ Sound(r, NoTask) /\ r.fate = "up" /\ r.state[me] = "Running"
           /\ r.proc = q.proc /\ r.children = q.children /\ r.parent = q.parent
           /\ r.next_tid = q.next_tid /\ r.tasks = q.tasks
           /\ r.waiting_task = q.waiting_task
           /\ r.pstate[c] = "Dead" /\ r.pcbs = q.pcbs
<1>1. /\ Except(q, r, {"pstate", "reaped"})
      /\ r.pstate = [q.pstate EXCEPT ![c] = "Dead"]
      /\ \/ r.reaped = q.reaped
         \/ /\ q.pstate[c] = "Exited"
            /\ r.reaped = [q.reaped EXCEPT ![c] = q.reaped[c] + 1]
  BY Zenon DEF Recycled
<1>2. /\ Typed(q) /\ Queueing(q) /\ Fresh(q) /\ Families(q) /\ Threads(q) /\ Sleeping(q)
      /\ Waiting(q) /\ Peaceful(q) /\ VForked(q, NoTask)
  BY Zenon DEF Sound
<1>3. /\ r.state = q.state /\ r.proc = q.proc /\ r.tid = q.tid /\ r.pc = q.pc
      /\ r.event = q.event /\ r.fate = q.fate /\ r.pcbs = q.pcbs /\ r.vfork = q.vfork
      /\ r.next_tid = q.next_tid /\ r.tasks = q.tasks
      /\ r.waiting_task = q.waiting_task /\ r.parent = q.parent /\ r.children = q.children
  BY <1>1, Zenon DEF Except, Fields
<1>4. /\ q.pstate \in [Pids -> {"None", "Running", "Exited", "Dead"}]
      /\ q.reaped \in [Pids -> 0..1] /\ q.pcbs \subseteq Pids /\ q.proc \in [Tasks -> Pids]
      /\ q.next_tid \in Nat
  <2>1. q.next_tid \in 2..(Last + 1)
    BY <1>2, Zenon DEF Typed, Last
  <2>2. q.next_tid \in Nat
    BY ONLY <2>1, TaskNumbers
  <2>. QED
    BY <1>2, <2>2, Zenon DEF Typed
<1>5. r.pstate[c] = "Dead" /\ \A p \in Pids : p # c => r.pstate[p] = q.pstate[p]
  BY <1>1, <1>4, Zenon
<1>6. q.pstate[c] = "Exited" => q.reaped[c] = 0 /\ c \notin q.pcbs
  BY <1>2, Zenon DEF Families, OwedIn
<1>7. /\ r.reaped \in [Pids -> 0..1]
      /\ \A p \in Pids : p # c => r.reaped[p] = q.reaped[p]
      /\ c \in q.pcbs => r.reaped[c] = q.reaped[c]
  <2>1. CASE r.reaped = q.reaped
    BY <1>4, <2>1, Zenon
  <2>2. CASE q.pstate[c] = "Exited" /\ r.reaped = [q.reaped EXCEPT ![c] = q.reaped[c] + 1]
    <3>1. q.reaped[c] + 1 = 1 /\ c \notin q.pcbs
      BY <1>6, <2>2
    <3>2. PICK n : n = q.reaped[c] + 1
      OBVIOUS
    <3>3. n \in 0..1 /\ r.reaped = [q.reaped EXCEPT ![c] = n]
      BY <2>2, <3>1, <3>2
    <3>. QED
      BY ONLY <1>4, <3>1, <3>3
  <2>. QED
    BY <1>1, <2>1, <2>2, Zenon
<1>8. Typed(r)
  <2>1. r.pstate \in [Pids -> {"None", "Running", "Exited", "Dead"}]
    BY <1>1, <1>4
  <2>. QED
    BY <1>1, <1>2, <1>7, <2>1, TypedExcept, Zenon
<1>9. Queueing(r) /\ Threads(r) /\ Sleeping(r) /\ Peaceful(r) /\ VForked(r, NoTask)
  BY <1>1, <1>2, Frames
<1>10. Fresh(r)
  <2>1. \A p \in Pids : q.next_tid <= p => p # c
    <3>1. c \in Nat
      BY TaskNumbers, Zenon DEF Pids
    <3>. QED
      BY ONLY <1>4, <3>1, c < q.next_tid
  <2>. QED
    BY <1>2, <1>3, <1>5, <1>7, <2>1 DEF Fresh
<1>11. Families(r)
  <2>1. \A p \in Pids : OwedIn(r, p) => OwedIn(q, p) /\ r.reaped[p] = q.reaped[p]
    BY <1>3, <1>5, <1>7, Zenon DEF OwedIn
  <2>2. \A p \in q.pcbs : r.pstate[p] # "Exited"
    BY <1>2, <1>4, <1>5, Zenon DEF Families
  <2>. QED
    BY <1>2, <1>3, <2>1, <2>2 DEF Families
<1>12. Waiting(r)
  <2>1. ASSUME NEW t \in Tasks, AloneAt(r, t), r.state[t] \in {"Blocked", "Ready"}
        PROVE  /\ AloneAt(q, t) /\ q.state[t] = r.state[t] /\ q.proc[t] \in Pids
               /\ c \notin Entries(q.children[q.proc[t]])
    <3>1. AloneAt(q, t) /\ q.state[t] = r.state[t] /\ q.proc[t] \in Pids
      BY <1>3, <1>4, <2>1, Zenon DEF AloneAt
    <3>2. Alive(q, t) /\ Alive(q, me) /\ t # me /\ Len(q.tasks[q.proc[t]]) = 1
      BY <2>1, <3>1, Zenon DEF Alive, AloneAt
    <3>3. q.proc[t] # q.proc[me]
      BY <1>2, <3>2, AloneIsMe, Zenon
    <3>. QED
      BY <1>2, <3>1, <3>3, Zenon DEF Families
  <2>2. ASSUME NEW t \in Tasks, AloneAt(r, t), r.state[t] = "Blocked"
        PROVE  /\ t \in Entries(r.waiting_task[r.proc[t]])
               /\ \A d \in Entries(r.children[r.proc[t]]) : r.pstate[d] # "Exited"
    <3>1. /\ AloneAt(q, t) /\ q.state[t] = "Blocked" /\ q.proc[t] \in Pids
          /\ c \notin Entries(q.children[q.proc[t]])
          /\ Entries(q.children[q.proc[t]]) \subseteq Pids
      BY <1>2, <2>1, <2>2, TypedLists, Zenon
    <3>. QED
      BY <1>2, <1>3, <1>5, <3>1 DEF Waiting
  <2>3. ASSUME NEW t \in Tasks, AloneAt(r, t), r.state[t] = "Ready",
               NEW d \in Pids, r.event[t] = Ev("Process", d)
        PROVE  d \in Entries(r.children[r.proc[t]]) /\ r.pstate[d] = "Exited"
    <3>1. /\ AloneAt(q, t) /\ q.state[t] = "Ready"
          /\ c \notin Entries(q.children[q.proc[t]])
      BY <2>1, <2>3, Zenon
    <3>2. d \in Entries(q.children[q.proc[t]]) /\ q.pstate[d] = "Exited"
      BY <1>2, <1>3, <2>3, <3>1 DEF Waiting
    <3>. QED
      BY <1>3, <1>5, <3>1, <3>2, Zenon
  <2>. QED
    BY <2>2, <2>3, Zenon DEF Waiting
<1>. QED
  BY <1>3, <1>5, <1>8, <1>9, <1>10, <1>11, <1>12, Zenon DEF Sound

\* The list of the children without the reaped one.
Others(s, c) == {i \in 1..Len(s) : s[i] # c}

LEMMA Removed ==
    ASSUME NEW S, NEW s \in Seq(S), NEW c, NEW I, I = Others(s, c),
           NEW m, m = Picked(s, I)
    PROVE  /\ m \in Seq(S)
           /\ \A x : x \in Entries(m) <=> x \in Entries(s) /\ x # c
           /\ (\A i, j \in 1..Len(s) : s[i] = s[j] => i = j)
              => \A i, j \in 1..Len(m) : m[i] = m[j] => i = j
<1>1. I \in SUBSET (1..Len(s)) /\ \A i \in 1..Len(s) : i \in I <=> s[i] # c
  BY Zenon DEF Others
<1>2. I \in SUBSET (1..Len(s)) /\ Len(s) \in Nat /\ m = Picked(s, I)
  BY <1>1
<1>3. PICK f : Numbers(f, s, I)
  BY <1>2, PickedNumbers, Zenon
<1>4. PICK n : n = Len(m)
  OBVIOUS
<1>5. n \in Nat
  BY <1>2, <1>3, <1>4 DEF Numbers
<1>6. /\ f \in [1..n -> I] /\ m = [i \in 1..n |-> s[f[i]]]
      /\ \A i, j \in 1..n : f[i] = f[j] => i = j
      /\ \A i \in I : \E j \in 1..n : f[j] = i
  BY <1>2, <1>3, <1>4, Zenon DEF Numbers
<1>7. \A i \in 1..n : f[i] \in 1..Len(s) /\ s[f[i]] \in S /\ s[f[i]] # c
  BY <1>1, <1>6
<1>8. m \in Seq(S) /\ Len(m) = n /\ \A i \in 1..n : m[i] = s[f[i]]
  BY ONLY <1>5, <1>6, <1>7
<1>9. /\ \A x : x \in Entries(m) <=> \E i \in 1..n : s[f[i]] = x
      /\ \A x : x \in Entries(s) <=> \E i \in 1..Len(s) : s[i] = x
  <2>1. \A x : x \in Entries(m) <=> \E i \in 1..Len(m) : m[i] = x
    BY ONLY <1>8, EntriesIn, Zenon
  <2>2. \A x : x \in Entries(s) <=> \E i \in 1..Len(s) : s[i] = x
    BY ONLY s \in Seq(S), EntriesIn, Zenon
  <2>. QED
    BY ONLY <1>8, <2>1, <2>2
<1>10. ASSUME NEW x, x \in Entries(s), x # c PROVE x \in Entries(m)
  <2>1. PICK i \in 1..Len(s) : s[i] = x
    BY <1>9, <1>10, Zenon
  <2>2. i \in I
    BY <1>1, <1>10, <2>1, Zenon
  <2>. QED
    BY <1>6, <1>9, <2>1, <2>2, Zenon
<1>11. \A x : x \in Entries(m) => x \in Entries(s) /\ x # c
  BY <1>7, <1>9, Zenon
<1>12. ASSUME \A i, j \in 1..Len(s) : s[i] = s[j] => i = j,
              NEW i \in 1..Len(m), NEW j \in 1..Len(m), m[i] = m[j]
       PROVE  i = j
  <2>1. f[i] = f[j]
    BY <1>7, <1>8, <1>12, SMTT(30)
  <2>. QED
    BY <1>6, <1>8, <2>1, Zenon
<1>. QED
  BY <1>8, <1>10, <1>11, <1>12, Zenon

\* The retain of wait4 on the children of the process of me.
Forgotten(q, r, p, c) ==
    \E m : /\ m = Picked(q.children[p], Others(q.children[p], c))
           /\ Except(q, r, {"children"}) /\ r.children = [q.children EXCEPT ![p] = m]

LEMMA Forgets ==
    ASSUME NEW q, Typed(q), NEW p \in Pids, NEW c
    PROVE  Forgotten(q, forget_child(q, p, c), p, c)
<1>1. PICK m, r : /\ m = Picked(q.children[p], Others(q.children[p], c))
                  /\ r = forget_child(q, p, c)
  OBVIOUS
<1>2. IsKernel(q)
  BY Zenon DEF Typed
<1>3. r = [q EXCEPT !.children = [q.children EXCEPT ![p] = m]]
  BY <1>1, <1>2, Zenon DEF forget_child, Others, IsKernel, Fields
<1>4. Except(q, r, {"children"}) /\ r.children = [q.children EXCEPT ![p] = m]
  BY <1>2, <1>3, Zenon DEF Except, IsKernel, Fields
<1>. QED
  BY <1>1, <1>4, Zenon DEF Forgotten

LEMMA ForgetSound ==
    ASSUME NEW q, Sound(q, NoTask), q.fate = "up", NEW me \in Tasks,
           q.state[me] = "Running", NEW c \in Pids, ~OwedIn(q, c),
           NEW p, p = q.proc[me], NEW r, Forgotten(q, r, p, c)
    PROVE  Sound(r, NoTask) /\ r.state[me] = "Running"
<1>1. PICK m : /\ m = Picked(q.children[p], Others(q.children[p], c))
               /\ Except(q, r, {"children"}) /\ r.children = [q.children EXCEPT ![p] = m]
  BY Zenon DEF Forgotten
<1>2. /\ Typed(q) /\ Queueing(q) /\ Fresh(q) /\ Families(q) /\ Threads(q) /\ Sleeping(q)
      /\ Waiting(q) /\ Peaceful(q) /\ VForked(q, NoTask)
  BY Zenon DEF Sound
<1>3. /\ r.state = q.state /\ r.proc = q.proc /\ r.tid = q.tid /\ r.pc = q.pc
      /\ r.event = q.event /\ r.fate = q.fate /\ r.pcbs = q.pcbs /\ r.vfork = q.vfork
      /\ r.next_tid = q.next_tid /\ r.tasks = q.tasks /\ r.reaped = q.reaped
      /\ r.waiting_task = q.waiting_task /\ r.parent = q.parent /\ r.pstate = q.pstate
  BY <1>1, Zenon DEF Except, Fields
<1>4. q.children \in [Pids -> Seq(Pids)] /\ p \in Pids /\ q.proc \in [Tasks -> Pids]
  BY <1>2, Zenon DEF Typed
<1>5. /\ m \in Seq(Pids)
      /\ \A x : x \in Entries(m) <=> x \in Entries(q.children[p]) /\ x # c
      /\ \A i, j \in 1..Len(m) : m[i] = m[j] => i = j
  <2>1. PICK s : s = q.children[p]
    OBVIOUS
  <2>2. PICK I : I = Others(s, c)
    OBVIOUS
  <2>3. s \in Seq(Pids) /\ m = Picked(s, I)
    BY <1>1, <1>4, <2>2, <2>1, Zenon
  <2>4. \A i, j \in 1..Len(s) : s[i] = s[j] => i = j
    BY <1>2, <1>4, <2>1, ZenonT(30) DEF Families
  <2>5. /\ m \in Seq(Pids)
        /\ \A x : x \in Entries(m) <=> x \in Entries(s) /\ x # c
        /\ \A i, j \in 1..Len(m) : m[i] = m[j] => i = j
    BY ONLY <2>2, <2>3, <2>4, Removed
  <2>. QED
    BY <2>1, <2>5, Zenon
<1>6. r.children[p] = m /\ \A y \in Pids : y # p => r.children[y] = q.children[y]
  BY ONLY <1>1, <1>4, Zenon
<1>7. Typed(r)
  <2>1. r.children \in [Pids -> Seq(Pids)]
    BY ONLY <1>1, <1>4, <1>5
  <2>. QED
    BY <1>1, <1>2, <2>1, TypedExcept, Zenon
<1>8. /\ Queueing(r) /\ Threads(r) /\ Sleeping(r) /\ Peaceful(r) /\ VForked(r, NoTask)
  BY <1>1, <1>2, Frames
<1>9. Fresh(r)
  <2>1. \A y \in Pids : q.next_tid <= y => y # p
    <3>1. q.next_tid \in 2..(Last + 1)
      BY <1>2, Zenon DEF Typed, Last
    <3>2. q.next_tid \in Nat /\ p \in Nat
      BY ONLY <1>4, <3>1, TaskNumbers
    <3>3. p < q.next_tid
      BY <1>2, Zenon DEF Fresh
    <3>. QED
      BY ONLY <3>2, <3>3
  <2>. QED
    BY <1>2, <1>3, <1>6, <2>1 DEF Fresh
<1>10. Families(r)
  <2>1. \A y \in Pids : \A x \in Entries(r.children[y]) : x \in Entries(q.children[y])
    BY <1>5, <1>6, Zenon
  <2>2. \A y \in Pids : \A x \in Entries(q.children[y]) : x # c => x \in Entries(r.children[y])
    BY <1>5, <1>6, Zenon
  <2>3. \A x \in Pids : OwedIn(r, x) <=> OwedIn(q, x)
    BY <1>3, Zenon DEF OwedIn
  <2>4. \A y \in Pids : \A i, j \in 1..Len(r.children[y]) :
           r.children[y][i] = r.children[y][j] => i = j
    BY <1>2, <1>5, <1>6 DEF Families
  <2>5. ASSUME NEW x \in Pids, OwedIn(r, x), x # INIT
        PROVE  r.parent[x] \in r.pcbs /\ x \in Entries(r.children[r.parent[x]])
    <3>1. q.parent[x] \in q.pcbs /\ x \in Entries(q.children[q.parent[x]]) /\ x # c
      BY <1>2, <2>3, <2>5, Zenon DEF Families
    <3>2. q.parent[x] \in Pids
      BY <1>2, Zenon DEF Typed
    <3>. QED
      BY <1>3, <2>2, <3>1, <3>2, Zenon
  <2>6. \A y \in Pids : \A x \in Entries(r.children[y]) :
           r.parent[x] = y /\ y < x /\ x < r.next_tid
    BY <1>2, <1>3, <2>1 DEF Families
  <2>. QED
    BY <1>2, <1>3, <2>3, <2>4, <2>5, <2>6 DEF Families
<1>11. Waiting(r)
  <2>1. ASSUME NEW t \in Tasks, AloneAt(r, t), r.state[t] \in {"Blocked", "Ready"}
        PROVE  /\ AloneAt(q, t) /\ q.proc[t] \in Pids
               /\ r.children[q.proc[t]] = q.children[q.proc[t]]
    <3>1. AloneAt(q, t) /\ q.state[t] = r.state[t] /\ q.proc[t] \in Pids
      BY <1>3, <1>4, <2>1, Zenon DEF AloneAt
    <3>2. Alive(q, t) /\ Alive(q, me) /\ t # me /\ Len(q.tasks[q.proc[t]]) = 1
      BY <2>1, <3>1, Zenon DEF Alive, AloneAt
    <3>3. q.proc[t] # p
      BY <1>2, <3>2, AloneIsMe, Zenon
    <3>. QED
      BY <1>6, <3>1, <3>3, Zenon
  <2>. QED
    BY <1>2, <1>3, <2>1 DEF Waiting
<1>. QED
  BY <1>3, <1>7, <1>8, <1>9, <1>10, <1>11, Zenon DEF Sound

\* waiting_task.push of the task about to block.
Registered(q, r, p, me) ==
    /\ Except(q, r, {"waiting_task"})
    /\ r.waiting_task = [q.waiting_task EXCEPT ![p] = Append(q.waiting_task[p], me)]

LEMMA RegisterSound ==
    ASSUME NEW q, Sound(q, NoTask), NEW me \in Tasks, q.state[me] = "Running",
           q.fate = "up", NEW p, p = q.proc[me], NEW r, Registered(q, r, p, me)
    PROVE  /\ Sound(r, NoTask) /\ r.state[me] = "Running" /\ r.proc = q.proc
           /\ me \in Entries(r.waiting_task[p])
           /\ r.next_tid = q.next_tid /\ r.parent = q.parent /\ r.tasks = q.tasks
           /\ r.children = q.children /\ r.pstate = q.pstate
<1>1. /\ Except(q, r, {"waiting_task"})
      /\ r.waiting_task = [q.waiting_task EXCEPT ![p] = Append(q.waiting_task[p], me)]
  BY Zenon DEF Registered
<1>2. /\ Typed(q) /\ Queueing(q) /\ Fresh(q) /\ Families(q) /\ Threads(q) /\ Sleeping(q)
      /\ Waiting(q) /\ Peaceful(q) /\ VForked(q, NoTask)
  BY Zenon DEF Sound
<1>3. /\ r.state = q.state /\ r.proc = q.proc /\ r.tid = q.tid /\ r.pc = q.pc
      /\ r.event = q.event /\ r.fate = q.fate /\ r.pcbs = q.pcbs /\ r.vfork = q.vfork
      /\ r.next_tid = q.next_tid /\ r.tasks = q.tasks /\ r.reaped = q.reaped
      /\ r.children = q.children /\ r.parent = q.parent /\ r.pstate = q.pstate
  BY <1>1, Zenon DEF Except, Fields
<1>4. q.waiting_task \in [Pids -> Seq(Tasks)] /\ p \in Pids /\ q.proc \in [Tasks -> Pids]
  BY <1>2, Zenon DEF Typed
<1>5. PICK s, u : s = q.waiting_task[p] /\ u = Append(s, me)
  BY Zenon
<1>6. s \in Seq(Tasks) /\ r.waiting_task = [q.waiting_task EXCEPT ![p] = u]
  BY <1>1, <1>4, <1>5, Zenon
<1>7. u \in Seq(Tasks) /\ \A x : x \in Entries(u) <=> x \in Entries(s) \/ x = me
  BY ONLY <1>5, <1>6, me \in Tasks, PushEntries
<1>8. /\ r.waiting_task[p] = u
      /\ \A y \in Pids : y # p => r.waiting_task[y] = q.waiting_task[y]
      /\ r.waiting_task \in [Pids -> Seq(Tasks)]
  BY ONLY <1>4, <1>6, <1>7, Zenon
<1>9. Typed(r)
  BY <1>1, <1>2, <1>8, TypedExcept, Zenon
<1>10. /\ Queueing(r) /\ Families(r) /\ Sleeping(r) /\ Peaceful(r) /\ VForked(r, NoTask)
  BY <1>1, <1>2, Frames
<1>11. Fresh(r)
  <2>1. \A y \in Pids : q.next_tid <= y => y # p
    <3>1. q.next_tid \in 2..(Last + 1)
      BY <1>2, Zenon DEF Typed, Last
    <3>2. q.next_tid \in Nat /\ p \in Nat
      BY ONLY <1>4, <3>1, TaskNumbers
    <3>3. p < q.next_tid
      BY <1>2, Zenon DEF Fresh
    <3>. QED
      BY ONLY <3>2, <3>3
  <2>. QED
    BY <1>2, <1>3, <1>8, <2>1 DEF Fresh
<1>12. \A y \in Pids : \A x : x \in Entries(r.waiting_task[y]) <=>
           x \in Entries(q.waiting_task[y]) \/ (y = p /\ x = me)
  BY <1>5, <1>7, <1>8, Zenon
<1>13. Threads(r)
  BY <1>2, <1>3, <1>12 DEF Threads, Alive
<1>14. Waiting(r)
  <2>1. \A t \in Tasks : q.proc[t] \in Pids
    BY <1>4, Zenon
  <2>. QED
    BY <1>2, <1>3, <1>12, <2>1 DEF Waiting, AloneAt
<1>. QED
  BY <1>3, <1>4, <1>9, <1>10, <1>11, <1>12, <1>13, <1>14, Zenon DEF Sound

LEMMA Registers ==
    ASSUME NEW q, Typed(q), NEW p, NEW me, NEW r,
           r = [q EXCEPT !.waiting_task[p] = Append(@, me)]
    PROVE  Registered(q, r, p, me)
<1>1. IsKernel(q)
  BY Zenon DEF Typed
<1>2. PICK u : u = Append(q.waiting_task[p], me)
  BY Zenon
<1>3. r = [q EXCEPT !.waiting_task = [q.waiting_task EXCEPT ![p] = u]]
  BY <1>1, <1>2, Zenon DEF IsKernel, Fields
<1>4. Except(q, r, {"waiting_task"}) /\ r.waiting_task = [q.waiting_task EXCEPT ![p] = u]
  BY ONLY <1>1, <1>3, Zenon DEF Except, IsKernel, Fields
<1>. QED
  BY ONLY <1>2, <1>4, Zenon DEF Registered

\* The task on the hart takes its event.
LEMMA TakeEventSound ==
    ASSUME NEW q, Sound(q, NoTask), NEW me \in Tasks, q.state[me] = "Running",
           NEW r, r = take_wakeup_event(q, me)
    PROVE  Sound(r, NoTask) /\ Except(q, r, {"event"})
<1>1. /\ Typed(q) /\ Queueing(q) /\ Fresh(q) /\ q.event \in [Tasks -> Events] /\ IsKernel(q)
  BY Zenon DEF Sound, Typed
<1>2. r = [q EXCEPT !.event = [q.event EXCEPT ![me] = NoEvent]]
  BY <1>1, Zenon DEF take_wakeup_event, IsKernel, Fields
<1>3. Except(q, r, {"event"}) /\ r.event = [q.event EXCEPT ![me] = NoEvent]
  BY ONLY <1>1, <1>2, Zenon DEF Except, IsKernel, Fields
<1>4. NoEvent \in Events
  BY Zenon DEF Events
<1>5. /\ r.event \in [Tasks -> Events] /\ \A t \in Tasks : t # me => r.event[t] = q.event[t]
  BY ONLY <1>1, <1>3, <1>4, Zenon
<1>6. Typed(r)
  BY <1>1, <1>3, <1>5, TypedExcept, Zenon
<1>7. Queueing(r) /\ Fresh(r)
  BY <1>1, <1>3, Frames
<1>8. ASSUME q.fate = "up"
      PROVE  /\ Families(r) /\ Threads(r) /\ Sleeping(r) /\ Waiting(r)
             /\ Peaceful(r) /\ VForked(r, NoTask)
  <2>1. /\ Families(q) /\ Threads(q) /\ Sleeping(q) /\ Waiting(q)
        /\ Peaceful(q) /\ VForked(q, NoTask)
    BY <1>8, Zenon DEF Sound
  <2>2. Families(r) /\ Threads(r) /\ Peaceful(r) /\ VForked(r, NoTask)
    BY <1>3, <2>1, Frames
  <2>3. /\ r.state = q.state /\ r.pc = q.pc /\ r.next_tid = q.next_tid
        /\ r.parent = q.parent /\ r.proc = q.proc /\ r.tasks = q.tasks
        /\ r.waiting_task = q.waiting_task /\ r.children = q.children
        /\ r.pstate = q.pstate
    BY <1>3, Zenon DEF Except, Fields
  <2>4. Sleeping(r)
    BY <1>5, <2>1, <2>3 DEF Sleeping, Alive
  <2>5. Waiting(r)
    BY <1>5, <2>1, <2>3 DEF Waiting, AloneAt
  <2>. QED
    BY <2>2, <2>4, <2>5, Zenon
<1>9. r.fate = q.fate
  BY <1>3, Zenon DEF Except, Fields
<1>. QED
  BY <1>3, <1>6, <1>7, <1>8, <1>9, Zenon DEF Sound

-----------------------------------------------------------------------------
(* Every action keeps the invariant.                                        *)

\* run_tasks drops a task that is not ready.
LEMMA DropKeeps ==
    ASSUME IInv, DropFetched
    PROVE  IInv'
<1>1. PICK q, r, me : q = k /\ r = k' /\ me = Head(q.queue)
  OBVIOUS
<1>2. Sound(q, NoTask) /\ q.queue # <<>> /\ r = fetch_next_task(q)
  BY <1>1, Zenon DEF IInv, DropFetched
<1>3. /\ Typed(q) /\ Queueing(q) /\ Fresh(q) /\ IsKernel(q) /\ q.queue \in Seq(Tasks)
  BY <1>2, Zenon DEF Sound, Typed
<1>4. r = [q EXCEPT !.queue = Tail(q.queue)]
  BY <1>2, Zenon DEF fetch_next_task
<1>5. Except(q, r, {"queue"}) /\ r.queue = Tail(q.queue)
  BY <1>3, <1>4, Zenon DEF Except, IsKernel, Fields
<1>6. /\ r.queue \in Seq(Tasks) /\ Entries(q.queue) = Entries(r.queue) \cup {me}
      /\ TidsDiffer(r.queue, q.tid)
  <2>1. TidsDiffer(q.queue, q.tid)
    BY <1>3, Zenon DEF Queueing
  <2>. QED
    BY <1>1, <1>2, <1>3, <1>5, <2>1, FetchEntries, FetchTids
<1>7. /\ r.state = q.state /\ r.tid = q.tid /\ r.vfork = q.vfork /\ r.fate = q.fate
  BY <1>5, Zenon DEF Except, Fields
<1>8. Queueing(r)
  <2>1. \A t \in Tasks : Active(r, t) => Active(q, t)
    BY <1>6, <1>7, Zenon DEF Active, Alive, Waits
  <2>. QED
    BY <1>3, <1>6, <1>7, <2>1 DEF Queueing
<1>9. Typed(r) /\ Fresh(r)
  <2>1. Typed(r)
    BY <1>3, <1>5, <1>6, TypedExcept, Zenon
  <2>2. Fresh(r)
    BY <1>3, <1>5, Frames
  <2>. QED
    BY <2>1, <2>2, Zenon
<1>10. ASSUME q.fate = "up"
       PROVE  /\ Families(r) /\ Threads(r) /\ Sleeping(r) /\ Waiting(r)
              /\ Peaceful(r) /\ VForked(r, NoTask)
  <2>1. /\ Families(q) /\ Threads(q) /\ Sleeping(q) /\ Waiting(q)
        /\ Peaceful(q) /\ VForked(q, NoTask)
    BY <1>2, <1>10, Zenon DEF Sound
  <2>. QED
    BY <1>5, <2>1, Frames
<1>11. Sound(r, NoTask)
  BY <1>7, <1>8, <1>9, <1>10, Zenon DEF Sound
<1>. QED
  BY <1>1, <1>11, Zenon DEF IInv

LEMMA KilledKeeps ==
    ASSUME IInv, KilledInUserMode
    PROVE  IInv'
<1>1. Sound(Entered, NoTask) /\ k' = Entered
  BY Entering, Zenon DEF KilledInUserMode
<1>. QED
  BY <1>1, Zenon DEF IInv

LEMMA YieldKeeps ==
    ASSUME IInv, Yield
    PROVE  IInv'
<1>1. PICK q : q = Entered
  OBVIOUS
<1>2. Me \in Tasks /\ Sound(q, NoTask) /\ q.state[Me] = "Running" /\ k' = Return(q)
  BY <1>1, UserCalls, Zenon DEF Yield, UserCall
<1>3. Sound(Return(q), NoTask)
  BY <1>2, ReturnSound, Zenon
<1>. QED
  BY <1>2, <1>3, Zenon DEF IInv

\* The constructor of a clone finds the same Task object before and after trap_return.
LEMMA SameClone ==
    ASSUME IInv, CanRun, Entered.state[Me] = "Running", CanBuild(k)
    PROVE  CanBuild(Entered) /\ new_task(Entered) = new_task(k)
<1>1. PICK q, me : q = Entered /\ me = Me
  OBVIOUS
<1>2. /\ me \in Tasks /\ Inside(k, me, q) /\ k.state[me] = "Ready"
      /\ k.state \in [Tasks -> TaskState]
  BY <1>1, UserCalls, Zenon DEF CanRun, IInv, Sound, Typed
<1>3. q.state = [k.state EXCEPT ![me] = "Running"]
  BY <1>2, Zenon DEF Inside
<1>4. \A t \in Tasks : q.state[t] = "None" <=> k.state[t] = "None"
  BY ONLY <1>2, <1>3, Zenon
<1>5. {t \in Tasks : q.state[t] = "None"} = {t \in Tasks : k.state[t] = "None"}
  BY ONLY <1>4, Zenon
<1>6. CanBuild(q) /\ new_task(q) = new_task(k)
  BY <1>4, <1>5, Zenon DEF CanBuild, new_task
<1>. QED
  BY <1>1, <1>6, Zenon

\* What clone leaves to push or to await, without and with THREAD.
LEMMA CloneCalls ==
    ASSUME IInv, CanRun, Entered.state[Me] = "Running", CanBuild(k),
           NEW thread \in BOOLEAN, thread => "thread" \in Load.calls,
           NEW c, c = new_task(k), NEW u, u = clone_task(Entered, Me, thread)
    PROVE  /\ Me \in Tasks /\ Sound(u, NoTask) /\ u.fate = "up"
           /\ c \in Tasks /\ c # Me /\ u.state[c] = "Ready" /\ c \notin Entries(u.queue)
           /\ u.state[Me] = "Running" /\ u.vfork[c] = NoTask
           /\ \A r : Enqueued(u, r, c) => Sound(r, NoTask)
<1>1. PICK q, me : q = Entered /\ me = Me
  OBVIOUS
<1>2. /\ me \in Tasks /\ Sound(q, NoTask) /\ q.fate = "up" /\ q.state[me] = "Running"
      /\ q.load = k.load
  BY <1>1, UserCalls, Zenon
<1>3. CanBuild(q) /\ c = new_task(q) /\ u = clone_task(q, me, thread)
  BY <1>1, SameClone, Zenon
<1>4. thread => ~Quiet(q)
  BY <1>2, Zenon DEF Quiet, Load
<1>5. /\ Sound(u, NoTask) /\ u.fate = "up"
      /\ c \in Tasks /\ c # me /\ u.state[c] = "Ready" /\ c \notin Entries(u.queue)
      /\ u.state[me] = "Running" /\ u.vfork[c] = NoTask
  BY <1>2, <1>3, <1>4, CloneSound
<1>6. \A r : Enqueued(u, r, c) => Sound(r, NoTask)
  BY <1>5, PushNew, Zenon
<1>. QED
  BY <1>1, <1>2, <1>5, <1>6, Zenon

LEMMA PushedCloneKeeps ==
    ASSUME IInv, CanRun, Entered.state[Me] = "Running", CanBuild(k),
           NEW thread \in BOOLEAN, thread => "thread" \in Load.calls,
           k' = Return(push_task(clone_task(Entered, Me, thread), new_task(k)))
    PROVE  IInv'
<1>1. PICK c, u : c = new_task(k) /\ u = clone_task(Entered, Me, thread)
  OBVIOUS
<1>2. /\ Me \in Tasks /\ Sound(u, NoTask) /\ u.state[Me] = "Running"
      /\ \A r : Enqueued(u, r, c) => Sound(r, NoTask)
  BY <1>1, CloneCalls, Zenon
<1>3. PICK r : r = push_task(u, c)
  OBVIOUS
<1>4. Enqueued(u, r, c)
  BY <1>2, <1>3, Enqueues, Zenon DEF Sound, Typed
<1>5. Sound(r, NoTask) /\ r.state[Me] = "Running"
  BY <1>2, <1>4, Zenon DEF Enqueued, Except, Fields
<1>6. Sound(Return(r), NoTask)
  BY <1>2, <1>5, ReturnSound, Zenon
<1>. QED
  BY <1>1, <1>3, <1>6, Zenon DEF IInv

LEMMA ForkKeeps ==
    ASSUME IInv, Fork
    PROVE  IInv'
BY PushedCloneKeeps, Zenon DEF Fork, UserCall

LEMMA ThreadKeeps ==
    ASSUME IInv, Thread
    PROVE  IInv'
BY PushedCloneKeeps, Zenon DEF Thread, UserCall

\* A clone that faults leaves a task no queue knows.
LEMMA CloneFaultKeeps ==
    ASSUME IInv, CloneFault
    PROVE  IInv'
<1>1. PICK u : u = clone_task(Entered, Me, FALSE)
  BY Zenon
<1>2. Me \in Tasks /\ Sound(u, NoTask) /\ u.state[Me] = "Running" /\ k' = Return(u)
  BY <1>1, CloneCalls, Zenon DEF CloneFault, UserCall
<1>3. Sound(Return(u), NoTask)
  BY <1>2, ReturnSound, Zenon
<1>. QED
  BY <1>2, <1>3, Zenon DEF IInv

LEMMA VForkKeeps ==
    ASSUME IInv, VFork
    PROVE  IInv'
<1>1. PICK me, c, u : me = Me /\ c = new_task(k) /\ u = clone_task(Entered, Me, FALSE)
  BY Zenon
<1>2. /\ me \in Tasks /\ Sound(u, NoTask) /\ u.fate = "up"
      /\ c \in Tasks /\ c # me /\ u.state[c] = "Ready"
      /\ u.state[me] = "Running" /\ u.vfork[c] = NoTask
      /\ \A r : Enqueued(u, r, c) => Sound(r, NoTask)
  BY <1>1, CloneCalls, Zenon DEF VFork, UserCall
<1>3. PICK v, w, x, y : /\ v = [u EXCEPT !.vfork[c] = me] /\ w = push_task(v, c)
                        /\ x = block_uninterruptible(w, me)
                        /\ y = [x EXCEPT !.pc[me] = At("vfork", 0)]
  BY Zenon
<1>4. k' = y
  BY <1>1, <1>3, Zenon DEF VFork, BlockUninterruptibleAt
<1>5. PICK r : r = push_task(u, c)
  OBVIOUS
<1>6. IsKernel(u)
  BY <1>2, Zenon DEF Sound, Typed
<1>7. Enqueued(u, r, c)
  BY <1>5, <1>6, Enqueues, Zenon
<1>8. /\ Sound(r, NoTask) /\ r.fate = "up" /\ r.state = u.state /\ r.vfork = u.vfork
      /\ r.queue = Append(u.queue, c) /\ Except(u, r, {"queue"}) /\ r.pc = u.pc
  BY <1>2, <1>7, Zenon DEF Enqueued, Except, Fields
<1>9. /\ Except(u, v, {"vfork"}) /\ v.vfork = [u.vfork EXCEPT ![c] = me]
      /\ IsKernel(v) /\ v.queue = u.queue /\ v.state = u.state /\ v.pc = u.pc
  <2>1. v = [u EXCEPT !.vfork = [u.vfork EXCEPT ![c] = me]]
    BY <1>3, <1>6, Zenon DEF IsKernel, Fields
  <2>. QED
    BY ONLY <1>6, <2>1, Zenon DEF Except, IsKernel, Fields
<1>10. Enqueued(v, w, c)
  BY <1>3, <1>9, Enqueues, Zenon
<1>11. /\ Except(v, w, {"queue"}) /\ w.queue = Append(u.queue, c) /\ IsKernel(w)
       /\ w.state = u.state /\ w.pc = u.pc /\ w.vfork = [u.vfork EXCEPT ![c] = me]
  BY <1>9, <1>10, Zenon DEF Enqueued, Except, Fields
<1>12. /\ Except(w, x, {"state"}) /\ x.queue = w.queue /\ IsKernel(x) /\ x.pc = w.pc
       /\ x.state = [u.state EXCEPT ![me] = "BlockedUninterruptible"]
       /\ x.vfork = w.vfork
  <2>1. w.state[me] = "Running"
    BY <1>2, <1>11, Zenon
  <2>2. x = [w EXCEPT !.state[me] = "BlockedUninterruptible"]
    BY ONLY <1>3, <2>1, Zenon DEF block_uninterruptible
  <2>3. x = [w EXCEPT !.state = [w.state EXCEPT ![me] = "BlockedUninterruptible"]]
    BY ONLY <1>11, <2>2, Zenon DEF IsKernel, Fields
  <2>4. /\ Except(w, x, {"state"}) /\ x.queue = w.queue /\ IsKernel(x) /\ x.pc = w.pc
        /\ x.state = [w.state EXCEPT ![me] = "BlockedUninterruptible"]
        /\ x.vfork = w.vfork
    BY ONLY <1>11, <2>3, Zenon DEF Except, IsKernel, Fields
  <2>. QED
    BY <1>11, <2>4, Zenon
<1>13. /\ Except(x, y, {"pc"}) /\ y.queue = x.queue /\ y.state = x.state
       /\ y.vfork = x.vfork /\ y.pc = [u.pc EXCEPT ![me] = At("vfork", 0)]
  <2>1. PICK at : at = At("vfork", 0)
    OBVIOUS
  <2>2. y = [x EXCEPT !.pc = [x.pc EXCEPT ![me] = at]]
    BY <1>3, <1>12, <2>1, Zenon DEF IsKernel, Fields
  <2>3. /\ Except(x, y, {"pc"}) /\ y.queue = x.queue /\ y.state = x.state
        /\ y.vfork = x.vfork /\ y.pc = [x.pc EXCEPT ![me] = at]
    BY ONLY <1>12, <2>2 DEF Except, IsKernel, Fields
  <2>. QED
    BY <1>11, <1>12, <2>1, <2>3, Zenon
<1>14. Except(r, y, {"vfork", "state", "pc"})
  <2>1. Except(u, w, {"vfork", "queue"})
    BY ONLY <1>9, <1>11, ExceptTwice, Zenon
  <2>2. Except(u, x, {"vfork", "queue", "state"})
    BY ONLY <1>12, <2>1, ExceptTwice
  <2>3. Except(u, y, {"vfork", "queue", "state", "pc"})
    BY ONLY <1>13, <2>2, ExceptTwice
  <2>4. y.queue = r.queue
    BY <1>8, <1>11, <1>12, <1>13, Zenon
  <2>5. \A z \in Fields : z \in {"vfork", "state", "pc"} \/ z = "queue" \/
             (z \notin {"vfork", "queue", "state", "pc"} /\ z \notin {"queue"})
    OBVIOUS
  <2>. QED
    BY ONLY <1>8, <2>3, <2>4, <2>5, Zenon DEF Except
<1>15. Awaits(r, y, me, c)
  BY ONLY <1>8, <1>11, <1>12, <1>13, <1>14, Zenon DEF Awaits
<1>16. Sound(y, NoTask)
  BY ONLY <1>2, <1>8, <1>15, AwaitSound, Zenon
<1>. QED
  BY <1>4, <1>16, Zenon DEF IInv

\* A task resumes the call it blocked in.
LEMMA Resumes ==
    ASSUME IInv, CanRun
    PROVE  /\ Me \in Tasks /\ Sound(Resumed, NoTask) /\ Resumed.state[Me] = "Running"
           /\ Except(k, Resumed, {"state", "queue", "event"})
           /\ k.state[Me] = "Ready" /\ Sleeping(k) /\ Waiting(k) /\ Families(k) /\ Typed(k)
           /\ Resumed.fate = "up"
<1>1. PICK q, r, me : q = Fetched /\ r = Resumed /\ me = Me
  OBVIOUS
<1>2. /\ me \in Tasks /\ k.state[me] = "Ready" /\ k.fate = "up"
      /\ Except(k, q, {"state", "queue"})
      /\ q.state = [k.state EXCEPT ![me] = "Running"] /\ Sound(q, NoTask)
  BY <1>1, FetchSound, Zenon
<1>3. k.state \in [Tasks -> TaskState]
  BY Zenon DEF IInv, Sound, Typed
<1>4. q.state[me] = "Running"
  BY <1>2, <1>3, Zenon
<1>5. r = take_wakeup_event(q, me)
  BY <1>1, Zenon DEF Resumed
<1>6. Sound(r, NoTask) /\ Except(q, r, {"event"})
  BY <1>2, <1>4, <1>5, TakeEventSound, Zenon
<1>7. Except(k, r, {"state", "queue", "event"})
  BY <1>2, <1>6, ExceptTwice
<1>8. r.state = q.state /\ r.fate = k.fate
  BY <1>6, <1>7, Zenon DEF Except, Fields
<1>9. Sleeping(k) /\ Waiting(k) /\ Families(k) /\ Typed(k)
  BY <1>2, Zenon DEF IInv, Sound
<1>. QED
  BY <1>1, <1>2, <1>4, <1>6, <1>7, <1>8, <1>9, Zenon

LEMMA VForkResumeKeeps ==
    ASSUME IInv, VForkResume
    PROVE  IInv'
<1>1. CanRun /\ k.pc[Me].at = "vfork"
  BY Zenon DEF VForkResume, Resume
<1>2. PICK q, me : q = Resumed /\ me = Me
  OBVIOUS
<1>3. /\ me \in Tasks /\ Sound(q, NoTask) /\ q.state[me] = "Running"
      /\ k.state[me] = "Ready" /\ Sleeping(k)
  BY <1>1, <1>2, Resumes, Zenon
<1>4. k.event[me] = Ev("VFork", 0)
  BY <1>1, <1>2, <1>3, Zenon DEF Sleeping
<1>5. k.event[me].type = "VFork"
  BY <1>4 DEF Ev
<1>6. k' = Return(q)
  BY <1>2, <1>5, Zenon DEF VForkResume
<1>7. Sound(Return(q), NoTask)
  BY <1>2, <1>3, ReturnSound, Zenon
<1>. QED
  BY <1>6, <1>7, Zenon DEF IInv

LEMMA ExecKeeps ==
    ASSUME IInv, Exec
    PROVE  IInv'
<1>1. CanRun /\ Entered.state[Me] = "Running" /\ CanBuild(k)
  BY Zenon DEF Exec, UserCall
<1>2. PICK q, me, u, r : /\ q = Entered /\ me = Me /\ u = PCB_exec(q, me)
                         /\ r = wake_parent_waiting_vfork(u, me)
  OBVIOUS
<1>3. /\ me \in Tasks /\ Sound(q, NoTask) /\ q.fate = "up" /\ q.state[me] = "Running"
      /\ CanBuild(q)
  BY <1>1, <1>2, UserCalls, SameClone, Zenon
<1>4. Sound(u, me)
  BY <1>2, <1>3, ExecSound, Zenon
<1>5. Sound(r, NoTask)
  BY <1>2, <1>3, <1>4, ReleaseSound, Zenon
<1>6. k' = r
  BY <1>2, Zenon DEF Exec
<1>. QED
  BY <1>5, <1>6, Zenon DEF IInv

LEMMA ExitKeeps ==
    ASSUME IInv, Exit
    PROVE  IInv'
<1>1. CanRun /\ Entered.state[Me] = "Running"
  BY Zenon DEF Exit, UserCall
<1>2. PICK q, me, u, r : /\ q = Entered /\ me = Me /\ u = TCB_exit(q, me)
                         /\ r = wake_parent_waiting_vfork(u, me)
  OBVIOUS
<1>3. me \in Tasks /\ Sound(q, NoTask) /\ q.fate = "up" /\ q.state[me] = "Running"
  BY <1>1, <1>2, UserCalls, Zenon
<1>4. Sound(u, me)
  BY <1>2, <1>3, TaskExitSound, Zenon
<1>5. Sound(r, NoTask)
  BY <1>2, <1>3, <1>4, ReleaseSound, Zenon
<1>6. k' = r
  BY <1>2, Zenon DEF Exit
<1>. QED
  BY <1>5, <1>6, Zenon DEF IInv

LEMMA ExitGroupKeeps ==
    ASSUME IInv, ExitGroup
    PROVE  IInv'
<1>1. CanRun /\ Entered.state[Me] = "Running"
  BY Zenon DEF ExitGroup, UserCall
<1>2. PICK q, me, p, u, r : /\ q = Entered /\ me = Me /\ p = q.proc[me]
                            /\ u = PCB_exit(q, p)
                            /\ r = wake_parent_waiting_vfork(u, me)
  OBVIOUS
<1>3. /\ me \in Tasks /\ Sound(q, NoTask) /\ q.fate = "up" /\ q.state[me] = "Running"
      /\ p \in q.pcbs /\ me \in Entries(q.tasks[p])
  BY <1>1, <1>2, UserCalls, Zenon
<1>4. Sound(q, me)
  BY <1>3, RunWeakens, Zenon
<1>5. Sound(u, me)
  BY <1>2, <1>3, <1>4, ExitSound, Zenon
<1>6. Sound(r, NoTask)
  BY <1>2, <1>3, <1>5, ReleaseSound, Zenon
<1>7. k' = r
  BY <1>2, Zenon DEF ExitGroup
<1>. QED
  BY <1>6, <1>7, Zenon DEF IInv

\* kill and tgkill send a signal, which Quiet workloads do not.
LEMMA SentKeeps ==
    ASSUME IInv, CanRun, Entered.state[Me] = "Running",
           {"kill", "tgkill"} \cap Load.calls # {},
           NEW p \in Entered.pcbs, NEW num \in Load.signals, NEW d \in Nat,
           k' = Return(send_signal([Entered EXCEPT !.kills = @ + 1], p, Signal(num, d)))
    PROVE  IInv'
<1>1. PICK q, me, s : q = Entered /\ me = Me /\ s = Signal(num, d)
  OBVIOUS
<1>2. /\ me \in Tasks /\ Sound(q, NoTask) /\ q.fate = "up" /\ q.state[me] = "Running"
      /\ q.load = k.load
  BY <1>1, UserCalls, Zenon
<1>3. Typed(q) /\ Queueing(q) /\ IsKernel(q) /\ q.kills \in Nat /\ p \in Pids
  BY <1>1, <1>2, Zenon DEF Sound, Typed
<1>4. ~Quiet(q)
  BY <1>2, Zenon DEF Quiet, Load
<1>5. s \in Sigs
  <2>1. Workloads[k.load] \in Workload
    BY <1>2, <1>3, ProcessAssumption, Zenon DEF Typed
  <2>2. num \in SigNums
    BY <2>1, Zenon DEF Load, Workload
  <2>. QED
    BY <1>1, <2>2, Zenon DEF Sigs, Signal
<1>6. PICK u : u = [q EXCEPT !.kills = @ + 1]
  BY Zenon
<1>7. PICK r : r = send_signal(u, p, s)
  OBVIOUS
<1>8. Except(q, u, {"kills"}) /\ u.kills = q.kills + 1
  BY <1>3, <1>6, Zenon DEF Except, IsKernel, Fields
<1>9. Typed(u) /\ Queueing(u)
  <2>1. u.kills \in Nat
    BY <1>3, <1>8
  <2>2. Typed(u)
    BY <1>3, <1>8, <2>1, TypedExcept, Zenon
  <2>3. Queueing(u)
    BY <1>3, <1>8, Frames
  <2>. QED
    BY <2>2, <2>3, Zenon
<1>10. Signalled(u, r, s)
  BY <1>3, <1>5, <1>7, <1>9, SendSignal, Zenon
<1>11. /\ u.state = q.state /\ u.event = q.event /\ u.pending_signal = q.pending_signal
       /\ u.pending = q.pending /\ u.proc = q.proc
  BY <1>8, Zenon DEF Except, Fields
<1>12. Roused(q, r) /\ SignalsFrom(q, r, {s})
  BY <1>10, <1>11, Zenon DEF Signalled, Roused, SignalsFrom
<1>13. Except(q, r, {"state", "event", "queue", "pending_signal", "pending", "frames",
                     "signal_mask", "kills"})
  <2>1. Except(u, r, {"state", "event", "queue", "pending_signal", "pending"})
    BY <1>10, Zenon DEF Signalled
  <2>. QED
    BY <1>8, <2>1, ExceptTwice
<1>14. Stirred(q, r, {s})
  BY <1>10, <1>12, <1>13, Zenon DEF Signalled, Stirred
<1>15. Sound(r, NoTask)
  BY <1>2, <1>4, <1>14, StirredSound, Zenon
<1>16. r.state[me] = "Running"
  BY <1>2, <1>12, Zenon DEF Roused
<1>17. Sound(Return(r), NoTask)
  BY <1>1, <1>2, <1>15, <1>16, ReturnSound, Zenon
<1>18. k' = Return(r)
  BY <1>1, <1>6, <1>7, Zenon
<1>. QED
  BY <1>17, <1>18, Zenon DEF IInv

LEMMA KillKeeps ==
    ASSUME IInv, Kill
    PROVE  IInv'
<1>1. CanRun /\ Entered.state[Me] = "Running" /\ {"kill", "tgkill"} \cap Load.calls # {}
  BY Zenon DEF Kill, UserCall
<1>2. PICK p \in Entered.pcbs, num \in Load.signals :
         k' = Return(send_signal([Entered EXCEPT !.kills = @ + 1], p, Signal(num, 0)))
  BY Zenon DEF Kill
<1>. QED
  BY <1>1, <1>2, SentKeeps, Zenon

LEMMA TgKillKeeps ==
    ASSUME IInv, TgKill
    PROVE  IInv'
<1>1. CanRun /\ Entered.state[Me] = "Running" /\ {"kill", "tgkill"} \cap Load.calls # {}
  BY Zenon DEF TgKill, UserCall
<1>2. PICK p \in Entered.pcbs, num \in Load.signals, d \in 1..(k.next_tid - 1) :
         k' = Return(send_signal([Entered EXCEPT !.kills = @ + 1], p, Signal(num, d)))
  BY Zenon DEF TgKill
<1>3. d \in Nat
  OBVIOUS
<1>. QED
  BY <1>1, <1>2, <1>3, SentKeeps, Zenon

\* The end of a wait: the code of c is returned, and c forgotten.
LEMMA ReapAndForget ==
    ASSUME NEW q, Sound(q, NoTask), q.fate = "up", Me \in Tasks,
           q.state[Me] = "Running", NEW c \in Pids, c < q.next_tid,
           NEW p, p = q.proc[Me], q.parent[c] = p, q.pstate[c] = "Exited"
    PROVE  Sound(Return(forget_child(reap(q, c), p, c)), NoTask)
<1>1. PICK me, u, r : me = Me /\ u = reap(q, c) /\ r = forget_child(u, p, c)
  OBVIOUS
<1>2. Typed(q) /\ Families(q) /\ p \in Pids
  BY <1>1, Zenon DEF Sound, Typed
<1>3. Recycled(q, u, c)
  BY <1>1, <1>2, Recycles, Zenon
<1>4. /\ Sound(u, NoTask) /\ u.fate = "up" /\ u.state[me] = "Running"
      /\ u.proc = q.proc /\ u.pstate[c] = "Dead" /\ u.pcbs = q.pcbs
  BY <1>1, <1>3, RecycleSound
<1>5. ~OwedIn(u, c)
  BY <1>2, <1>4, Zenon DEF Families, OwedIn
<1>6. Forgotten(u, r, p, c)
  BY <1>1, <1>2, <1>4, Forgets, Zenon DEF Sound
<1>7. Sound(r, NoTask) /\ r.state[me] = "Running"
  BY <1>1, <1>4, <1>5, <1>6, ForgetSound
<1>. QED
  BY <1>1, <1>7, ReturnSound, Zenon

\* recycle or reap alone.
LEMMA RecycleOnly ==
    ASSUME NEW q, Sound(q, NoTask), q.fate = "up", Me \in Tasks,
           q.state[Me] = "Running", NEW c \in Pids, c < q.next_tid,
           q.parent[c] = q.proc[Me], NEW r,
           r = recycle(q, c) \/ (q.pstate[c] = "Exited" /\ r = reap(q, c))
    PROVE  /\ Sound(r, NoTask) /\ r.fate = "up" /\ r.state[Me] = "Running"
           /\ r.proc = q.proc /\ r.children = q.children /\ r.parent = q.parent
           /\ r.next_tid = q.next_tid /\ r.tasks = q.tasks
           /\ r.waiting_task = q.waiting_task
<1>1. PICK me : me = Me
  OBVIOUS
<1>2. Recycled(q, r, c)
  BY Recycles, Zenon DEF Sound
<1>. QED
  BY <1>1, <1>2, RecycleSound

\* Registering, then blocking for the child c.
LEMMA WaitChildBlocks ==
    ASSUME NEW q, Sound(q, NoTask), q.fate = "up", Me \in Tasks,
           q.state[Me] = "Running", NEW c \in Pids, c < q.next_tid,
           NEW p, p = q.proc[Me], q.parent[c] = p
    PROVE  Sound(wait_child_blocks(q, p, c), NoTask)
<1>1. PICK me, u : me = Me /\ u = [q EXCEPT !.waiting_task[p] = Append(@, me)]
  BY Zenon
<1>2. Registered(q, u, p, me)
  BY <1>1, Registers, Zenon DEF Sound
<1>3. /\ Sound(u, NoTask) /\ u.state[me] = "Running" /\ u.proc = q.proc
      /\ u.next_tid = q.next_tid /\ u.parent = q.parent
  BY <1>1, <1>2, RegisterSound
<1>4. Sound(BlockAt(u, "wait_child", c), NoTask)
  BY <1>1, <1>3, BlockSound, Zenon
<1>. QED
  BY <1>1, <1>4, Zenon DEF wait_child_blocks

LEMMA WaitChildKeeps ==
    ASSUME IInv, WaitChild
    PROVE  IInv'
<1>1. CanRun /\ Entered.state[Me] = "Running"
  BY Zenon DEF WaitChild, UserCall
<1>2. PICK q, p : q = Entered /\ p = Entered.proc[Me]
  OBVIOUS
<1>3. PICK c \in Entries(q.children[p]), nohang \in BOOLEAN :
         k' = CASE q.pstate[c] = "Exited" -> Return(reap(q, c))
                [] q.pstate[c] # "Exited" /\ nohang -> Return(recycle(q, c))
                [] OTHER -> wait_child_blocks(recycle(q, c), p, c)
  BY <1>2, Zenon DEF WaitChild
<1>4. \/ q.pstate[c] = "Exited" /\ k' = Return(reap(q, c))
      \/ k' = Return(recycle(q, c))
      \/ k' = wait_child_blocks(recycle(q, c), p, c)
  BY <1>3, Zenon
<1>5. /\ Me \in Tasks /\ Sound(q, NoTask) /\ q.fate = "up" /\ q.state[Me] = "Running"
      /\ p = q.proc[Me] /\ p \in Pids
  BY <1>1, <1>2, UserCalls, Zenon
<1>6. c \in Pids /\ c < q.next_tid /\ q.parent[c] = p
  <2>1. Typed(q) /\ Families(q)
    BY <1>5, Zenon DEF Sound
  <2>2. c \in Pids
    BY <1>5, <2>1, TypedLists, Zenon
  <2>. QED
    BY <1>5, <2>1, <2>2, Zenon DEF Families
<1>7. PICK u, v : u = reap(q, c) /\ v = recycle(q, c)
  OBVIOUS
<1>8. /\ Sound(v, NoTask) /\ v.fate = "up" /\ v.state[Me] = "Running"
      /\ v.proc = q.proc /\ v.parent = q.parent /\ v.next_tid = q.next_tid
  BY <1>5, <1>6, <1>7, RecycleOnly
<1>9. q.pstate[c] = "Exited" => Sound(u, NoTask) /\ u.state[Me] = "Running"
  BY <1>5, <1>6, <1>7, RecycleOnly
<1>10. CASE q.pstate[c] = "Exited" /\ k' = Return(u)
  <2>1. Sound(Return(u), NoTask)
    BY <1>5, <1>9, <1>10, ReturnSound, Zenon
  <2>. QED
    BY <1>10, <2>1, Zenon DEF IInv
<1>11. CASE k' = Return(v)
  <2>1. Sound(Return(v), NoTask)
    BY <1>5, <1>8, ReturnSound, Zenon
  <2>. QED
    BY <1>11, <2>1, Zenon DEF IInv
<1>12. CASE k' = wait_child_blocks(v, p, c)
  <2>1. Sound(wait_child_blocks(v, p, c), NoTask)
    BY <1>5, <1>6, <1>8, WaitChildBlocks, Zenon
  <2>. QED
    BY <1>12, <2>1, Zenon DEF IInv
<1>. QED
  BY <1>4, <1>7, <1>10, <1>11, <1>12, Zenon

LEMMA WaitChildResumeKeeps ==
    ASSUME IInv, WaitChildResume
    PROVE  IInv'
<1>1. CanRun /\ k.pc[Me].at = "wait_child"
  BY Zenon DEF WaitChildResume, Resume
<1>2. PICK q, p, c, e : q = Resumed /\ p = k.proc[Me] /\ c = k.pc[Me].arg /\ e = k.event[Me]
  OBVIOUS
<1>3. k' = CASE e.type = "Process" /\ e.arg # c -> wait_child_blocks(q, p, c)
             [] e.type = "Process" /\ e.arg = c /\ k.pstate[c] = "Exited" ->
                  Return(forget_child(reap(q, c), p, c))
             [] e.type = "Process" /\ e.arg = c /\ k.pstate[c] # "Exited" ->
                  Return(recycle(q, c))
             [] e.type = "Signal" -> Return(q)
             [] OTHER -> Panic(q)
  BY <1>2, Zenon DEF WaitChildResume
<1>4. /\ Me \in Tasks /\ Sound(q, NoTask) /\ q.state[Me] = "Running"
      /\ Except(k, q, {"state", "queue", "event"})
      /\ k.state[Me] = "Ready" /\ Sleeping(k) /\ Typed(k) /\ q.fate = "up"
  BY <1>1, <1>2, Resumes, Zenon
<1>5. /\ q.proc = k.proc /\ q.pstate = k.pstate /\ q.parent = k.parent
      /\ q.next_tid = k.next_tid
  BY <1>4, Zenon DEF Except, Fields
<1>6. c \in Pids
  <2>1. k.pc[Me] \in Places
    BY <1>4, Zenon DEF Typed
  <2>. QED
    BY <1>1, <1>2, <2>1 DEF Places, At, User
<1>7. c < q.next_tid /\ q.parent[c] = p /\ p = q.proc[Me]
  BY <1>1, <1>2, <1>4, <1>5, Zenon DEF Sleeping, Alive
<1>8. e.type \in {"Signal", "Process"}
  <2>1. e = Ev("Signal", 0) \/ \E d \in Pids : e = Ev("Process", d)
    BY <1>1, <1>2, <1>4, Zenon DEF Sleeping
  <2>. QED
    BY <2>1 DEF Ev
<1>9. \/ k' = wait_child_blocks(q, p, c)
      \/ q.pstate[c] = "Exited" /\ k' = Return(forget_child(reap(q, c), p, c))
      \/ k' = Return(recycle(q, c))
      \/ k' = Return(q)
  BY <1>3, <1>5, <1>8, Zenon
<1>10. Sound(wait_child_blocks(q, p, c), NoTask)
  BY <1>4, <1>6, <1>7, WaitChildBlocks, Zenon
<1>11. q.pstate[c] = "Exited" => Sound(Return(forget_child(reap(q, c), p, c)), NoTask)
  BY <1>4, <1>6, <1>7, ReapAndForget, Zenon
<1>12. Sound(Return(recycle(q, c)), NoTask)
  <2>1. PICK v : v = recycle(q, c)
    OBVIOUS
  <2>2. Sound(v, NoTask) /\ v.state[Me] = "Running"
    BY <1>4, <1>6, <1>7, <2>1, RecycleOnly
  <2>. QED
    BY <1>4, <2>1, <2>2, ReturnSound, Zenon
<1>13. Sound(Return(q), NoTask)
  BY <1>4, ReturnSound, Zenon
<1>. QED
  BY <1>9, <1>10, <1>11, <1>12, <1>13, Zenon DEF IInv

LEMMA WaitAnyKeeps ==
    ASSUME IInv, WaitAny
    PROVE  IInv'
<1>1. CanRun /\ Entered.state[Me] = "Running"
  BY Zenon DEF WaitAny, UserCall
<1>2. PICK me, q, p, l : me = Me /\ q = Entered /\ p = q.proc[me] /\ l = q.children[p]
  OBVIOUS
<1>3. PICK exited : exited = {i \in 1..Len(l) : q.pstate[l[i]] = "Exited"}
  BY Zenon
<1>4. PICK c, u : /\ c = l[Min(exited)]
                  /\ u = [q EXCEPT !.waiting_task[p] = Append(@, me)]
  BY Zenon
<1>5. PICK nohang \in BOOLEAN :
         k' = CASE exited # {} -> Return(forget_child(reap(q, c), p, c))
                [] exited = {} /\ nohang -> Return(q)
                [] OTHER -> BlockAt(u, "wait_any", 0)
  BY <1>2, <1>3, <1>4, Zenon DEF WaitAny
<1>6. \/ exited # {} /\ k' = Return(forget_child(reap(q, c), p, c))
      \/ k' = Return(q)
      \/ exited = {} /\ k' = BlockAt(u, "wait_any", 0)
  BY <1>5, Zenon
<1>7. /\ me \in Tasks /\ Sound(q, NoTask) /\ q.fate = "up" /\ q.state[me] = "Running"
      /\ p \in Pids
  BY <1>1, <1>2, UserCalls, Zenon
<1>8. Typed(q) /\ Families(q) /\ l \in Seq(Pids)
  BY <1>2, <1>7, Zenon DEF Sound, Typed
<1>9. CASE exited # {} /\ k' = Return(forget_child(reap(q, c), p, c))
  <2>1. exited \in SUBSET Nat
    BY <1>3
  <2>2. Min(exited) \in exited
    BY <1>9, <2>1, MinIn, Zenon
  <2>3. Min(exited) \in 1..Len(l) /\ q.pstate[c] = "Exited"
    BY <1>3, <1>4, <2>2, Zenon
  <2>4. c \in Pids /\ c \in Entries(l)
    BY <1>4, <1>8, <2>3 DEF Entries
  <2>5. c < q.next_tid /\ q.parent[c] = p
    BY <1>2, <1>7, <1>8, <2>4 DEF Families
  <2>6. Sound(Return(forget_child(reap(q, c), p, c)), NoTask)
    BY <1>2, <1>7, <2>3, <2>4, <2>5, ReapAndForget, Zenon
  <2>. QED
    BY <1>9, <2>6, Zenon DEF IInv
<1>10. CASE k' = Return(q)
  <2>1. Sound(Return(q), NoTask)
    BY <1>2, <1>7, ReturnSound, Zenon
  <2>. QED
    BY <1>10, <2>1, Zenon DEF IInv
<1>11. CASE exited = {} /\ k' = BlockAt(u, "wait_any", 0)
  <2>1. \A d \in Entries(q.children[p]) : q.pstate[d] # "Exited"
    <3>1. \A i \in 1..Len(l) : q.pstate[l[i]] # "Exited"
      BY <1>3, <1>11, Zenon
    <3>. QED
      BY <1>2, <3>1 DEF Entries
  <2>2. Registered(q, u, p, me)
    BY <1>4, <1>8, Registers, Zenon
  <2>3. /\ Sound(u, NoTask) /\ u.state[me] = "Running" /\ u.proc = q.proc
        /\ me \in Entries(u.waiting_task[p])
        /\ u.children = q.children /\ u.pstate = q.pstate
    BY <1>2, <1>7, <2>2, RegisterSound
  <2>4. Sound(BlockAt(u, "wait_any", 0), NoTask)
    BY <1>2, <1>7, <2>1, <2>3, BlockSound, Zenon
  <2>. QED
    BY <1>11, <2>4, Zenon DEF IInv
<1>. QED
  BY <1>6, <1>9, <1>10, <1>11, Zenon

LEMMA WaitAnyResumeKeeps ==
    ASSUME IInv, WaitAnyResume
    PROVE  IInv'
<1>1. CanRun /\ k.pc[Me].at = "wait_any"
  BY Zenon DEF WaitAnyResume, Resume
<1>2. PICK me, q, p, e, c : /\ me = Me /\ q = Resumed /\ p = k.proc[Me]
                            /\ e = k.event[Me] /\ c = e.arg
  OBVIOUS
<1>3. PICK mine \in BOOLEAN : mine <=> c \in Entries(k.children[p])
  BY Zenon
<1>4. k' = CASE e.type = "Process" /\ mine /\ k.pstate[c] = "Exited" ->
                  Return(forget_child(reap(q, c), p, c))
             [] e.type = "Process" /\ mine /\ k.pstate[c] # "Exited" ->
                  BlockAt(recycle(q, c), "wait_any", 0)
             [] e.type = "Process" /\ ~mine -> BlockAt(q, "wait_any", 0)
             [] e.type = "Signal" -> Return(q)
             [] OTHER -> Panic(q)
  BY <1>2, <1>3, Zenon DEF WaitAnyResume
<1>5. /\ me \in Tasks /\ Sound(q, NoTask) /\ q.state[me] = "Running"
      /\ Except(k, q, {"state", "queue", "event"})
      /\ k.state[me] = "Ready" /\ Sleeping(k) /\ Waiting(k) /\ Families(k) /\ Typed(k)
      /\ q.fate = "up"
  BY <1>1, <1>2, Resumes, Zenon
<1>6. /\ q.proc = k.proc /\ q.pstate = k.pstate /\ q.parent = k.parent /\ q.pc = k.pc
      /\ q.next_tid = k.next_tid /\ q.tasks = k.tasks /\ q.children = k.children
      /\ p = q.proc[me]
  BY <1>2, <1>5, Zenon DEF Except, Fields
<1>7. \/ e.type = "Signal"
      \/ e.type = "Process" /\ e = Ev("Process", c) /\ c \in Pids
  <2>1. e = Ev("Signal", 0) \/ \E d \in Pids : e = Ev("Process", d)
    BY <1>1, <1>2, <1>5, Zenon DEF Sleeping
  <2>2. CASE e = Ev("Signal", 0)
    BY ONLY <2>2, Zenon DEF Ev
  <2>3. ASSUME NEW d \in Pids, e = Ev("Process", d)
        PROVE  e.type = "Process" /\ e = Ev("Process", c) /\ c \in Pids
    <3>1. e.type = "Process" /\ e.arg = d
      BY ONLY <2>3, Zenon DEF Ev
    <3>. QED
      BY <1>2, <2>3, <3>1, Zenon
  <2>. QED
    BY <2>1, <2>2, <2>3, Zenon
<1>8. \/ /\ c \in Pids /\ mine /\ q.pstate[c] = "Exited"
         /\ k' = Return(forget_child(reap(q, c), p, c))
      \/ /\ c \in Pids /\ mine /\ q.pstate[c] # "Exited" /\ e = Ev("Process", c)
         /\ k' = BlockAt(recycle(q, c), "wait_any", 0)
      \/ /\ c \in Pids /\ ~mine /\ e = Ev("Process", c) /\ k' = BlockAt(q, "wait_any", 0)
      \/ k' = Return(q)
  BY <1>4, <1>6, <1>7, Zenon
<1>9. mine => c < q.next_tid /\ q.parent[c] = p
  <2>1. p \in Pids
    BY <1>2, <1>5, Zenon DEF Typed
  <2>. QED
    BY <1>3, <1>5, <1>6, <2>1 DEF Families
<1>10. c \in Pids /\ e = Ev("Process", c) /\ ~(mine /\ q.pstate[c] = "Exited") =>
           ~(q.proc[me] # INIT /\ Len(q.tasks[q.proc[me]]) = 1)
  <2>1. SUFFICES ASSUME c \in Pids, e = Ev("Process", c), q.proc[me] # INIT,
                        Len(q.tasks[q.proc[me]]) = 1
                 PROVE  mine /\ q.pstate[c] = "Exited"
    OBVIOUS
  <2>2. AloneAt(k, me)
    BY <1>1, <1>2, <1>6, <2>1, Zenon DEF AloneAt
  <2>3. c \in Entries(k.children[k.proc[me]]) /\ k.pstate[c] = "Exited"
    BY <1>2, <1>5, <2>1, <2>2, Zenon DEF Waiting
  <2>. QED
    BY <1>2, <1>3, <1>6, <2>3, Zenon
<1>11. CASE /\ c \in Pids /\ mine /\ q.pstate[c] = "Exited"
            /\ k' = Return(forget_child(reap(q, c), p, c))
  <2>1. Sound(Return(forget_child(reap(q, c), p, c)), NoTask)
    BY <1>2, <1>5, <1>6, <1>9, <1>11, ReapAndForget, Zenon
  <2>. QED
    BY <1>11, <2>1, Zenon DEF IInv
<1>12. CASE /\ c \in Pids /\ mine /\ q.pstate[c] # "Exited" /\ e = Ev("Process", c)
            /\ k' = BlockAt(recycle(q, c), "wait_any", 0)
  <2>1. PICK v : v = recycle(q, c)
    OBVIOUS
  <2>2. /\ Sound(v, NoTask) /\ v.state[Me] = "Running"
        /\ v.proc = q.proc /\ v.tasks = q.tasks
    <3>1. /\ Me \in Tasks /\ q.state[Me] = "Running" /\ q.parent[c] = q.proc[Me]
          /\ c \in Pids /\ c < q.next_tid
      BY <1>2, <1>5, <1>6, <1>9, <1>12, Zenon
    <3>. QED
      BY ONLY <1>5, <2>1, <3>1, RecycleOnly
  <2>3. ~(v.proc[Me] # INIT /\ Len(v.tasks[v.proc[Me]]) = 1)
    BY <1>2, <1>10, <1>12, <2>2, Zenon
  <2>4. Sound(BlockAt(v, "wait_any", 0), NoTask)
    BY <1>2, <1>5, <2>2, <2>3, BlockSound, Zenon
  <2>. QED
    BY <1>12, <2>1, <2>4, Zenon DEF IInv
<1>13. CASE c \in Pids /\ ~mine /\ e = Ev("Process", c) /\ k' = BlockAt(q, "wait_any", 0)
  <2>1. ~(q.proc[Me] # INIT /\ Len(q.tasks[q.proc[Me]]) = 1)
    BY <1>2, <1>10, <1>13, Zenon
  <2>2. Sound(BlockAt(q, "wait_any", 0), NoTask)
    BY <1>2, <1>5, <2>1, BlockSound, Zenon
  <2>. QED
    BY <1>13, <2>2, Zenon DEF IInv
<1>14. CASE k' = Return(q)
  <2>1. Sound(Return(q), NoTask)
    BY <1>2, <1>5, ReturnSound, Zenon
  <2>. QED
    BY <1>14, <2>1, Zenon DEF IInv
<1>. QED
  BY <1>8, <1>11, <1>12, <1>13, <1>14, Zenon

-----------------------------------------------------------------------------
(* The invariant and the theorems.                                          *)

\* create_initprocess leaves one process with one task.
LEMMA InitIInv == Init => IInv
<1>1. SUFFICES ASSUME Init PROVE IInv
  OBVIOUS
<1>2. PICK q : q = k
  OBVIOUS
<1>3. IsKernel(q)
  BY <1>1, <1>2, Zenon DEF Init, IsKernel, Fields
<1>4. /\ q.load \in DOMAIN Workloads
      /\ q.state = [t \in Tasks |-> IF t = INIT THEN "Ready" ELSE "None"]
      /\ q.event = [t \in Tasks |-> NoEvent]
      /\ q.queue = <<INIT>>
      /\ q.pc = [t \in Tasks |-> User]
      /\ q.tid = [t \in Tasks |-> IF t = INIT THEN INIT ELSE 0]
      /\ q.proc = [t \in Tasks |-> INIT]
      /\ q.next_tid = INIT + 1
      /\ q.vfork = [t \in Tasks |-> NoTask]
  BY <1>1, <1>2 DEF Init
<1>5. /\ q.pending_signal = [t \in Tasks |-> NoSignal]
      /\ q.signal_to_wait = [t \in Tasks |-> {}]
      /\ q.pstate = [p \in Pids |-> IF p = INIT THEN "Running" ELSE "None"]
      /\ q.parent = [p \in Pids |-> INIT]
      /\ q.children = [p \in Pids |-> <<>>]
      /\ q.tasks = [p \in Pids |-> IF p = INIT THEN <<INIT>> ELSE <<>>]
      /\ q.waiting_task = [p \in Pids |-> <<>>]
      /\ q.pending = [p \in Pids |-> <<>>]
      /\ q.pcbs = {INIT}
      /\ q.reaped = [p \in Pids |-> 0]
      /\ q.kills = 0
      /\ q.fate = "up"
  BY <1>1, <1>2 DEF Init
<1>6. /\ INIT \in Tasks /\ INIT = 1 /\ Pids = Tasks /\ \A t \in Tasks : t \in Nat /\ t # 0
      /\ q.next_tid = 2 /\ 2 \in 2..(Cardinality(Tasks) + 1)
  BY <1>4, TaskNumbers DEF INIT, Last
<1>8. /\ <<INIT>> \in Seq(Tasks) /\ Entries(<<INIT>>) = {INIT} /\ Len(<<INIT>>) = 1
      /\ Entries(<<>>) = {} /\ Len(<<>>) = 0
  BY <1>6 DEF Entries
<1>9. Typed(q)
  <2>1. /\ q.state \in [Tasks -> TaskState] /\ q.event \in [Tasks -> Events]
        /\ q.queue \in Seq(Tasks) /\ q.pc \in [Tasks -> Places]
    BY <1>4, <1>8 DEF TaskState, Events, Places
  <2>2. /\ q.tid \in [Tasks -> Nat] /\ q.proc \in [Tasks -> Pids]
        /\ q.vfork \in [Tasks -> Tasks \cup {NoTask}]
        /\ q.pending_signal \in [Tasks -> Sigs \cup {NoSignal}]
    BY <1>4, <1>5, <1>6
  <2>3. /\ q.pstate \in [Pids -> {"None", "Running", "Exited", "Dead"}]
        /\ q.parent \in [Pids -> Pids] /\ q.children \in [Pids -> Seq(Pids)]
        /\ q.waiting_task \in [Pids -> Seq(Tasks)]
        /\ q.pending \in [Pids -> Seq(Sigs)]
        /\ q.pcbs \in SUBSET Pids /\ q.reaped \in [Pids -> 0..1]
    BY <1>5, <1>6
  <2>4. q.tasks \in [Pids -> Seq(Tasks)]
    BY <1>5, <1>8
  <2>5. q.kills \in Nat /\ q.fate \in {"up", "halted"}
    BY <1>5
  <2>. QED
    BY <1>3, <1>4, <1>5, <1>6, <2>1, <2>2, <2>3, <2>4, <2>5, Zenon DEF Typed
<1>10. \A t \in Tasks : q.vfork[t] = NoTask /\ q.pc[t] = User /\ q.proc[t] = INIT
                        /\ (q.state[t] # "None" => t = INIT)
  BY <1>4, Zenon
<1>11. \A p \in Pids : /\ Entries(q.children[p]) = {} /\ Len(q.children[p]) = 0
                       /\ Entries(q.waiting_task[p]) = {} /\ Len(q.pending[p]) = 0
                       /\ Entries(q.tasks[p]) = (IF p = INIT THEN {INIT} ELSE {})
                       /\ Len(q.tasks[p]) <= 1
  <2>1. \A p \in Pids : q.tasks[p] = (IF p = INIT THEN <<INIT>> ELSE <<>>)
    BY <1>5, Zenon
  <2>2. 1 <= 1 /\ 0 <= 1
    OBVIOUS
  <2>3. \A p \in Pids : /\ q.children[p] = <<>> /\ q.waiting_task[p] = <<>>
                        /\ q.pending[p] = <<>>
    BY <1>5, Zenon
  <2>. QED
    BY ONLY <1>8, <2>1, <2>2, <2>3, Zenon
<1>12. Queueing(q)
  <2>1. TidsDiffer(q.queue, q.tid)
    BY <1>4, <1>8 DEF TidsDiffer
  <2>2. \A t \in Tasks : Active(q, t) => t = INIT
    BY <1>4, <1>8, <1>10, NoTaskAssumption DEF Active, Alive, Waits
  <2>3. \A t \in Entries(q.queue) : q.state[t] \in {"Ready", "Exited"}
    BY <1>4, <1>6, <1>8
  <2>. QED
    BY <1>10, <2>1, <2>2, <2>3, Zenon DEF Queueing
<1>13. Fresh(q)
  <2>1. \A t \in Tasks : q.tid[t] < 2 /\ q.proc[t] < 2
    BY <1>4, <1>6
  <2>2. \A t \in Tasks : t # INIT => 2 <= t
    BY ONLY <1>6
  <2>3. \A p \in Pids : 2 <= p => p # INIT
    BY ONLY <1>6
  <2>. QED
    BY <1>4, <1>5, <1>6, <1>10, <2>1, <2>2, <2>3 DEF Fresh
<1>14. Families(q)
  <2>1. \A p \in Pids : OwedIn(q, p) => p = INIT
    BY <1>5, Zenon DEF OwedIn
  <2>. QED
    BY <1>5, <1>6, <1>11, <2>1 DEF Families
<1>15. Threads(q)
  BY <1>4, <1>5, <1>6, <1>10, <1>11 DEF Threads, Alive
<1>16. Sleeping(q) /\ Waiting(q)
  <2>1. \A t \in Tasks : q.pc[t].at = "user" /\ q.state[t] \in {"Ready", "None"}
    BY <1>4 DEF User
  <2>. QED
    BY <2>1, Zenon DEF Sleeping, Waiting, AloneAt
<1>17. Peaceful(q) /\ VForked(q, NoTask)
  <2>1. /\ \A t \in Tasks : q.pending_signal[t] = NoSignal
        /\ \A t \in Tasks : q.state[t] # "BlockedUninterruptible"
    BY <1>4, <1>5
  <2>. QED
    BY <1>11, <2>1 DEF Peaceful, VForked
<1>. QED
  BY <1>2, <1>9, <1>12, <1>13, <1>14, <1>15, <1>16, <1>17, Zenon DEF IInv, Sound

LEMMA NextIInv == IInv /\ [Next]_k => IInv'
<1>1. SUFFICES ASSUME IInv, [Next]_k PROVE IInv'
  OBVIOUS
<1>2. CASE UNCHANGED k
  BY <1>1, <1>2, Zenon DEF IInv
<1>3. CASE DropFetched
  BY <1>1, <1>3, DropKeeps, Zenon
<1>4. CASE KilledInUserMode
  BY <1>1, <1>4, KilledKeeps, Zenon
<1>5. CASE Yield
  BY <1>1, <1>5, YieldKeeps, Zenon
<1>6. CASE Fork
  BY <1>1, <1>6, ForkKeeps, Zenon
<1>7. CASE Thread
  BY <1>1, <1>7, ThreadKeeps, Zenon
<1>8. CASE CloneFault
  BY <1>1, <1>8, CloneFaultKeeps, Zenon
<1>9. CASE VFork
  BY <1>1, <1>9, VForkKeeps, Zenon
<1>10. CASE VForkResume
  BY <1>1, <1>10, VForkResumeKeeps, Zenon
<1>11. CASE Exec
  BY <1>1, <1>11, ExecKeeps, Zenon
<1>12. CASE Exit
  BY <1>1, <1>12, ExitKeeps, Zenon
<1>13. CASE ExitGroup
  BY <1>1, <1>13, ExitGroupKeeps, Zenon
<1>14. CASE Kill
  BY <1>1, <1>14, KillKeeps, Zenon
<1>15. CASE TgKill
  BY <1>1, <1>15, TgKillKeeps, Zenon
<1>16. CASE WaitChild
  BY <1>1, <1>16, WaitChildKeeps, Zenon
<1>17. CASE WaitChildResume
  BY <1>1, <1>17, WaitChildResumeKeeps, Zenon
<1>18. CASE WaitAny
  BY <1>1, <1>18, WaitAnyKeeps, Zenon
<1>19. CASE WaitAnyResume
  BY <1>1, <1>19, WaitAnyResumeKeeps, Zenon
<1>. QED
  BY <1>1, <1>2, <1>3, <1>4, <1>5, <1>6, <1>7, <1>8, <1>9, <1>10, <1>11, <1>12, <1>13,
     <1>14, <1>15, <1>16, <1>17, <1>18, <1>19, Zenon DEF Next

\* IInv is an invariant of the processes, for any number of tasks and any workload.
THEOREM ProcessInvariant == Spec => []IInv
<1>1. Init => IInv
  BY InitIInv, Zenon
<1>2. IInv /\ [Next]_k => IInv'
  BY NextIInv, Zenon
<1>. QED
  BY <1>1, <1>2, PTL DEF Spec


-----------------------------------------------------------------------------
(* The properties of Process.                                               *)

LEMMA IInvTypes == IInv => TypeOK /\ ReapedOnce
<1>. SUFFICES ASSUME IInv PROVE TypeOK /\ ReapedOnce
  OBVIOUS
<1>1. Typed(k) /\ Fresh(k)
  BY Zenon DEF IInv, Sound
<1>2. /\ k.state \in [Tasks -> TaskState] /\ k.event \in [Tasks -> Events]
      /\ k.pc \in [Tasks -> Places] /\ k.tid \in [Tasks -> Nat]
      /\ k.proc \in [Tasks -> Pids] /\ k.vfork \in [Tasks -> Tasks \cup {NoTask}]
      /\ k.pstate \in [Pids -> {"None", "Running", "Exited", "Dead"}]
      /\ k.parent \in [Pids -> Pids] /\ k.pcbs \in SUBSET Pids
      /\ k.reaped \in [Pids -> 0..1] /\ k.fate \in {"up", "halted"}
      /\ k.next_tid \in 2..(Last + 1)
  BY <1>1, Zenon DEF Typed, Last
<1>3. \A t \in Tasks : k.event[t] = NoEvent
                       \/ k.event[t].type \in {"Process", "Signal", "VFork"}
  <2>1. \A e \in Events : e = NoEvent \/ e.type \in {"Process", "Signal", "VFork"}
    BY DEF Events, Ev
  <2>. QED
    BY <1>2, <2>1, Zenon
<1>4. \A t \in Tasks : k.pc[t].at \in Pcs /\ k.pc[t].arg \in Pids \cup {0, NoTask}
  <2>1. \A a \in Places : a.at \in Pcs /\ a.arg \in Pids \cup {0, NoTask}
    BY DEF Places, Pcs, User, At
  <2>. QED
    BY <1>2, <2>1, Zenon
<1>5. k.tid \in [Tasks -> 0..Cardinality(Tasks)]
  <2>1. Last \in Nat /\ \A t \in Tasks : k.tid[t] \in Nat /\ k.tid[t] < k.next_tid
    BY <1>1, <1>2, TaskNumbers, Zenon DEF Fresh
  <2>2. \A t \in Tasks : k.tid[t] \in 0..Last
    BY ONLY <1>2, <2>1
  <2>. QED
    BY <1>2, <2>2, Zenon DEF Last
<1>6. /\ Entries(k.queue) \subseteq Tasks
      /\ \A p \in Pids : /\ Entries(k.children[p]) \subseteq Pids
                         /\ Entries(k.tasks[p]) \subseteq Tasks
                         /\ Entries(k.waiting_task[p]) \subseteq Tasks
  <2>1. INIT \in Pids
    BY TaskNumbers, Zenon
  <2>. QED
    BY <1>1, <2>1, TypedLists, Zenon
<1>7. ReapedOnce
  BY <1>2 DEF ReapedOnce
<1>. QED
  BY <1>2, <1>3, <1>4, <1>5, <1>6, <1>7, Zenon DEF TypeOK

LEMMA IInvFamilies == IInv => FamilyTree /\ NoOrphanThread
<1>. SUFFICES ASSUME IInv, k.fate = "up" PROVE FamilyTree /\ NoOrphanThread
  BY Zenon DEF FamilyTree, NoOrphanThread
<1>1. Typed(k) /\ Families(k) /\ Threads(k)
  BY Zenon DEF IInv, Sound
<1>2. ASSUME NEW c \in Pids \ {INIT}, Owed(c)
      PROVE  /\ k.parent[c] \in k.pcbs
             /\ LET siblings == k.children[k.parent[c]]
                IN  \E i \in DOMAIN siblings : \A j \in DOMAIN siblings :
                       siblings[j] = c <=> j = i
             /\ \A p \in Pids \ {k.parent[c]} : c \notin Entries(k.children[p])
  <2>1. k.parent[c] \in k.pcbs /\ c \in Entries(k.children[k.parent[c]])
    BY <1>1, <1>2, Zenon DEF Families, Owed, OwedIn
  <2>2. k.parent[c] \in Pids /\ k.children \in [Pids -> Seq(Pids)]
    BY <1>1, Zenon DEF Typed
  <2>3. PICK s : s = k.children[k.parent[c]]
    OBVIOUS
  <2>4. DOMAIN s = 1..Len(s)
    BY <2>2, <2>3
  <2>5. \A i, j \in 1..Len(s) : s[i] = s[j] => i = j
    BY <1>1, <2>2, <2>3 DEF Families
  <2>6. \E i \in 1..Len(s) : s[i] = c
    BY <2>1, <2>3, Zenon DEF Entries
  <2>7. \E i \in DOMAIN s : \A j \in DOMAIN s : s[j] = c <=> j = i
    BY ONLY <2>4, <2>5, <2>6, Zenon
  <2>8. \A p \in Pids : c \in Entries(k.children[p]) => p = k.parent[c]
    BY <1>1, Zenon DEF Families
  <2>. QED
    BY <2>1, <2>3, <2>7, <2>8, Zenon
<1>3. FamilyTree
  BY <1>2, Zenon DEF FamilyTree
<1>4. NoOrphanThread
  BY <1>1, Zenon DEF NoOrphanThread, Threads, Alive, Live
<1>. QED
  BY <1>3, <1>4, Zenon

\* The families stay whole: no exit code is handed out twice, every process that
\* runs or waits to be reaped is listed exactly once, by its parent, which is
\* alive, and every thread that has not exited belongs to a process of PCBS.
THEOREM ProcessFamilies == Spec => []FamiliesSound
<1>1. IInv => FamiliesSound
  BY IInvTypes, IInvFamilies, Zenon DEF FamiliesSound
<1>. QED
  BY <1>1, ProcessInvariant, PTL

\* No assertion fires: push_task never finds the tid queued already, although
\* execve hands the tid of its caller on, and every block ends with an event its
\* match knows.
THEOREM ProcessAssertions == Spec => []AssertionsHold
<1>1. IInv => AssertionsHold
  BY Zenon DEF IInv, Sound, Typed, Queueing, AssertionsHold, QueueTidsDiffer, NoPanic
<1>. QED
  BY <1>1, ProcessInvariant, PTL

\* Nobody sleeps for an event that has been: in wait_any_child for an exit that
\* came between the look and the block, in vfork for a child that is gone.
THEOREM ProcessSleepers == Spec => []SleepersHaveReason
<1>1. IInv => SleepersHaveReason
  <2>. SUFFICES ASSUME IInv, k.fate = "up" PROVE WaitAnySeesExits /\ VForkParentHasChild
    BY Zenon DEF SleepersHaveReason, WaitAnySeesExits, VForkParentHasChild, VForkHasChild
  <2>1. Waiting(k) /\ VForked(k, NoTask)
    BY Zenon DEF IInv, Sound
  <2>2. WaitAnySeesExits
    BY <2>1, Zenon DEF WaitAnySeesExits, Waiting, AloneAt
  <2>3. VForkParentHasChild
    <3>1. \A c \in Tasks : c # NoTask
      BY NoTaskAssumption, Zenon
    <3>2. Never({"kill", "tgkill", "thread"}) => Quiet(k)
      BY Zenon DEF Never, Load, Quiet
    <3>. QED
      BY <2>1, <3>1, <3>2, Zenon DEF VForkParentHasChild, VForkHasChild, VForked, Alive, Live
  <2>. QED
    BY <2>2, <2>3, Zenon
<1>. QED
  BY <1>1, ProcessInvariant, PTL


=============================================================================
