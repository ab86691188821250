---------------------------- MODULE ProcessCalls ----------------------------
(***************************************************************************)
(* Proofs about Process: the calls that replace, end or clone the calling  *)
(* task keep the invariant of ProcessProofs.                               *)
(***************************************************************************)
EXTENDS ProcessProofs

-----------------------------------------------------------------------------
(* vfork ends, exit, exec.                                                  *)

\* The parent v of me is pushed, readied if it is still blocked.
Released(q, r, me, v) ==
    /\ Except(q, r, {"vfork", "queue", "state", "event"})
    /\ r.vfork = [q.vfork EXCEPT ![me] = NoTask]
    /\ r.queue = Append(q.queue, v)
    /\ \/ /\ q.state[v] = "BlockedUninterruptible"
          /\ r.state = [q.state EXCEPT ![v] = "Ready"]
          /\ r.event = [q.event EXCEPT ![v] = Ev("VFork", 0)]
       \/ q.state[v] = "Exited" /\ r.state = q.state /\ r.event = q.event

LEMMA Releases ==
    ASSUME NEW q, Typed(q), Queueing(q), NEW me \in Tasks, NEW v \in Tasks, q.vfork[me] = v,
           NEW r, r = wake_parent_waiting_vfork(q, me)
    PROVE  Released(q, r, me, v)
<1>1. /\ IsKernel(q) /\ v # NoTask
      /\ q.state[v] \in {"BlockedUninterruptible", "Exited"}
  BY NoTaskAssumption, Zenon DEF Queueing, Typed
<1>2. PICK u, e : u = [q EXCEPT !.vfork[me] = NoTask] /\ e = Ev("VFork", 0)
  BY Zenon
<1>3. u = [q EXCEPT !.vfork = [q.vfork EXCEPT ![me] = NoTask]]
  BY <1>1, <1>2, Zenon DEF IsKernel, Fields
<1>4. /\ Except(q, u, {"vfork"}) /\ u.vfork = [q.vfork EXCEPT ![me] = NoTask]
      /\ u.state = q.state /\ u.queue = q.queue /\ u.event = q.event /\ IsKernel(u)
  BY <1>1, <1>3, Zenon DEF Except, IsKernel, Fields
<1>5. r = wakeup_task_uninterruptible(u, v, e)
  BY <1>1, <1>2, Zenon DEF wake_parent_waiting_vfork
<1>6. CASE q.state[v] = "BlockedUninterruptible"
  <2>1. r = [u EXCEPT !.state = [u.state EXCEPT ![v] = "Ready"],
                      !.event = [u.event EXCEPT ![v] = e],
                      !.queue = Append(u.queue, v)]
    BY <1>4, <1>5, <1>6, Zenon DEF wakeup_task_uninterruptible, push_task, IsKernel, Fields
  <2>2. /\ Except(u, r, {"queue", "state", "event"}) /\ r.vfork = u.vfork
        /\ r.queue = Append(u.queue, v)
        /\ r.state = [u.state EXCEPT ![v] = "Ready"]
        /\ r.event = [u.event EXCEPT ![v] = e]
    <3>1. IsKernel(u)
      BY <1>4, Zenon
    <3>2. PICK x, y, z : /\ x = [u.state EXCEPT ![v] = "Ready"]
                         /\ y = [u.event EXCEPT ![v] = e] /\ z = Append(u.queue, v)
      BY Zenon
    <3>3. r = [u EXCEPT !.state = x, !.event = y, !.queue = z]
      BY ONLY <2>1, <3>2
    <3>4. /\ Except(u, r, {"queue", "state", "event"}) /\ r.vfork = u.vfork
          /\ r.queue = z /\ r.state = x /\ r.event = y
      BY ONLY <3>1, <3>3, Zenon DEF Except, IsKernel, Fields
    <3>. QED
      BY <3>2, <3>4, Zenon
  <2>3. Except(q, r, {"vfork", "queue", "state", "event"})
    BY <1>4, <2>2, ExceptTwice
  <2>. QED
    BY <1>2, <1>4, <1>6, <2>2, <2>3, Zenon DEF Released
<1>7. CASE q.state[v] = "Exited"
  <2>1. r = [u EXCEPT !.queue = Append(u.queue, v)]
    BY <1>4, <1>5, <1>7, Zenon DEF wakeup_task_uninterruptible, push_task, IsKernel, Fields
  <2>2. /\ Except(u, r, {"queue", "state", "event"}) /\ r.vfork = u.vfork
        /\ r.queue = Append(u.queue, v) /\ r.state = u.state /\ r.event = u.event
    BY <1>4, <2>1, Zenon DEF Except, IsKernel, Fields
  <2>3. Except(q, r, {"vfork", "queue", "state", "event"})
    BY <1>4, <2>2, ExceptTwice
  <2>. QED
    BY <1>4, <1>7, <2>2, <2>3, Zenon DEF Released
<1>. QED
  BY <1>1, <1>6, <1>7, Zenon

LEMMA ReleaseSound ==
    ASSUME NEW q, NEW me \in Tasks, Sound(q, me),
           NEW r, r = wake_parent_waiting_vfork(q, me)
    PROVE  Sound(r, NoTask)
<1>0. Typed(q) /\ Queueing(q) /\ Fresh(q)
  BY Zenon DEF Sound
<1>1. CASE q.vfork[me] = NoTask
  <2>1. r = q
    BY <1>1, Zenon DEF wake_parent_waiting_vfork
  <2>2. VForked(q, me) => VForked(q, NoTask)
    BY <1>1, NoTaskAssumption, Zenon DEF VForked
  <2>. QED
    BY <2>1, <2>2, Zenon DEF Sound
<1>2. CASE q.vfork[me] # NoTask
  <2>1. PICK v \in Tasks : v = q.vfork[me]
    BY <1>0, <1>2, Zenon DEF Typed
  <2>2. Released(q, r, me, v)
    BY <1>0, <2>1, Releases, Zenon
  <2>3. /\ q.state \in [Tasks -> TaskState] /\ q.event \in [Tasks -> Events]
        /\ q.queue \in Seq(Tasks) /\ q.vfork \in [Tasks -> Tasks \cup {NoTask}]
        /\ v \notin Entries(q.queue) /\ NoTask \notin Tasks
    BY <1>0, <1>2, <2>1, NoTaskAssumption, Zenon DEF Typed, Queueing
  <2>4. r.queue \in Seq(Tasks) /\ Entries(r.queue) = Entries(q.queue) \cup {v}
    BY <2>2, <2>3, PushEntries DEF Released
  <2>5. /\ r.state[v] \in {"Ready", "Exited"} /\ q.state[v] # "None"
        /\ r.state[v] = "Ready" => /\ r.event[v] = Ev("VFork", 0)
                                   /\ q.state[v] = "BlockedUninterruptible"
        /\ r.state[v] = "Exited" => q.state[v] = "Exited"
        /\ \A t \in Tasks : t # v => r.state[t] = q.state[t] /\ r.event[t] = q.event[t]
    BY <2>2, <2>3, Zenon DEF Released
  <2>6. /\ r.vfork[me] = NoTask /\ \A c \in Tasks : c # me => r.vfork[c] = q.vfork[c]
        /\ r.vfork \in [Tasks -> Tasks \cup {NoTask}]
    BY <2>2, <2>3, Zenon DEF Released
  <2>7. \A c \in Tasks : c # me => q.vfork[c] # v
    BY <1>0, <1>2, <2>1, Zenon DEF Queueing
  <2>8. /\ r.tid = q.tid /\ r.proc = q.proc /\ r.next_tid = q.next_tid /\ r.pc = q.pc
        /\ r.pcbs = q.pcbs /\ r.reaped = q.reaped /\ r.pstate = q.pstate
        /\ r.children = q.children /\ r.waiting_task = q.waiting_task /\ r.tasks = q.tasks
        /\ r.parent = q.parent /\ r.load = q.load /\ r.fate = q.fate
    BY <2>2 DEF Released, Except, Fields
  <2>9. \A t \in Tasks : Alive(r, t) <=> Alive(q, t)
    BY <2>5, Zenon DEF Alive
  <2>10. Typed(r)
    <3>1. r.state \in [Tasks -> TaskState] /\ r.event \in [Tasks -> Events]
      <4>1. Ev("VFork", 0) \in Events /\ "Ready" \in TaskState
        BY Zenon DEF Events, TaskState
      <4>. QED
        BY <2>2, <2>3, <4>1, SMTT(30) DEF Released
    <3>2. Except(q, r, {"vfork", "queue", "state", "event"})
      BY <2>2, Zenon DEF Released
    <3>. QED
      BY <1>0, <2>4, <2>6, <3>1, <3>2, TypedExcept, Zenon
  <2>11. Queueing(r)
    <3>1. Entries(q.queue) \subseteq Tasks
      BY <2>3, EntriesIn, Zenon
    <3>2. \A t \in Tasks : Waits(r, t) => Waits(q, t)
      BY <2>3, <2>6, Zenon DEF Waits
    <3>3. Waits(q, v)
      BY <2>1, Zenon DEF Waits
    <3>4. \A t \in Tasks : Active(r, t) => Active(q, t)
      BY <2>4, <2>9, <3>2, <3>3, Zenon DEF Active
    <3>5. TidsDiffer(r.queue, q.tid)
      <4>1. \A u \in Entries(q.queue) : Active(q, u) /\ u # v
        BY <2>3, Zenon DEF Active
      <4>2. \A u \in Entries(q.queue) : q.tid[u] # q.tid[v]
        BY <1>0, <3>1, <3>3, <4>1, Zenon DEF Queueing, Active
      <4>3. TidsDiffer(q.queue, q.tid) /\ r.queue = Append(q.queue, v)
        BY <1>0, <2>2, Zenon DEF Queueing, Released
      <4>. QED
        BY <2>3, <4>2, <4>3, PushTids, Zenon
    <3>6. \A t \in Entries(r.queue) : r.state[t] \in {"Ready", "Exited"}
      BY <1>0, <2>4, <2>5, <3>1, Zenon DEF Queueing
    <3>7. \A c \in Tasks : r.vfork[c] # NoTask =>
            /\ r.state[r.vfork[c]] \in {"BlockedUninterruptible", "Exited"}
            /\ r.vfork[c] \notin Entries(r.queue)
      <4>. TAKE c \in Tasks
      <4>. HAVE r.vfork[c] # NoTask
      <4>1. c # me /\ r.vfork[c] = q.vfork[c]
        BY <2>6, Zenon
      <4>2. q.vfork[c] # v /\ q.vfork[c] \in Tasks
        BY <2>3, <2>7, <4>1, Zenon
      <4>3. /\ q.state[q.vfork[c]] \in {"BlockedUninterruptible", "Exited"}
            /\ q.vfork[c] \notin Entries(q.queue)
        BY <1>0, <4>1, Zenon DEF Queueing
      <4>. QED
        BY <2>4, <2>5, <4>1, <4>2, <4>3, Zenon
    <3>8. \A c, d \in Tasks : r.vfork[c] # NoTask /\ r.vfork[c] = r.vfork[d] => c = d
      BY <1>0, <2>6 DEF Queueing
    <3>. QED
      BY <1>0, <2>8, <3>4, <3>5, <3>6, <3>7, <3>8, Zenon DEF Queueing
  <2>12. Fresh(r)
    BY <1>0, <2>5, <2>6, <2>8 DEF Fresh
  <2>13. CASE q.fate # "up"
    BY <2>8, <2>10, <2>11, <2>12, <2>13, Zenon DEF Sound
  <2>14. CASE q.fate = "up"
    <3>0. /\ Families(q) /\ Threads(q) /\ Sleeping(q) /\ Waiting(q)
          /\ Peaceful(q) /\ VForked(q, me)
          /\ Except(q, r, {"vfork", "queue", "state", "event"})
      BY <2>2, <2>14, Zenon DEF Sound, Released
    <3>1. Families(r) /\ Peaceful(r)
      BY <3>0, Frames
    <3>2. Threads(r)
      <4>1. \A p \in Pids : Entries(q.tasks[p]) \cup Entries(q.waiting_task[p]) \subseteq Tasks
        BY <1>0, TypedLists, Zenon
      <4>2. \A t \in Tasks : q.state[t] # "None" => r.state[t] # "None"
        BY <2>5, Zenon
      <4>. QED
        BY <2>8, <2>9, <3>0, <4>1, <4>2 DEF Threads
    <3>3. r.state[v] = "Ready" => q.pc[v].at = "vfork"
      BY <2>5, <3>0, Zenon DEF Sleeping
    <3>4. Sleeping(r)
      BY <2>5, <2>8, <2>9, <3>0, <3>3 DEF Sleeping
    <3>5. Waiting(r)
      BY <2>5, <2>8, <3>0, <3>3 DEF Waiting, AloneAt
    <3>6. VForked(r, NoTask)
      <4>1. Quiet(r) <=> Quiet(q)
        BY <2>8, Zenon DEF Quiet
      <4>. QED
        BY <2>1, <2>5, <2>6, <2>9, <3>0, <4>1 DEF VForked
    <3>. QED
      BY <2>10, <2>11, <2>12, <3>1, <3>2, <3>4, <3>5, <3>6, Zenon DEF Sound
  <2>. QED
    BY <2>13, <2>14, Zenon
<1>. QED
  BY <1>1, <1>2, Zenon

\* TCB::exit, which ends the process with its first thread.
LEMMA TaskExitSound ==
    ASSUME NEW q, Sound(q, NoTask), q.fate = "up", NEW me \in Tasks,
           q.state[me] = "Running", NEW r, r = TCB_exit(q, me)
    PROVE  Sound(r, me)
<1>0. /\ Typed(q) /\ Queueing(q) /\ Fresh(q) /\ Families(q) /\ Threads(q) /\ Sleeping(q)
      /\ Waiting(q) /\ Peaceful(q) /\ VForked(q, NoTask)
  BY Zenon DEF Sound
<1>1. PICK d : d = mark_exited(q, {me})
  OBVIOUS
<1>2. /\ Typed(d) /\ Queueing(d) /\ Except(q, d, {"state"})
      /\ d.state[me] = "Exited"
      /\ \A t \in Tasks : t # me => d.state[t] = q.state[t]
  <2>1. /\ Typed(d) /\ Queueing(d) /\ Except(q, d, {"state"})
        /\ \A t \in Tasks : /\ t \in {me} => d.state[t] = "Exited"
                            /\ t \notin {me} => d.state[t] = q.state[t]
    BY <1>0, <1>1, MarkExited
  <2>. QED
    BY <2>1, Zenon
<1>3. /\ d.tid = q.tid /\ d.proc = q.proc /\ d.next_tid = q.next_tid /\ d.pc = q.pc
      /\ d.pcbs = q.pcbs /\ d.reaped = q.reaped /\ d.pstate = q.pstate /\ d.vfork = q.vfork
      /\ d.children = q.children /\ d.waiting_task = q.waiting_task /\ d.tasks = q.tasks
      /\ d.parent = q.parent /\ d.load = q.load /\ d.fate = q.fate /\ d.event = q.event
  BY <1>2, Zenon DEF Except, Fields
<1>4. \A t \in Tasks : Alive(d, t) => Alive(q, t)
  BY <1>2, Zenon DEF Alive
<1>5. Sound(d, me)
  <2>1. Fresh(d)
    BY <1>0, <1>2, <1>3 DEF Fresh
  <2>2. Families(d) /\ Peaceful(d)
    BY <1>0, <1>2, Frames
  <2>3. Threads(d)
    <3>1. \A p \in Pids : Entries(q.tasks[p]) \cup Entries(q.waiting_task[p]) \subseteq Tasks
      BY <1>0, TypedLists, Zenon
    <3>2. \A t \in Tasks : q.state[t] # "None" => d.state[t] # "None"
      BY <1>2, Zenon
    <3>. QED
      BY <1>0, <1>3, <1>4, <3>1, <3>2 DEF Threads
  <2>4. Sleeping(d)
    BY <1>0, <1>2, <1>3, <1>4 DEF Sleeping
  <2>5. Waiting(d)
    BY <1>0, <1>2, <1>3 DEF Waiting, AloneAt
  <2>6. VForked(d, me)
    <3>1. Quiet(d) <=> Quiet(q)
      BY <1>3, Zenon DEF Quiet
    <3>2. \A t \in Tasks : Alive(q, t) => Alive(d, t) \/ t = me
      BY <1>2, Zenon DEF Alive
    <3>. QED
      BY <1>0, <1>2, <1>3, <3>1, <3>2, NoTaskAssumption DEF VForked
  <2>. QED
    BY <1>2, <2>1, <2>2, <2>3, <2>4, <2>5, <2>6, Zenon DEF Sound
<1>6. CASE q.tid[me] # q.proc[me]
  <2>1. r = d
    BY <1>1, <1>6, Zenon DEF TCB_exit
  <2>. QED
    BY <1>5, <2>1, Zenon
<1>7. CASE q.tid[me] = q.proc[me]
  <2>1. PICK p : p = q.proc[me]
    OBVIOUS
  <2>2. r = PCB_exit(d, p)
    BY <1>1, <1>7, <2>1, Zenon DEF TCB_exit
  <2>3. p \in d.pcbs /\ me \in Entries(d.tasks[p]) /\ d.fate = "up"
    BY <1>0, <1>3, <2>1, Zenon DEF Threads, Alive
  <2>. QED
    BY <1>5, <2>2, <2>3, ExitSound
<1>. QED
  BY <1>6, <1>7, Zenon

\* The Task object a constructor builds is a new one.
LEMMA NewTask ==
    ASSUME NEW q, CanBuild(q)
    PROVE  /\ new_task(q) \in Tasks /\ q.state[new_task(q)] = "None"
           /\ \A t \in Tasks : q.state[t] = "None" => new_task(q) <= t
<1>. DEFINE N == {t \in Tasks : q.state[t] = "None"}
<1>1. N # {}
  BY Zenon DEF CanBuild
<1>2. N \in SUBSET Nat
  BY TaskNumbers, Zenon
<1>3. Min(N) \in N /\ \A t \in N : Min(N) <= t
  <2>. HIDE DEF N
  <2>. QED
    BY <1>1, <1>2, MinIn, Zenon
<1>. QED
  BY <1>3, Zenon DEF new_task

\* PCB::exec: n takes the place of the threads of p, with the tid of me.
Replaced(q, r, me, n, p) ==
    /\ Except(q, r, {"state", "tid", "proc", "tasks", "queue"})
    /\ r.state[n] = "Ready"
    /\ \A t \in Tasks : t # n /\ t \in Entries(q.tasks[p]) => r.state[t] = "Exited"
    /\ \A t \in Tasks : t # n /\ t \notin Entries(q.tasks[p]) => r.state[t] = q.state[t]
    /\ r.state \in [Tasks -> TaskState]
    /\ r.tid = [q.tid EXCEPT ![n] = q.tid[me]]
    /\ r.proc = [q.proc EXCEPT ![n] = p]
    /\ r.tasks = [q.tasks EXCEPT ![p] = <<n>>]
    /\ r.queue = Append(q.queue, n)

LEMMA Replaces ==
    ASSUME NEW q, Typed(q), NEW me \in Tasks, NEW n \in Tasks, n = new_task(q),
           NEW p \in Pids, p = q.proc[me], n \notin Entries(q.tasks[p]),
           NEW r, r = PCB_exec(q, me)
    PROVE  Replaced(q, r, me, n, p)
<1>1. IsKernel(q) /\ q.state \in [Tasks -> TaskState]
  BY Zenon DEF Typed
<1>2. PICK E, b, m, w : /\ E = Entries(q.tasks[p])
                        /\ b = [build(q, n) EXCEPT !.tid[n] = q.tid[me], !.proc[n] = p]
                        /\ m = mark_exited(b, E)
                        /\ w = [m EXCEPT !.tasks[p] = <<n>>]
  BY Zenon
<1>3. r = push_task(w, n)
  BY <1>2, Zenon DEF PCB_exec
<1>4. b = [q EXCEPT !.state = [q.state EXCEPT ![n] = "Ready"],
                    !.tid = [q.tid EXCEPT ![n] = q.tid[me]],
                    !.proc = [q.proc EXCEPT ![n] = p]]
  BY <1>1, <1>2, Zenon DEF build, IsKernel, Fields
<1>5. /\ Except(q, b, {"state", "tid", "proc"}) /\ IsKernel(b)
      /\ b.state = [q.state EXCEPT ![n] = "Ready"]
      /\ b.tid = [q.tid EXCEPT ![n] = q.tid[me]]
      /\ b.proc = [q.proc EXCEPT ![n] = p]
      /\ b.tasks = q.tasks /\ b.queue = q.queue
  BY <1>1, <1>4, Zenon DEF Except, IsKernel, Fields
<1>6. m = [b EXCEPT !.state = [t \in Tasks |-> IF t \in E THEN "Exited" ELSE b.state[t]]]
  BY <1>2, <1>5, Zenon DEF mark_exited, IsKernel, Fields
<1>7. /\ Except(b, m, {"state"}) /\ IsKernel(m)
      /\ m.state = [t \in Tasks |-> IF t \in E THEN "Exited" ELSE b.state[t]]
      /\ m.tid = b.tid /\ m.proc = b.proc /\ m.tasks = b.tasks /\ m.queue = b.queue
  BY <1>5, <1>6, Zenon DEF Except, IsKernel, Fields
<1>8. w = [m EXCEPT !.tasks = [m.tasks EXCEPT ![p] = <<n>>]]
  BY <1>2, <1>7, Zenon DEF IsKernel, Fields
<1>9. /\ Except(m, w, {"tasks"}) /\ IsKernel(w)
      /\ w.tasks = [m.tasks EXCEPT ![p] = <<n>>]
      /\ w.state = m.state /\ w.tid = m.tid /\ w.proc = m.proc /\ w.queue = m.queue
  BY <1>7, <1>8, Zenon DEF Except, IsKernel, Fields
<1>10. r = [w EXCEPT !.queue = Append(w.queue, n)]
  BY <1>3, Zenon DEF push_task
<1>11. /\ Except(w, r, {"queue"})
       /\ r.queue = Append(w.queue, n)
       /\ r.state = w.state /\ r.tid = w.tid /\ r.proc = w.proc /\ r.tasks = w.tasks
  BY <1>9, <1>10, Zenon DEF Except, IsKernel, Fields
<1>12. Except(q, r, {"state", "tid", "proc", "tasks", "queue"})
  <2>1. Except(q, m, {"state", "tid", "proc"})
    BY <1>5, <1>7, ExceptTwice
  <2>2. Except(q, w, {"state", "tid", "proc", "tasks"})
    BY <1>9, <2>1, ExceptTwice
  <2>. QED
    BY <1>11, <2>2, ExceptTwice
<1>13. /\ r.tid = [q.tid EXCEPT ![n] = q.tid[me]]
       /\ r.proc = [q.proc EXCEPT ![n] = p]
       /\ r.tasks = [q.tasks EXCEPT ![p] = <<n>>]
       /\ r.queue = Append(q.queue, n)
       /\ r.state = [t \in Tasks |-> IF t \in E THEN "Exited" ELSE b.state[t]]
  BY ONLY <1>5, <1>7, <1>9, <1>11, Zenon
<1>14. /\ r.state[n] = "Ready" /\ r.state \in [Tasks -> TaskState]
       /\ \A t \in Tasks : t # n /\ t \in E => r.state[t] = "Exited"
       /\ \A t \in Tasks : t # n /\ t \notin E => r.state[t] = q.state[t]
  <2>1. r.state \in [Tasks -> TaskState]
    BY <1>1, <1>5, <1>13 DEF TaskState
  <2>2. b.state[n] = "Ready" /\ \A t \in Tasks : t # n => b.state[t] = q.state[t]
    BY <1>1, <1>5, Zenon
  <2>3. \A t \in Tasks : /\ t \in E => r.state[t] = "Exited"
                         /\ t \notin E => r.state[t] = b.state[t]
    BY <1>13, Zenon
  <2>4. n \notin E
    BY <1>2, Zenon
  <2>. QED
    BY ONLY n \in Tasks, <2>1, <2>2, <2>3, <2>4, Zenon
<1>. QED
  BY <1>2, <1>12, <1>13, <1>14, Zenon DEF Replaced

LEMMA ExecSound ==
    ASSUME NEW q, Sound(q, NoTask), q.fate = "up", NEW me \in Tasks,
           q.state[me] = "Running", CanBuild(q), NEW r, r = PCB_exec(q, me)
    PROVE  Sound(r, me)
<1>0. /\ Typed(q) /\ Queueing(q) /\ Fresh(q) /\ Families(q) /\ Threads(q) /\ Sleeping(q)
      /\ Waiting(q) /\ Peaceful(q) /\ VForked(q, NoTask)
  BY Zenon DEF Sound
<1>1. PICK n, p : n = new_task(q) /\ p = q.proc[me]
  OBVIOUS
<1>2. n \in Tasks /\ q.state[n] = "None"
  BY <1>1, NewTask, Zenon
<1>3. p \in Pids /\ p \in q.pcbs /\ me \in Entries(q.tasks[p])
  BY <1>0, <1>1, Zenon DEF Threads, Alive, Typed
<1>4. /\ n \notin Entries(q.tasks[p]) /\ n # me
      /\ \A x \in Pids : n \notin Entries(q.waiting_task[x])
  BY <1>0, <1>2, <1>3, Zenon DEF Threads
<1>5. Replaced(q, r, me, n, p)
  BY <1>0, <1>1, <1>2, <1>3, <1>4, Replaces, Zenon
<1>6. /\ Except(q, r, {"state", "tid", "proc", "tasks", "queue"})
      /\ r.state[n] = "Ready" /\ r.state \in [Tasks -> TaskState]
      /\ \A t \in Tasks : t # n /\ t \in Entries(q.tasks[p]) => r.state[t] = "Exited"
      /\ \A t \in Tasks : t # n /\ t \notin Entries(q.tasks[p]) => r.state[t] = q.state[t]
  BY <1>5, Zenon DEF Replaced
<1>7. /\ r.tid = [q.tid EXCEPT ![n] = q.tid[me]]
      /\ r.proc = [q.proc EXCEPT ![n] = p]
      /\ r.tasks = [q.tasks EXCEPT ![p] = <<n>>]
      /\ r.queue = Append(q.queue, n)
  BY <1>5, Zenon DEF Replaced
<1>8. /\ r.next_tid = q.next_tid /\ r.pc = q.pc /\ r.vfork = q.vfork
      /\ r.pcbs = q.pcbs /\ r.reaped = q.reaped /\ r.pstate = q.pstate
      /\ r.children = q.children /\ r.waiting_task = q.waiting_task
      /\ r.parent = q.parent /\ r.load = q.load /\ r.fate = q.fate /\ r.event = q.event
      /\ r.pending_signal = q.pending_signal /\ r.pending = q.pending
  BY <1>6, Zenon DEF Except, Fields
<1>9. /\ q.tid \in [Tasks -> Nat] /\ q.proc \in [Tasks -> Pids]
      /\ q.tasks \in [Pids -> Seq(Tasks)] /\ q.queue \in Seq(Tasks)
  BY <1>0, Zenon DEF Typed
<1>10. /\ r.tid[n] = q.tid[me] /\ r.proc[n] = p /\ r.tasks[p] = <<n>>
       /\ \A t \in Tasks : t # n => r.tid[t] = q.tid[t] /\ r.proc[t] = q.proc[t]
       /\ \A x \in Pids : x # p => r.tasks[x] = q.tasks[x]
  BY <1>2, <1>3, <1>7, <1>9, Zenon
<1>11. r.queue \in Seq(Tasks) /\ Entries(r.queue) = Entries(q.queue) \cup {n}
  BY <1>2, <1>7, <1>9, PushEntries
<1>12. Typed(r)
  <2>1. r.tid \in [Tasks -> Nat] /\ r.proc \in [Tasks -> Pids]
    BY <1>3, <1>7, <1>9, ZenonT(30)
  <2>2. r.tasks \in [Pids -> Seq(Tasks)]
    <3>1. <<n>> \in Seq(Tasks)
      BY <1>2
    <3>. QED
      BY <1>7, <1>9, <3>1, Zenon
  <2>. QED
    BY <1>0, <1>6, <1>11, <2>1, <2>2, TypedExcept, Zenon
<1>13. /\ Entries(q.queue) \subseteq Tasks /\ n \notin Entries(q.queue)
       /\ me \notin Entries(q.queue) /\ ~Waits(q, me) /\ ~Waits(q, n)
  <2>1. Entries(q.queue) \subseteq Tasks
    BY <1>9, EntriesIn, Zenon
  <2>2. n \notin Entries(q.queue) /\ me \notin Entries(q.queue)
    BY <1>0, <1>2, Zenon DEF Queueing
  <2>3. \A t \in Tasks : Waits(q, t) => q.state[t] \in {"BlockedUninterruptible", "Exited"}
    BY <1>0, NoTaskAssumption, Zenon DEF Waits, Queueing
  <2>. QED
    BY <1>2, <2>1, <2>2, <2>3, Zenon
<1>14. \A t \in Tasks : t # n /\ Active(r, t) => Active(q, t) /\ t # me
  <2>1. \A t \in Tasks : Waits(r, t) <=> Waits(q, t)
    BY <1>8, Zenon DEF Waits
  <2>2. \A t \in Tasks : t # n /\ Alive(r, t) => Alive(q, t) /\ t # me
    BY <1>3, <1>6, Zenon DEF Alive
  <2>. QED
    BY <1>11, <1>13, <2>1, <2>2, Zenon DEF Active
<1>15. Active(q, me)
  BY Zenon DEF Active, Alive
<1>16. \A t \in Tasks : Active(q, t) /\ t # me => q.tid[t] # q.tid[me]
  BY <1>0, <1>15, Zenon DEF Queueing
<1>17. Queueing(r)
  <2>1. TidsDiffer(r.queue, r.tid)
    <3>1. \A u \in Entries(q.queue) : u \in Tasks /\ u # n /\ Active(q, u) /\ u # me
      BY <1>13, Zenon DEF Active
    <3>2. \A u \in Entries(q.queue) : r.tid[u] # r.tid[n] /\ r.tid[u] = q.tid[u]
      BY <1>10, <1>16, <3>1, Zenon
    <3>3. TidsDiffer(q.queue, r.tid)
      <4>1. TidsDiffer(q.queue, q.tid)
        BY <1>0, Zenon DEF Queueing
      <4>2. \A i \in 1..Len(q.queue) : r.tid[q.queue[i]] = q.tid[q.queue[i]]
        BY <3>2, Zenon DEF Entries
      <4>. QED
        BY <4>1, <4>2, Zenon DEF TidsDiffer
    <3>4. q.queue \in Seq(Tasks) /\ r.queue = Append(q.queue, n)
      BY <1>7, <1>9, Zenon
    <3>. QED
      BY ONLY <1>2, <3>2, <3>3, <3>4, PushTids, Zenon
  <2>2. \A t \in Entries(r.queue) : r.state[t] \in {"Ready", "Exited"}
    <3>1. \A t \in Entries(q.queue) : t \in Tasks /\ t # n
                                       /\ q.state[t] \in {"Ready", "Exited"}
      BY <1>0, <1>13, Zenon DEF Queueing
    <3>. QED
      BY <1>6, <1>11, <3>1, Zenon
  <2>3. \A c \in Tasks : r.vfork[c] # NoTask =>
          /\ r.state[r.vfork[c]] \in {"BlockedUninterruptible", "Exited"}
          /\ r.vfork[c] \notin Entries(r.queue)
    <3>. TAKE c \in Tasks
    <3>. HAVE r.vfork[c] # NoTask
    <3>1. /\ q.vfork[c] \in Tasks /\ q.vfork[c] \notin Entries(q.queue)
          /\ q.state[q.vfork[c]] \in {"BlockedUninterruptible", "Exited"}
      BY <1>0, <1>8 DEF Queueing, Typed
    <3>2. q.vfork[c] # n
      BY <1>2, <3>1, Zenon
    <3>. QED
      BY <1>6, <1>8, <1>11, <3>1, <3>2
  <2>4. \A t, u \in Tasks : Active(r, t) /\ Active(r, u) /\ r.tid[t] = r.tid[u] => t = u
    <3>1. \A t \in Tasks : t # n /\ Active(r, t) => r.tid[t] # r.tid[n]
      BY <1>10, <1>14, <1>16, Zenon
    <3>2. \A t, u \in Tasks : t # n /\ u # n /\ Active(r, t) /\ Active(r, u)
                              /\ r.tid[t] = r.tid[u] => t = u
      BY <1>0, <1>10, <1>14 DEF Queueing
    <3>. QED
      BY <3>1, <3>2, Zenon
  <2>. QED
    BY <1>0, <1>8, <2>1, <2>2, <2>3, <2>4 DEF Queueing
<1>18. Fresh(r)
  <2>1. \A t \in Tasks : r.state[t] = "None" => q.state[t] = "None"
    BY <1>6, Zenon
  <2>2. \A x \in Pids : q.next_tid <= x => x # p
    BY <1>0, <1>3, Zenon DEF Fresh
  <2>3. \A t \in Tasks : r.tid[t] < q.next_tid /\ r.proc[t] < q.next_tid
    BY <1>0, <1>1, <1>10 DEF Fresh
  <2>. QED
    BY <1>0, <1>8, <1>10, <2>1, <2>2, <2>3 DEF Fresh
<1>19. Families(r)
  BY <1>0, <1>6, Frames
<1>20. Threads(r)
  <2>1. Entries(<<n>>) = {n}
    BY DEF Entries
  <2>2. ASSUME NEW t \in Tasks, Alive(r, t)
        PROVE  r.proc[t] \in r.pcbs /\ t \in Entries(r.tasks[r.proc[t]])
    <3>1. CASE t = n
      BY <1>3, <1>8, <1>10, <2>1, <3>1, Zenon
    <3>2. CASE t # n
      <4>1. Alive(q, t) /\ t \notin Entries(q.tasks[p])
        BY <1>6, <2>2, <3>2, Zenon DEF Alive
      <4>2. q.proc[t] \in q.pcbs /\ t \in Entries(q.tasks[q.proc[t]]) /\ q.proc[t] # p
        BY <1>0, <4>1, Zenon DEF Threads
      <4>. QED
        BY <1>8, <1>9, <1>10, <3>2, <4>2
    <3>. QED
      BY <3>1, <3>2, Zenon
  <2>3. ASSUME NEW x \in Pids, NEW t \in Entries(r.tasks[x]) \cup Entries(r.waiting_task[x])
        PROVE  r.proc[t] = x /\ r.state[t] # "None"
    <3>1. CASE t = n
      <4>1. n \notin Entries(q.tasks[x]) /\ n \notin Entries(q.waiting_task[x])
        BY <1>0, <1>2, Zenon DEF Threads
      <4>2. x = p
        BY <1>8, <1>10, <2>3, <3>1, <4>1, Zenon
      <4>. QED
        BY <1>6, <1>10, <3>1, <4>2, Zenon
    <3>2. CASE t # n
      <4>1. t \in Entries(q.tasks[x]) \cup Entries(q.waiting_task[x])
        BY <1>8, <1>10, <2>1, <2>3, <3>2
      <4>2. t \in Tasks /\ q.proc[t] = x /\ q.state[t] # "None"
        BY <1>0, <4>1, TypedLists, Zenon DEF Threads
      <4>. QED
        BY <1>6, <1>10, <3>2, <4>2, Zenon
    <3>. QED
      BY <3>1, <3>2, Zenon
  <2>. QED
    BY <2>2, <2>3, Zenon DEF Threads
<1>21. q.pc[n] = User /\ User.at = "user"
  BY <1>0, <1>2, Zenon DEF Fresh, User
<1>22. Sleeping(r)
  <2>1. \A t \in Tasks : t # n => r.state[t] \in {q.state[t], "Exited"}
    BY <1>6, Zenon
  <2>. QED
    BY <1>0, <1>6, <1>8, <1>10, <1>21, <2>1, SMTT(30) DEF Sleeping, Alive
<1>23. Waiting(r)
  <2>1. \A t \in Tasks : AloneAt(r, t) => t # n
    BY <1>8, <1>21, Zenon DEF AloneAt
  <2>2. ASSUME NEW t \in Tasks, AloneAt(r, t), r.state[t] \in {"Blocked", "Ready"}
        PROVE  AloneAt(q, t) /\ r.state[t] = q.state[t]
    <3>1. t # n /\ t \notin Entries(q.tasks[p]) /\ q.state[t] = r.state[t]
      BY <1>6, <2>1, <2>2, Zenon
    <3>2. q.proc[t] # p
      BY <1>0, <2>2, <3>1, Zenon DEF Threads, Alive
    <3>. QED
      BY <1>8, <1>9, <1>10, <2>2, <3>1, <3>2 DEF AloneAt
  <2>. QED
    BY <1>0, <1>8, <1>10, <2>1, <2>2 DEF Waiting
<1>24. Peaceful(r)
  <2>1. Len(r.tasks[p]) = 1
    BY <1>10, Zenon
  <2>2. Quiet(r) <=> Quiet(q)
    BY <1>8, Zenon DEF Quiet
  <2>3. Quiet(q) => \A x \in Pids : Len(r.tasks[x]) <= 1
    <3>1. \A x \in Pids : x # p => r.tasks[x] = q.tasks[x]
      BY <1>10, Zenon
    <3>2. Quiet(q) => \A x \in Pids : Len(q.tasks[x]) <= 1
      BY <1>0, Zenon DEF Peaceful
    <3>3. \A x \in Pids : x = p => Len(r.tasks[x]) <= 1
      <4>1. 1 <= 1
        OBVIOUS
      <4>. QED
        BY ONLY <2>1, <4>1, Zenon
    <3>. QED
      BY ONLY <3>1, <3>2, <3>3, Zenon
  <2>. QED
    BY <1>0, <1>8, <2>2, <2>3 DEF Peaceful
<1>25. VForked(r, me)
  <2>. SUFFICES ASSUME Quiet(r), NEW t \in Tasks, r.state[t] = "BlockedUninterruptible"
                PROVE  \E c \in Tasks : r.vfork[c] = t /\ (Alive(r, c) \/ c = me)
    BY Zenon DEF VForked
  <2>1. Quiet(q) /\ q.state[t] = "BlockedUninterruptible"
    BY <1>6, <1>8, Zenon DEF Quiet
  <2>2. PICK c \in Tasks : q.vfork[c] = t /\ Alive(q, c)
    BY <1>0, <2>1, NoTaskAssumption, Zenon DEF VForked
  <2>3. c # n
    BY <1>2, <2>2, Zenon DEF Alive
  <2>4. c \in Entries(q.tasks[p]) => c = me
    <3>1. q.tasks[p] \in Seq(Tasks) /\ Len(q.tasks[p]) <= 1
      BY <1>0, <1>3, <1>9, <2>1, Zenon DEF Peaceful
    <3>. QED
      BY <1>3, <3>1 DEF Entries
  <2>5. c \notin Entries(q.tasks[p]) => Alive(r, c)
    BY <1>6, <2>2, <2>3, Zenon DEF Alive
  <2>. QED
    BY <1>8, <2>2, <2>4, <2>5, Zenon
<1>. QED
  BY <1>12, <1>17, <1>18, <1>19, <1>20, <1>22, <1>23, <1>24, <1>25, Zenon DEF Sound

-----------------------------------------------------------------------------
(* clone.                                                                   *)

\* The new task c of the process x, of the process of me or a new one.
Cloned(q, r, me, c, x, thread) ==
    /\ Except(q, r, {"state", "tid", "proc", "next_tid", "tasks", "pstate", "parent",
                     "children", "pcbs"})
    /\ r.state = [q.state EXCEPT ![c] = "Ready"]
    /\ r.tid = [q.tid EXCEPT ![c] = q.next_tid]
    /\ r.proc = [q.proc EXCEPT ![c] = x]
    /\ r.next_tid = q.next_tid + 1
    /\ r.tasks = [q.tasks EXCEPT ![x] = Append(q.tasks[x], c)]
    /\ \/ /\ thread /\ x = q.proc[me]
          /\ r.pstate = q.pstate /\ r.parent = q.parent
          /\ r.children = q.children /\ r.pcbs = q.pcbs
       \/ /\ ~thread /\ x = q.next_tid
          /\ r.pstate = [q.pstate EXCEPT ![x] = "Running"]
          /\ r.parent = [q.parent EXCEPT ![x] = q.proc[me]]
          /\ r.children = [q.children EXCEPT ![q.proc[me]] = Append(q.children[q.proc[me]], x)]
          /\ r.pcbs = q.pcbs \cup {x}

\* TCB::new for a clone.
Built(u, r, c, x) ==
    /\ Except(u, r, {"state", "tid", "proc", "next_tid", "tasks"})
    /\ r.state = [u.state EXCEPT ![c] = "Ready"]
    /\ r.tid = [u.tid EXCEPT ![c] = u.next_tid]
    /\ r.proc = [u.proc EXCEPT ![c] = x]
    /\ r.next_tid = u.next_tid + 1
    /\ r.tasks = [u.tasks EXCEPT ![x] = Append(u.tasks[x], c)]

LEMMA NewClone ==
    ASSUME NEW u, IsKernel(u), NEW x, NEW c, c = new_task(u), NEW r, r = new_clone(u, x)
    PROVE  Built(u, r, c, x)
<1>1. r = [u EXCEPT !.state = [u.state EXCEPT ![c] = "Ready"],
                    !.tid = [u.tid EXCEPT ![c] = u.next_tid],
                    !.proc = [u.proc EXCEPT ![c] = x],
                    !.next_tid = u.next_tid + 1,
                    !.tasks = [u.tasks EXCEPT ![x] = Append(u.tasks[x], c)]]
  <2>1. PICK b : b = build(u, c)
    OBVIOUS
  <2>2. b = [u EXCEPT !.state = [u.state EXCEPT ![c] = "Ready"]]
    BY <2>1, Zenon DEF build, IsKernel, Fields
  <2>3. /\ IsKernel(b) /\ b.tid = u.tid /\ b.proc = u.proc /\ b.next_tid = u.next_tid
        /\ b.tasks = u.tasks
    BY <2>2, Zenon DEF IsKernel, Fields
  <2>4. r = [b EXCEPT !.tid = [u.tid EXCEPT ![c] = u.next_tid],
                      !.proc = [u.proc EXCEPT ![c] = x],
                      !.next_tid = u.next_tid + 1,
                      !.tasks = [u.tasks EXCEPT ![x] = Append(u.tasks[x], c)]]
    BY <2>1, <2>3, Zenon DEF new_clone, IsKernel, Fields
  <2>. QED
    BY <2>2, <2>4, Zenon DEF IsKernel, Fields
<1>2. /\ Except(u, r, {"state", "tid", "proc", "next_tid", "tasks"})
      /\ r.state = [u.state EXCEPT ![c] = "Ready"]
      /\ r.tid = [u.tid EXCEPT ![c] = u.next_tid]
      /\ r.proc = [u.proc EXCEPT ![c] = x]
      /\ r.next_tid = u.next_tid + 1
      /\ r.tasks = [u.tasks EXCEPT ![x] = Append(u.tasks[x], c)]
  BY <1>1, ZenonT(30) DEF Except, IsKernel, Fields
<1>. QED
  BY <1>2, Zenon DEF Built

LEMMA Clones ==
    ASSUME NEW q, Typed(q), NEW me \in Tasks, NEW c, c = new_task(q), NEW thread \in BOOLEAN,
           NEW r, r = clone_task(q, me, thread)
    PROVE  \E x : Cloned(q, r, me, c, x, thread)
<1>0. IsKernel(q)
  BY Zenon DEF Typed
<1>1. CASE thread
  <2>1. PICK x : x = q.proc[me]
    OBVIOUS
  <2>2. r = new_clone(q, x)
    BY <1>1, <2>1, Zenon DEF clone_task
  <2>3. /\ Except(q, r, {"state", "tid", "proc", "next_tid", "tasks"})
        /\ r.state = [q.state EXCEPT ![c] = "Ready"]
        /\ r.tid = [q.tid EXCEPT ![c] = q.next_tid]
        /\ r.proc = [q.proc EXCEPT ![c] = x]
        /\ r.next_tid = q.next_tid + 1
        /\ r.tasks = [q.tasks EXCEPT ![x] = Append(q.tasks[x], c)]
    <3>1. Built(q, r, c, x)
      BY <1>0, <2>2, NewClone, Zenon
    <3>. QED
      BY <3>1, Zenon DEF Built
  <2>4. /\ Except(q, r, {"state", "tid", "proc", "next_tid", "tasks", "pstate", "parent",
                         "children", "pcbs"})
        /\ r.pstate = q.pstate /\ r.parent = q.parent
        /\ r.children = q.children /\ r.pcbs = q.pcbs
    BY <2>3, Zenon DEF Except, Fields
  <2>5. Cloned(q, r, me, c, x, thread)
    BY <1>1, <2>1, <2>3, <2>4, Zenon DEF Cloned
  <2>. QED
    BY <2>5, Zenon
<1>2. CASE ~thread
  <2>1. PICK x, p : x = q.next_tid /\ p = q.proc[me]
    OBVIOUS
  <2>2. PICK u : u = [q EXCEPT !.pstate[x] = "Running", !.parent[x] = p,
                               !.children[p] = Append(@, x), !.pcbs = @ \cup {x}]
    OBVIOUS
  <2>3. u = [q EXCEPT !.pstate = [q.pstate EXCEPT ![x] = "Running"],
                      !.parent = [q.parent EXCEPT ![x] = p],
                      !.children = [q.children EXCEPT ![p] = Append(q.children[p], x)],
                      !.pcbs = q.pcbs \cup {x}]
    BY <1>0, <2>2, Zenon DEF IsKernel, Fields
  <2>4. /\ Except(q, u, {"pstate", "parent", "children", "pcbs"}) /\ IsKernel(u)
        /\ u.pstate = [q.pstate EXCEPT ![x] = "Running"]
        /\ u.parent = [q.parent EXCEPT ![x] = p]
        /\ u.children = [q.children EXCEPT ![p] = Append(q.children[p], x)]
        /\ u.pcbs = q.pcbs \cup {x}
        /\ u.state = q.state /\ u.tid = q.tid /\ u.proc = q.proc
        /\ u.next_tid = q.next_tid /\ u.tasks = q.tasks
    BY <1>0, <2>3, Zenon DEF Except, IsKernel, Fields
  <2>5. r = new_clone(u, x)
    BY <1>2, <2>1, <2>2, Zenon DEF clone_task
  <2>6. c = new_task(u)
    BY <2>4, Zenon DEF new_task
  <2>7. /\ Except(u, r, {"state", "tid", "proc", "next_tid", "tasks"})
        /\ r.state = [u.state EXCEPT ![c] = "Ready"]
        /\ r.tid = [u.tid EXCEPT ![c] = u.next_tid]
        /\ r.proc = [u.proc EXCEPT ![c] = x]
        /\ r.next_tid = u.next_tid + 1
        /\ r.tasks = [u.tasks EXCEPT ![x] = Append(u.tasks[x], c)]
    <3>1. IsKernel(u)
      BY <2>4, Zenon
    <3>2. Built(u, r, c, x)
      BY ONLY <2>5, <2>6, <3>1, NewClone, Zenon
    <3>. QED
      BY <3>2, Zenon DEF Built
  <2>8. Except(q, r, {"state", "tid", "proc", "next_tid", "tasks", "pstate", "parent",
                      "children", "pcbs"})
    <3>1. Except(q, u, {"pstate", "parent", "children", "pcbs"})
      BY <2>4, Zenon
    <3>2. Except(u, r, {"state", "tid", "proc", "next_tid", "tasks"})
      BY <2>7, Zenon
    <3>. QED
      BY ONLY <3>1, <3>2, ExceptTwice
  <2>9. /\ r.pstate = u.pstate /\ r.parent = u.parent
        /\ r.children = u.children /\ r.pcbs = u.pcbs
    BY <2>7, Zenon DEF Except, Fields
  <2>10. Cloned(q, r, me, c, x, thread)
    BY <1>2, <2>1, <2>4, <2>7, <2>8, <2>9, Zenon DEF Cloned
  <2>. QED
    BY <2>10, Zenon
<1>. QED
  BY <1>1, <1>2, Zenon

\* The numbers of a clone: its task is new, its tid is not below any handed out.
LEMMA ClonedNumbers ==
    ASSUME NEW q, Typed(q), Fresh(q), NEW me \in Tasks, NEW c \in Tasks,
           q.state[c] = "None", NEW thread, NEW x, NEW r, Cloned(q, r, me, c, x, thread)
    PROVE  /\ q.next_tid \in Nat /\ q.next_tid \in Pids /\ x \in Pids
           /\ r.next_tid \in 2..(Last + 1) /\ q.next_tid < r.next_tid
           /\ \A t \in Tasks : t \in Nat
<1>1. q.next_tid \in 2..(Last + 1) /\ q.proc[me] \in Pids
  BY Zenon DEF Typed, Last
<1>2. q.next_tid <= c
  BY Zenon DEF Fresh
<1>3. r.next_tid = q.next_tid + 1 /\ x \in {q.proc[me], q.next_tid}
  BY Zenon DEF Cloned
<1>4. q.next_tid \in Nat /\ q.next_tid \in Pids
  BY ONLY <1>1, <1>2, c \in Tasks, TaskNumbers
<1>5. r.next_tid \in 2..(Last + 1) /\ q.next_tid < r.next_tid
  BY ONLY <1>1, <1>2, <1>3, c \in Tasks, TaskNumbers
<1>. QED
  BY <1>1, <1>3, <1>4, <1>5, TaskNumbers, Zenon

LEMMA ClonedTyped ==
    ASSUME NEW q, Typed(q), Fresh(q), NEW me \in Tasks, NEW c \in Tasks,
           q.state[c] = "None", NEW thread, NEW x, NEW r, Cloned(q, r, me, c, x, thread)
    PROVE  Typed(r)
<1>1. /\ q.state \in [Tasks -> TaskState] /\ q.tid \in [Tasks -> Nat]
      /\ q.proc \in [Tasks -> Pids] /\ q.tasks \in [Pids -> Seq(Tasks)]
      /\ q.pstate \in [Pids -> {"None", "Running", "Exited", "Dead"}]
      /\ q.parent \in [Pids -> Pids] /\ q.children \in [Pids -> Seq(Pids)]
      /\ q.pcbs \in SUBSET Pids
  BY Zenon DEF Typed
<1>2. q.next_tid \in Nat /\ x \in Pids /\ r.next_tid \in 2..(Last + 1)
  BY ClonedNumbers, Zenon
<1>3. /\ r.state \in [Tasks -> TaskState] /\ r.tid \in [Tasks -> Nat]
      /\ r.proc \in [Tasks -> Pids]
  BY <1>1, <1>2, SMTT(30) DEF Cloned, TaskState
<1>4. r.tasks \in [Pids -> Seq(Tasks)]
  <2>1. PICK s : s = Append(q.tasks[x], c)
    BY Zenon
  <2>2. s \in Seq(Tasks) /\ r.tasks = [q.tasks EXCEPT ![x] = s]
    BY <1>1, <1>2, <2>1 DEF Cloned
  <2>. QED
    BY ONLY <1>1, <2>2, ZenonT(30)
<1>5. /\ r.pstate \in [Pids -> {"None", "Running", "Exited", "Dead"}]
      /\ r.parent \in [Pids -> Pids] /\ r.pcbs \in SUBSET Pids
  <2>1. PICK p : p = q.proc[me]
    OBVIOUS
  <2>2. p \in Pids
    BY <1>1, <2>1, Zenon
  <2>3. r.pstate = q.pstate \/ r.pstate = [q.pstate EXCEPT ![x] = "Running"]
    BY <2>1, Zenon DEF Cloned
  <2>4. r.parent = q.parent \/ r.parent = [q.parent EXCEPT ![x] = p]
    BY <2>1, Zenon DEF Cloned
  <2>5. r.pcbs = q.pcbs \/ r.pcbs = q.pcbs \cup {x}
    BY <2>1, Zenon DEF Cloned
  <2>6. r.pstate \in [Pids -> {"None", "Running", "Exited", "Dead"}]
    BY ONLY <1>1, <2>3, Zenon
  <2>7. r.parent \in [Pids -> Pids]
    BY ONLY <1>1, <2>2, <2>4, Zenon
  <2>8. r.pcbs \in SUBSET Pids
    BY ONLY <1>1, <1>2, <2>5, Zenon
  <2>. QED
    BY <2>6, <2>7, <2>8, Zenon
<1>6. r.children \in [Pids -> Seq(Pids)]
  <2>1. PICK p, s : p = q.proc[me] /\ s = Append(q.children[q.proc[me]], x)
    BY Zenon
  <2>2. s \in Seq(Pids)
    BY <1>1, <1>2, <2>1
  <2>3. r.children = q.children \/ r.children = [q.children EXCEPT ![p] = s]
    BY <2>1, Zenon DEF Cloned
  <2>. QED
    BY ONLY <1>1, <2>2, <2>3, Zenon
<1>7. Except(q, r, {"state", "tid", "proc", "next_tid", "tasks", "pstate", "parent",
                    "children", "pcbs"})
  BY Zenon DEF Cloned
<1>8. r.next_tid \in 2..(Cardinality(Tasks) + 1)
  BY <1>2, Zenon DEF Last
<1>. QED
  BY ONLY Typed(q), <1>3, <1>4, <1>5, <1>6, <1>7, <1>8, TypedExcept, Zenon

\* A sequence with one more element.
LEMMA Pushed ==
    ASSUME NEW S, NEW s \in Seq(S), NEW y \in S
    PROVE  /\ \A z : z \in Entries(Append(s, y)) <=> z \in Entries(s) \/ z = y
           /\ Len(Append(s, y)) = Len(s) + 1
           /\ (y \notin Entries(s) /\ \A i, j \in 1..Len(s) : s[i] = s[j] => i = j)
              => \A i, j \in 1..Len(Append(s, y)) : Append(s, y)[i] = Append(s, y)[j] => i = j
<1>1. PICK u, n : u = Append(s, y) /\ n = Len(s)
  BY Zenon
<1>2. /\ n \in Nat /\ Len(u) = n + 1 /\ u[n + 1] = y
      /\ \A i \in 1..n : u[i] = s[i]
  BY <1>1
<1>3. \A i \in 1..(n + 1) : i \in 1..n \/ i = n + 1
  BY <1>2
<1>4. /\ \A z : z \in Entries(s) <=> \E i \in 1..n : s[i] = z
      /\ \A z : z \in Entries(u) <=> \E i \in 1..(n + 1) : u[i] = z
      /\ n + 1 \in 1..(n + 1) /\ \A i \in 1..n : i \in 1..(n + 1)
  <2>1. n = Len(s) /\ Len(u) = n + 1
    BY <1>1, <1>2, Zenon
  <2>2. n + 1 \in 1..(n + 1) /\ \A i \in 1..n : i \in 1..(n + 1)
    BY <1>2
  <2>. QED
    BY ONLY <2>1, <2>2, Zenon DEF Entries
<1>5. \A z : z \in Entries(u) <=> z \in Entries(s) \/ z = y
  BY ONLY <1>2, <1>3, <1>4, Zenon
<1>6. ASSUME y \notin Entries(s), \A i, j \in 1..n : s[i] = s[j] => i = j,
             NEW i \in 1..(n + 1), NEW j \in 1..(n + 1), u[i] = u[j]
      PROVE  i = j
  BY ONLY <1>2, <1>3, <1>4, <1>6
<1>. QED
  BY <1>1, <1>2, <1>5, <1>6, Zenon

LEMMA ClonedFamilies ==
    ASSUME NEW q, Typed(q), Fresh(q), Families(q), NEW me \in Tasks,
           q.proc[me] \in q.pcbs, NEW c \in Tasks, q.state[c] = "None",
           NEW thread, NEW x, NEW r, Cloned(q, r, me, c, x, thread)
    PROVE  Families(r)
<1>0. /\ q.next_tid \in Nat /\ q.next_tid \in Pids /\ x \in Pids
      /\ q.next_tid < r.next_tid /\ r.next_tid \in Nat
      /\ \A t \in Tasks : t \in Nat
  <2>1. r.next_tid = q.next_tid + 1
    BY Zenon DEF Cloned
  <2>. QED
    BY <2>1, ClonedNumbers
<1>1. r.reaped = q.reaped
  BY Zenon DEF Cloned, Except, Fields
<1>2. \A y \in Pids : Entries(q.children[y]) \subseteq Pids
  BY TypedLists, Zenon
<1>3. \A y \in Pids : \A z \in Entries(q.children[y]) :
         q.parent[z] = y /\ y < z /\ z < q.next_tid /\ z < r.next_tid
  <2>1. \A y \in Pids : \A z \in Entries(q.children[y]) : z \in Nat
    BY <1>0, <1>2, Zenon DEF Pids
  <2>2. \A y \in Pids : \A z \in Entries(q.children[y]) :
           q.parent[z] = y /\ y < z /\ z < q.next_tid
    BY Zenon DEF Families
  <2>3. \A n \in Nat : n < q.next_tid => n < r.next_tid
    BY ONLY <1>0
  <2>. QED
    BY ONLY <2>1, <2>2, <2>3, Zenon
<1>4. CASE thread
  <2>1. /\ r.pstate = q.pstate /\ r.parent = q.parent
        /\ r.children = q.children /\ r.pcbs = q.pcbs
    BY <1>4, Zenon DEF Cloned
  <2>. QED
    BY <1>1, <1>3, <2>1 DEF Families, OwedIn
<1>5. CASE ~thread
  <2>1. PICK p : p = q.proc[me]
    OBVIOUS
  <2>2. /\ x = q.next_tid
        /\ r.pstate = [q.pstate EXCEPT ![x] = "Running"]
        /\ r.parent = [q.parent EXCEPT ![x] = p]
        /\ r.children = [q.children EXCEPT ![p] = Append(q.children[p], x)]
        /\ r.pcbs = q.pcbs \cup {x}
    BY <1>5, <2>1, Zenon DEF Cloned
  <2>3. /\ q.pstate \in [Pids -> {"None", "Running", "Exited", "Dead"}]
        /\ q.parent \in [Pids -> Pids] /\ q.children \in [Pids -> Seq(Pids)]
        /\ q.pcbs \in SUBSET Pids /\ p \in Pids /\ p \in q.pcbs
    BY <2>1, Zenon DEF Typed
  <2>4. /\ r.pstate[x] = "Running" /\ r.parent[x] = p
        /\ r.children[p] = Append(q.children[p], x)
        /\ \A y \in Pids : y # x => r.pstate[y] = q.pstate[y] /\ r.parent[y] = q.parent[y]
        /\ \A y \in Pids : y # p => r.children[y] = q.children[y]
    BY <1>0, <2>2, <2>3
  <2>5. /\ x \notin q.pcbs /\ q.pstate[x] = "None" /\ q.reaped[x] = 0
        /\ p < x /\ x < r.next_tid
    BY <1>0, <2>1, <2>2 DEF Fresh
  <2>6. \A y \in Pids : x \notin Entries(q.children[y])
    BY <1>0, <1>3, <2>2
  <2>7. \A z : z \in Entries(r.children[p]) <=> z \in Entries(q.children[p]) \/ z = x
    BY <1>0, <2>3, <2>4, Pushed
  <2>8. \A y \in Pids : OwedIn(r, y) <=> OwedIn(q, y) \/ y = x
    BY <2>2, <2>4, <2>5, Zenon DEF OwedIn
  <2>9. INIT \in r.pcbs /\ \A y \in r.pcbs : r.pstate[y] # "Exited"
    BY <2>2, <2>3, <2>4, Zenon DEF Families
  <2>10. \A y \in Pids : OwedIn(r, y) => r.reaped[y] = 0
    BY <1>1, <2>5, <2>8, Zenon DEF Families
  <2>11. ASSUME NEW y \in Pids, NEW z \in Entries(r.children[y])
         PROVE  r.parent[z] = y /\ y < z /\ z < r.next_tid
    <3>1. CASE z = x
      <4>1. y = p
        BY <2>4, <2>6, <2>11, <3>1, Zenon
      <4>. QED
        BY <2>4, <2>5, <3>1, <4>1, Zenon
    <3>2. CASE z # x
      <4>1. z \in Entries(q.children[y])
        BY <2>4, <2>7, <2>11, <3>2, Zenon
      <4>. QED
        BY <1>2, <1>3, <2>4, <3>2, <4>1, Zenon
    <3>. QED
      BY <3>1, <3>2, Zenon
  <2>12. ASSUME NEW y \in Pids
         PROVE  \A i, j \in 1..Len(r.children[y]) : r.children[y][i] = r.children[y][j] => i = j
    <3>1. \A i, j \in 1..Len(q.children[y]) : q.children[y][i] = q.children[y][j] => i = j
      BY Zenon DEF Families
    <3>2. CASE y = p
      <4>1. q.children[p] \in Seq(Pids) /\ x \notin Entries(q.children[p])
        BY <2>3, <2>6, Zenon
      <4>2. PICK s : s = q.children[p]
        OBVIOUS
      <4>3. /\ s \in Seq(Pids) /\ x \notin Entries(s)
            /\ \A i, j \in 1..Len(s) : s[i] = s[j] => i = j
        BY <3>1, <3>2, <4>1, <4>2, Zenon
      <4>4. \A i, j \in 1..Len(Append(s, x)) : Append(s, x)[i] = Append(s, x)[j] => i = j
        BY ONLY <1>0, <4>3, Pushed, Zenon
      <4>5. r.children[y] = Append(s, x)
        BY <2>4, <3>2, <4>2, Zenon
      <4>. QED
        BY ONLY <4>4, <4>5, Zenon
    <3>3. CASE y # p
      BY <2>4, <3>1, <3>3, Zenon
    <3>. QED
      BY <3>2, <3>3, Zenon
  <2>13. ASSUME NEW z \in Pids, OwedIn(r, z), z # INIT
         PROVE  r.parent[z] \in r.pcbs /\ z \in Entries(r.children[r.parent[z]])
    <3>1. CASE z = x
      BY <2>2, <2>3, <2>4, <2>7, <3>1, Zenon
    <3>2. CASE z # x
      <4>1. q.parent[z] \in q.pcbs /\ z \in Entries(q.children[q.parent[z]])
        BY <2>8, <2>13, <3>2, Zenon DEF Families
      <4>2. z \in Entries(r.children[q.parent[z]])
        BY <2>3, <2>4, <2>7, <4>1, Zenon
      <4>. QED
        BY <2>2, <2>4, <3>2, <4>1, <4>2, Zenon
    <3>. QED
      BY <3>1, <3>2, Zenon
  <2>. QED
    BY <2>9, <2>10, <2>11, <2>12, <2>13, Zenon DEF Families
<1>. QED
  BY <1>4, <1>5, Zenon

\* The run queue does not know the clone yet; its tid is above all the others.
LEMMA ClonedQueueing ==
    ASSUME NEW q, Typed(q), Fresh(q), Queueing(q), NEW me \in Tasks, NEW c \in Tasks,
           q.state[c] = "None", NEW thread, NEW x, NEW r, Cloned(q, r, me, c, x, thread)
    PROVE  Queueing(r) /\ c \notin Entries(q.queue) /\ ~Waits(q, c)
<1>1. /\ r.queue = q.queue /\ r.vfork = q.vfork
      /\ r.tid = [q.tid EXCEPT ![c] = q.next_tid]
      /\ r.state = [q.state EXCEPT ![c] = "Ready"]
  BY Zenon DEF Cloned, Except, Fields
<1>2. /\ q.state \in [Tasks -> TaskState] /\ q.tid \in [Tasks -> Nat]
      /\ q.vfork \in [Tasks -> Tasks \cup {NoTask}] /\ q.queue \in Seq(Tasks)
      /\ Entries(q.queue) \subseteq Tasks
  BY TypedLists, Zenon DEF Typed
<1>3. c \notin Entries(q.queue) /\ ~Waits(q, c)
  <2>1. NoTask \notin Tasks
    BY NoTaskAssumption, Zenon
  <2>. QED
    BY <1>2, <2>1, Zenon DEF Queueing, Waits
<1>4. /\ r.state[c] = "Ready" /\ r.tid[c] = q.next_tid
      /\ \A t \in Tasks : t # c => r.state[t] = q.state[t] /\ r.tid[t] = q.tid[t]
  BY <1>1, <1>2, Zenon
<1>5. TidsDiffer(r.queue, r.tid)
  <2>1. \A i \in 1..Len(q.queue) : q.queue[i] \in Tasks /\ q.queue[i] # c
    BY <1>2, <1>3, Zenon DEF Entries
  <2>2. \A i \in 1..Len(q.queue) : r.tid[q.queue[i]] = q.tid[q.queue[i]]
    BY <1>4, <2>1, Zenon
  <2>. QED
    BY <1>1, <2>2 DEF Queueing, TidsDiffer
<1>6. \A t \in Entries(r.queue) : r.state[t] \in {"Ready", "Exited"}
  BY <1>1, <1>2, <1>3, <1>4, Zenon DEF Queueing
<1>7. ASSUME NEW d \in Tasks, r.vfork[d] # NoTask
      PROVE  /\ r.state[r.vfork[d]] \in {"BlockedUninterruptible", "Exited"}
             /\ r.vfork[d] \notin Entries(r.queue)
  <2>1. q.vfork[d] \in Tasks /\ q.vfork[d] # c
    BY <1>1, <1>2, <1>3, <1>7 DEF Waits
  <2>. QED
    BY <1>1, <1>4, <1>7, <2>1 DEF Queueing
<1>8. \A d, e \in Tasks : r.vfork[d] # NoTask /\ r.vfork[d] = r.vfork[e] => d = e
  BY <1>1 DEF Queueing
<1>9. ASSUME NEW t \in Tasks, NEW u \in Tasks, Active(r, t), Active(r, u), r.tid[t] = r.tid[u]
      PROVE  t = u
  <2>1. \A v \in Tasks : v # c /\ Active(r, v) => Active(q, v)
    BY <1>1, <1>4, Zenon DEF Active, Alive, Waits
  <2>2. \A v \in Tasks : v # c => r.tid[v] # r.tid[c]
    <3>1. \A v \in Tasks : q.tid[v] < q.next_tid /\ q.tid[v] \in Nat /\ q.next_tid \in Nat
      BY <1>2, ClonedNumbers, Zenon DEF Fresh
    <3>2. \A m, n \in Nat : m < n => m # n
      OBVIOUS
    <3>. QED
      BY <1>4, <3>1, <3>2, Zenon
  <2>3. CASE t = c \/ u = c
    BY <1>9, <2>2, <2>3, Zenon
  <2>4. CASE t # c /\ u # c
    BY <1>4, <1>9, <2>1, <2>4, Zenon DEF Queueing
  <2>. QED
    BY <2>3, <2>4, Zenon
<1>. QED
  BY <1>3, <1>5, <1>6, <1>7, <1>8, <1>9, Zenon DEF Queueing

\* What clone has not handed out yet is above the clone.
LEMMA ClonedFresh ==
    ASSUME NEW q, Typed(q), Fresh(q), NEW me \in Tasks, NEW c \in Tasks,
           q.state[c] = "None", \A t \in Tasks : q.state[t] = "None" => c <= t,
           NEW thread, NEW x, NEW r, Cloned(q, r, me, c, x, thread)
    PROVE  Fresh(r)
<1>0. /\ q.next_tid \in Nat /\ q.next_tid \in Pids /\ x \in Pids
      /\ q.next_tid < r.next_tid /\ r.next_tid \in Nat /\ r.next_tid = q.next_tid + 1
      /\ \A t \in Tasks : t \in Nat
      /\ \A p \in Pids : p \in Nat
  <2>1. r.next_tid = q.next_tid + 1
    BY Zenon DEF Cloned
  <2>. QED
    BY <2>1, ClonedNumbers DEF Pids
<1>1. /\ r.vfork = q.vfork /\ r.pc = q.pc /\ r.reaped = q.reaped
      /\ r.waiting_task = q.waiting_task
      /\ r.tid = [q.tid EXCEPT ![c] = q.next_tid]
      /\ r.proc = [q.proc EXCEPT ![c] = x]
      /\ r.state = [q.state EXCEPT ![c] = "Ready"]
      /\ r.tasks = [q.tasks EXCEPT ![x] = Append(q.tasks[x], c)]
  BY Zenon DEF Cloned, Except, Fields
<1>2. /\ q.state \in [Tasks -> TaskState] /\ q.tid \in [Tasks -> Nat]
      /\ q.proc \in [Tasks -> Pids] /\ q.tasks \in [Pids -> Seq(Tasks)]
      /\ q.pstate \in [Pids -> {"None", "Running", "Exited", "Dead"}]
      /\ q.children \in [Pids -> Seq(Pids)] /\ q.proc[me] \in Pids
  BY Zenon DEF Typed
<1>3. \A t \in Tasks : q.tid[t] < q.next_tid /\ q.proc[t] < q.next_tid
  BY Zenon DEF Fresh
<1>4. x \in {q.proc[me], q.next_tid} /\ x < r.next_tid /\ q.proc[me] < r.next_tid
  <2>1. x = q.proc[me] \/ x = q.next_tid
    BY Zenon DEF Cloned
  <2>2. q.proc[me] < q.next_tid /\ q.proc[me] \in Nat
    BY <1>0, <1>2, <1>3, Zenon
  <2>3. \A n \in Nat : n < q.next_tid => n < r.next_tid
    BY ONLY <1>0
  <2>. QED
    BY <1>0, <2>1, <2>2, <2>3, Zenon
<1>5. \A t \in Tasks : r.tid[t] < r.next_tid /\ r.proc[t] < r.next_tid
  <2>1. \A n \in Nat : n < q.next_tid => n < r.next_tid
    BY ONLY <1>0
  <2>2. \A t \in Tasks : q.tid[t] < r.next_tid /\ q.proc[t] < r.next_tid
    BY <1>0, <1>2, <1>3, <2>1, Zenon
  <2>3. \A t \in Tasks : /\ r.tid[t] = q.tid[t] \/ r.tid[t] = q.next_tid
                         /\ r.proc[t] = q.proc[t] \/ r.proc[t] = x
    BY <1>1, <1>2, Zenon
  <2>. QED
    BY <1>0, <1>4, <2>2, <2>3, Zenon
<1>6. ASSUME NEW t \in Tasks, r.state[t] = "None"
      PROVE  r.next_tid <= t /\ r.pc[t] = User /\ r.vfork[t] = NoTask
  <2>1. t # c /\ q.state[t] = "None"
    BY <1>1, <1>2, <1>6, Zenon
  <2>2. q.next_tid <= c /\ c <= t /\ q.pc[t] = User /\ q.vfork[t] = NoTask
    BY <2>1, Zenon DEF Fresh
  <2>3. q.next_tid + 1 <= t
    BY ONLY <1>0, <2>1, <2>2, c \in Tasks, t \in Tasks
  <2>. QED
    BY <1>0, <1>1, <2>2, <2>3, Zenon
<1>7. ASSUME NEW p \in Pids, r.next_tid <= p
      PROVE  /\ p \notin r.pcbs /\ r.pstate[p] = "None" /\ r.reaped[p] = 0
             /\ r.children[p] = <<>> /\ r.tasks[p] = <<>> /\ r.waiting_task[p] = <<>>
  <2>1. q.next_tid <= p /\ p # x /\ p # q.proc[me]
    <3>1. \A n \in Nat : n < r.next_tid => n # p
      BY <1>0, <1>7
    <3>2. q.next_tid <= p
      BY <1>0, <1>7
    <3>. QED
      BY <1>0, <1>2, <1>4, <3>1, <3>2, Zenon
  <2>2. /\ p \notin q.pcbs /\ q.pstate[p] = "None" /\ q.reaped[p] = 0
        /\ q.children[p] = <<>> /\ q.tasks[p] = <<>> /\ q.waiting_task[p] = <<>>
    BY <2>1, Zenon DEF Fresh
  <2>3. r.tasks[p] = q.tasks[p]
    BY <1>1, <1>2, <2>1, Zenon
  <2>4. p \in r.pcbs => p \in q.pcbs
    BY <2>1 DEF Cloned
  <2>5. r.pstate[p] = q.pstate[p]
    <3>1. r.pstate = q.pstate \/ r.pstate = [q.pstate EXCEPT ![x] = "Running"]
      BY Zenon DEF Cloned
    <3>. QED
      BY ONLY <1>2, <2>1, <3>1, p \in Pids, Zenon
  <2>6. r.children[p] = q.children[p]
    <3>1. PICK y, s : y = q.proc[me] /\ s = Append(q.children[q.proc[me]], x)
      BY Zenon
    <3>2. r.children = q.children \/ r.children = [q.children EXCEPT ![y] = s]
      BY <3>1, Zenon DEF Cloned
    <3>. QED
      BY ONLY <1>2, <2>1, <3>1, <3>2, p \in Pids, Zenon
  <2>. QED
    BY <1>1, <2>2, <2>3, <2>4, <2>5, <2>6, Zenon
<1>. QED
  BY <1>5, <1>6, <1>7, Zenon DEF Fresh

\* The clone is the last thread of its process, and the first of a new one.
LEMMA ClonedThreads ==
    ASSUME NEW q, Typed(q), Fresh(q), Threads(q), NEW me \in Tasks, Alive(q, me),
           NEW c \in Tasks, q.state[c] = "None",
           NEW thread, NEW x, NEW r, Cloned(q, r, me, c, x, thread)
    PROVE  /\ Threads(r)
           /\ Len(r.tasks[x]) = Len(q.tasks[x]) + 1 /\ Len(q.tasks[x]) \in Nat
           /\ \A p \in Pids : p # x => r.tasks[p] = q.tasks[p]
           /\ thread => Len(q.tasks[x]) # 0
           /\ ~thread => Len(q.tasks[x]) = 0
<1>0. q.next_tid \in Pids /\ x \in Pids /\ q.next_tid \in Nat
  BY ClonedNumbers, Zenon
<1>1. /\ r.waiting_task = q.waiting_task
      /\ r.proc = [q.proc EXCEPT ![c] = x]
      /\ r.state = [q.state EXCEPT ![c] = "Ready"]
      /\ q.next_tid \in Pids /\ x \in Pids /\ q.next_tid \in Nat
  BY <1>0, Zenon DEF Cloned, Except, Fields
<1>2. /\ q.state \in [Tasks -> TaskState] /\ q.proc \in [Tasks -> Pids]
      /\ q.tasks \in [Pids -> Seq(Tasks)]
      /\ \A p \in Pids : Entries(q.tasks[p]) \subseteq Tasks
      /\ \A p \in Pids : Entries(q.waiting_task[p]) \subseteq Tasks
  BY TypedLists, Zenon DEF Typed
<1>3. /\ r.state[c] = "Ready" /\ r.proc[c] = x
      /\ \A t \in Tasks : t # c => r.state[t] = q.state[t] /\ r.proc[t] = q.proc[t]
  BY <1>1, <1>2, Zenon
<1>4. /\ \A z : z \in Entries(r.tasks[x]) <=> z \in Entries(q.tasks[x]) \/ z = c
      /\ Len(r.tasks[x]) = Len(q.tasks[x]) + 1 /\ Len(q.tasks[x]) \in Nat
      /\ \A p \in Pids : p # x => r.tasks[p] = q.tasks[p]
  <2>1. PICK s, u : s = q.tasks[x] /\ u = Append(s, c)
    BY Zenon
  <2>2. s \in Seq(Tasks)
    BY <1>1, <1>2, <2>1, Zenon
  <2>3. r.tasks = [q.tasks EXCEPT ![x] = u]
    BY <2>1, Zenon DEF Cloned
  <2>4. r.tasks[x] = u /\ \A p \in Pids : p # x => r.tasks[p] = q.tasks[p]
    BY ONLY <1>1, <1>2, <2>3, Zenon
  <2>5. (\A z : z \in Entries(u) <=> z \in Entries(s) \/ z = c) /\ Len(u) = Len(s) + 1
    BY <2>1, <2>2, Pushed
  <2>. QED
    BY <2>1, <2>2, <2>4, <2>5
<1>5. \A p \in Pids : c \notin Entries(q.tasks[p]) \cup Entries(q.waiting_task[p])
  BY Zenon DEF Threads
<1>6. q.proc[me] \in q.pcbs /\ me \in Entries(q.tasks[q.proc[me]])
  BY Zenon DEF Threads
<1>7. q.pcbs \subseteq r.pcbs /\ x \in r.pcbs
  <2>1. \/ x = q.proc[me] /\ r.pcbs = q.pcbs
        \/ r.pcbs = q.pcbs \cup {x}
    BY Zenon DEF Cloned
  <2>. QED
    BY ONLY <1>6, <2>1, Zenon
<1>8. ASSUME NEW t \in Tasks, Alive(r, t)
      PROVE  r.proc[t] \in r.pcbs /\ t \in Entries(r.tasks[r.proc[t]])
  <2>1. CASE t = c
    BY <1>3, <1>4, <1>7, <2>1, Zenon
  <2>2. CASE t # c
    <3>1. Alive(q, t) /\ r.proc[t] = q.proc[t] /\ q.proc[t] \in Pids
      BY <1>2, <1>3, <1>8, <2>2, Zenon DEF Alive
    <3>2. q.proc[t] \in q.pcbs /\ t \in Entries(q.tasks[q.proc[t]])
      BY <3>1, Zenon DEF Threads
    <3>. QED
      BY <1>4, <1>7, <3>1, <3>2, Zenon
  <2>. QED
    BY <2>1, <2>2, Zenon
<1>9. ASSUME NEW p \in Pids, NEW t \in Entries(r.tasks[p]) \cup Entries(r.waiting_task[p])
      PROVE  r.proc[t] = p /\ r.state[t] # "None"
  <2>1. CASE t = c
    <3>1. p = x
      BY <1>1, <1>4, <1>5, <2>1, Zenon
    <3>. QED
      BY <1>3, <2>1, <3>1, Zenon
  <2>2. CASE t # c
    <3>1. t \in Entries(q.tasks[p]) \cup Entries(q.waiting_task[p])
      BY <1>1, <1>4, <2>2, Zenon
    <3>2. t \in Tasks /\ q.proc[t] = p /\ q.state[t] # "None"
      BY <1>2, <3>1, Zenon DEF Threads
    <3>. QED
      BY <1>3, <2>2, <3>2, Zenon
  <2>. QED
    BY <2>1, <2>2, Zenon
<1>10. Threads(r)
  BY <1>8, <1>9, Zenon DEF Threads
<1>11. ASSUME thread PROVE Len(q.tasks[x]) # 0
  <2>1. PICK s : s = q.tasks[x]
    OBVIOUS
  <2>2. x = q.proc[me]
    BY <1>11, Zenon DEF Cloned
  <2>3. me \in Entries(s) /\ s \in Seq(Tasks)
    BY <1>1, <1>2, <1>6, <2>1, <2>2, Zenon
  <2>4. Len(s) # 0
    BY ONLY <2>3 DEF Entries
  <2>. QED
    BY <2>1, <2>4, Zenon
<1>12. ASSUME ~thread PROVE Len(q.tasks[x]) = 0
  <2>1. x = q.next_tid
    BY <1>12, Zenon DEF Cloned
  <2>2. q.next_tid <= x
    BY <1>1, <2>1
  <2>3. q.tasks[x] = <<>>
    BY <1>1, <2>2, Zenon DEF Fresh
  <2>. QED
    BY <2>3
<1>. QED
  BY <1>4, <1>10, <1>11, <1>12, Zenon

LEMMA ClonedSleepers ==
    ASSUME NEW q, Typed(q), Fresh(q), Families(q), Threads(q), Sleeping(q), Waiting(q),
           NEW me \in Tasks, q.state[me] = "Running",
           NEW c \in Tasks, q.state[c] = "None",
           NEW thread, NEW x, NEW r, Cloned(q, r, me, c, x, thread)
    PROVE  Sleeping(r) /\ Waiting(r)
<1>1. /\ r.pc = q.pc /\ r.event = q.event /\ r.waiting_task = q.waiting_task
      /\ r.proc = [q.proc EXCEPT ![c] = x]
      /\ r.state = [q.state EXCEPT ![c] = "Ready"]
      /\ x = q.proc[me] \/ x = q.next_tid
  BY Zenon DEF Cloned, Except, Fields
<1>2. /\ q.state \in [Tasks -> TaskState] /\ q.proc \in [Tasks -> Pids]
      /\ q.parent \in [Pids -> Pids] /\ q.pc \in [Tasks -> Places]
      /\ \A p \in Pids : Entries(q.children[p]) \subseteq Pids
  BY TypedLists, Zenon DEF Typed
<1>3. /\ r.state[c] = "Ready" /\ r.proc[c] = x
      /\ \A t \in Tasks : t # c => r.state[t] = q.state[t] /\ r.proc[t] = q.proc[t]
  BY <1>1, <1>2, Zenon
<1>4. /\ q.next_tid \in Nat /\ q.next_tid < r.next_tid /\ r.next_tid \in Nat
      /\ q.next_tid \in Pids /\ x \in Pids /\ \A n \in Pids : n \in Nat
  <2>1. r.next_tid = q.next_tid + 1
    BY Zenon DEF Cloned
  <2>. QED
    BY <2>1, ClonedNumbers, TaskNumbers
<1>5. r.pc[c] = User
  BY <1>1, Zenon DEF Fresh
<1>6. \A t \in Tasks : q.pc[t].at = "wait_child" => q.pc[t].arg \in Pids
  BY <1>2 DEF Places, At, User
<1>7. \A p \in Pids : p < q.next_tid => p < r.next_tid /\ r.parent[p] = q.parent[p]
  <2>1. r.parent = q.parent \/ (x = q.next_tid /\ r.parent = [q.parent EXCEPT ![x] = q.proc[me]])
    BY Zenon DEF Cloned
  <2>2. \A p \in Pids : p < q.next_tid => p < r.next_tid /\ p # q.next_tid
    BY ONLY <1>4
  <2>. QED
    BY ONLY <1>2, <1>4, <2>1, <2>2, Zenon
<1>8. \A p \in Pids : p < q.next_tid => r.pstate[p] = q.pstate[p]
  <2>1. q.pstate \in [Pids -> {"None", "Running", "Exited", "Dead"}]
    BY Zenon DEF Typed
  <2>2. r.pstate = q.pstate \/ (x = q.next_tid /\ r.pstate = [q.pstate EXCEPT ![x] = "Running"])
    BY Zenon DEF Cloned
  <2>3. \A p \in Pids : p < q.next_tid => p # q.next_tid
    BY ONLY <1>4
  <2>. QED
    BY ONLY <1>4, <2>1, <2>2, <2>3, Zenon
<1>9. Sleeping(r)
  <2>1. ASSUME NEW t \in Tasks, t # c, Alive(r, t), r.pc[t].at = "wait_child"
        PROVE  r.pc[t].arg < r.next_tid /\ r.parent[r.pc[t].arg] = r.proc[t]
    <3>1. Alive(q, t) /\ q.pc[t].at = "wait_child" /\ r.proc[t] = q.proc[t]
      BY <1>1, <1>3, <2>1, Zenon DEF Alive
    <3>2. /\ q.pc[t].arg < q.next_tid /\ q.parent[q.pc[t].arg] = q.proc[t]
          /\ q.pc[t].arg \in Pids
      BY <1>6, <3>1, Zenon DEF Sleeping
    <3>. QED
      BY <1>1, <1>7, <3>1, <3>2
  <2>2. r.pc[c].at = "user"
    BY <1>5 DEF User, At
  <2>3. ASSUME NEW t \in Tasks, t # c
        PROVE  /\ r.state[t] = "Blocked" => r.pc[t].at \in {"wait_child", "wait_any"}
               /\ r.state[t] = "BlockedUninterruptible" => r.pc[t].at = "vfork"
               /\ r.state[t] = "Ready" /\ r.pc[t].at = "vfork" => r.event[t] = Ev("VFork", 0)
               /\ r.state[t] = "Ready" /\ r.pc[t].at \in {"wait_child", "wait_any"} =>
                     r.event[t] = Ev("Signal", 0) \/ \E p \in Pids : r.event[t] = Ev("Process", p)
    <3>1. r.state[t] = q.state[t] /\ r.pc = q.pc /\ r.event = q.event
      BY <1>1, <1>3, <2>3, Zenon
    <3>. QED
      BY <3>1 DEF Sleeping
  <2>. QED
    BY ONLY <1>3, <2>1, <2>2, <2>3, Zenon DEF Sleeping
<1>10. Waiting(r)
  <2>1. SUFFICES ASSUME NEW t \in Tasks, AloneAt(r, t), r.state[t] \in {"Blocked", "Ready"}
                 PROVE  /\ r.state[t] = "Blocked" =>
                             /\ t \in Entries(r.waiting_task[r.proc[t]])
                             /\ \A d \in Entries(r.children[r.proc[t]]) :
                                   r.pstate[d] # "Exited"
                        /\ r.state[t] = "Ready" =>
                             \A d \in Pids : r.event[t] = Ev("Process", d) =>
                                d \in Entries(r.children[r.proc[t]]) /\ r.pstate[d] = "Exited"
    BY Zenon DEF Waiting
  <2>2. t # c
    BY <1>5, <2>1 DEF AloneAt, User, At
  <2>3. /\ r.proc[t] = q.proc[t] /\ r.state[t] = q.state[t] /\ q.proc[t] \in Pids
        /\ q.proc[t] < q.next_tid /\ t # me
    BY <1>2, <1>3, <2>1, <2>2, Zenon DEF Fresh
  <2>4. /\ Alive(q, me) /\ Alive(q, t)
    BY <2>1, <2>3, Zenon DEF Alive
  <2>5. Len(r.tasks[q.proc[t]]) = 1
    BY <2>1, <2>3, Zenon DEF AloneAt
  <2>6. q.proc[t] # x
    <3>1. thread => Len(r.tasks[x]) # 1
      <4>1. /\ Len(r.tasks[x]) = Len(q.tasks[x]) + 1 /\ Len(q.tasks[x]) \in Nat
            /\ thread => Len(q.tasks[x]) # 0
        BY <2>4, ClonedThreads
      <4>. QED
        BY ONLY <4>1
    <3>2. ~thread => x = q.next_tid
      BY Zenon DEF Cloned
    <3>3. q.proc[t] # q.next_tid
      BY ONLY <1>4, <2>3
    <3>. QED
      BY <2>5, <3>1, <3>2, <3>3, Zenon
  <2>7. r.tasks[q.proc[t]] = q.tasks[q.proc[t]]
    BY <2>3, <2>4, <2>6, ClonedThreads
  <2>8. q.proc[t] # q.proc[me]
    <3>1. SUFFICES ASSUME q.proc[t] = q.proc[me] PROVE FALSE
      OBVIOUS
    <3>2. PICK s : s = q.tasks[q.proc[t]]
      OBVIOUS
    <3>3. t \in Entries(s) /\ me \in Entries(s) /\ Len(s) = 1
      BY <2>4, <2>5, <2>7, <3>1, <3>2, Zenon DEF Threads
    <3>. QED
      BY ONLY <2>3, <3>3 DEF Entries
  <2>9. r.children[q.proc[t]] = q.children[q.proc[t]]
    <3>1. PICK y, s : y = q.proc[me] /\ s = Append(q.children[q.proc[me]], x)
      BY Zenon
    <3>2. r.children = q.children \/ r.children = [q.children EXCEPT ![y] = s]
      BY <3>1, Zenon DEF Cloned
    <3>3. q.children \in [Pids -> Seq(Pids)]
      BY Zenon DEF Typed
    <3>. QED
      BY ONLY <2>3, <2>8, <3>1, <3>2, <3>3, Zenon
  <2>10. AloneAt(q, t)
    BY <1>1, <2>1, <2>3, <2>7 DEF AloneAt
  <2>11. \A d \in Entries(q.children[q.proc[t]]) : r.pstate[d] = q.pstate[d]
    BY <1>2, <1>8, <2>3, Zenon DEF Families
  <2>12. /\ q.state[t] = "Blocked" =>
              /\ t \in Entries(q.waiting_task[q.proc[t]])
              /\ \A d \in Entries(q.children[q.proc[t]]) : q.pstate[d] # "Exited"
         /\ q.state[t] = "Ready" =>
              \A d \in Pids : q.event[t] = Ev("Process", d) =>
                 d \in Entries(q.children[q.proc[t]]) /\ q.pstate[d] = "Exited"
    BY <2>10, Zenon DEF Waiting
  <2>. QED
    BY <1>1, <2>3, <2>9, <2>11, <2>12, ZenonT(30)
<1>. QED
  BY <1>9, <1>10, Zenon

LEMMA ClonedPeace ==
    ASSUME NEW q, Typed(q), Fresh(q), Threads(q), Peaceful(q), VForked(q, NoTask),
           NEW me \in Tasks, Alive(q, me), NEW c \in Tasks, q.state[c] = "None",
           NEW thread, thread => ~Quiet(q),
           NEW x, NEW r, Cloned(q, r, me, c, x, thread)
    PROVE  Peaceful(r) /\ VForked(r, NoTask)
<1>1. /\ r.load = q.load /\ r.pending_signal = q.pending_signal /\ r.pending = q.pending
      /\ r.vfork = q.vfork /\ r.state = [q.state EXCEPT ![c] = "Ready"]
  BY Zenon DEF Cloned, Except, Fields
<1>2. q.state \in [Tasks -> TaskState]
  BY Zenon DEF Typed
<1>3. Quiet(r) = Quiet(q)
  BY <1>1, Zenon DEF Quiet
<1>4. Quiet(r) => \A p \in Pids : Len(r.tasks[p]) <= 1
  <2>1. SUFFICES ASSUME Quiet(r), NEW p \in Pids PROVE Len(r.tasks[p]) <= 1
    OBVIOUS
  <2>2. Len(q.tasks[p]) <= 1 /\ ~thread
    BY <1>3, <2>1, Zenon DEF Peaceful
  <2>3. /\ Len(r.tasks[x]) = Len(q.tasks[x]) + 1
        /\ Len(q.tasks[x]) = 0
        /\ p # x => r.tasks[p] = q.tasks[p]
    BY <2>1, <2>2, ClonedThreads
  <2>4. Len(r.tasks[x]) <= 1
    BY ONLY <2>3
  <2>. QED
    BY <2>2, <2>3, <2>4, Zenon
<1>5. Peaceful(r)
  BY <1>1, <1>3, <1>4 DEF Peaceful
<1>6. /\ \A t \in Tasks : Alive(q, t) => Alive(r, t)
      /\ \A t \in Tasks : r.state[t] = "BlockedUninterruptible" =>
            q.state[t] = "BlockedUninterruptible"
  BY <1>1, <1>2, Zenon DEF Alive
<1>7. VForked(r, NoTask)
  BY <1>1, <1>3, <1>6 DEF VForked
<1>. QED
  BY <1>5, <1>7, Zenon

\* TCB::create_clone, PCB::new_clone: the kernel with the clone is sound, and the
\* caller can still see it is not on the run queue.
LEMMA CloneSound ==
    ASSUME NEW q, Sound(q, NoTask), q.fate = "up", NEW me \in Tasks,
           q.state[me] = "Running", CanBuild(q), NEW thread \in BOOLEAN,
           thread => ~Quiet(q), NEW c, c = new_task(q),
           NEW r, r = clone_task(q, me, thread)
    PROVE  /\ Sound(r, NoTask) /\ r.fate = "up"
           /\ c \in Tasks /\ c # me /\ r.state[c] = "Ready" /\ c \notin Entries(r.queue)
           /\ ~Waits(r, c)
           /\ r.state[me] = "Running" /\ r.vfork[c] = NoTask /\ r.load = q.load
<1>1. Typed(q) /\ Queueing(q) /\ Fresh(q)
  BY Zenon DEF Sound
<1>2. /\ Families(q) /\ Threads(q) /\ Sleeping(q) /\ Waiting(q)
      /\ Peaceful(q) /\ VForked(q, NoTask)
  BY Zenon DEF Sound
<1>3. /\ c \in Tasks /\ q.state[c] = "None"
      /\ \A t \in Tasks : q.state[t] = "None" => c <= t
  BY <1>1, NewTask, Zenon
<1>4. PICK x : Cloned(q, r, me, c, x, thread)
  BY <1>1, Clones, Zenon
<1>5. /\ r.fate = q.fate /\ r.queue = q.queue /\ r.vfork = q.vfork /\ r.load = q.load
      /\ r.state = [q.state EXCEPT ![c] = "Ready"]
  BY <1>4, Zenon DEF Cloned, Except, Fields
<1>6. q.state \in [Tasks -> TaskState] /\ c # me /\ Alive(q, me)
  BY <1>1, <1>3, Zenon DEF Typed, Alive
<1>7. r.state[c] = "Ready" /\ r.state[me] = "Running"
  BY ONLY <1>3, <1>5, <1>6, q.state[me] = "Running", me \in Tasks, Zenon
<1>8. /\ Queueing(r) /\ c \notin Entries(r.queue) /\ ~Waits(r, c)
  <2>1. Queueing(r) /\ c \notin Entries(q.queue) /\ ~Waits(q, c)
    BY <1>1, <1>3, <1>4, ClonedQueueing, Zenon
  <2>. QED
    BY <1>5, <2>1, Zenon DEF Waits
<1>9. r.vfork[c] = NoTask
  BY <1>1, <1>3, <1>5 DEF Fresh
<1>10. Typed(r) /\ Fresh(r)
  BY <1>1, <1>3, <1>4, ClonedTyped, ClonedFresh, Zenon
<1>11. Families(r)
  BY <1>1, <1>2, <1>3, <1>4, <1>6, ClonedFamilies, Zenon DEF Threads
<1>12. Threads(r)
  BY <1>1, <1>2, <1>3, <1>4, <1>6, ClonedThreads, Zenon
<1>13. Sleeping(r) /\ Waiting(r)
  BY <1>1, <1>2, <1>3, <1>4, ClonedSleepers, Zenon
<1>14. Peaceful(r) /\ VForked(r, NoTask)
  BY <1>1, <1>2, <1>3, <1>4, <1>6, ClonedPeace
<1>15. Sound(r, NoTask)
  BY <1>8, <1>10, <1>11, <1>12, <1>13, <1>14, Zenon DEF Sound
<1>. QED
  BY <1>3, <1>5, <1>6, <1>7, <1>8, <1>9, <1>15, Zenon

=============================================================================
