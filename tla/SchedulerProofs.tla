-------------------------- MODULE SchedulerProofs --------------------------
(***************************************************************************)
(* Proofs about Scheduler, for any set of tasks and events: the ready      *)
(* queue never holds one tid twice, no Ready task is lost, the hart runs   *)
(* one task, and a task that is woken finds an event.                      *)
(***************************************************************************)
EXTENDS Scheduler, TaskProofs

-----------------------------------------------------------------------------
(* The inductive invariant.                                                 *)

LEMMA InitIInv == Init => IInv
<1>. SUFFICES ASSUME Init PROVE IInv
  OBVIOUS
<1>1. ready_queue = <<InitTask>> /\ InitTask \in Tasks
  BY SchedulerAssumption DEF Init
<1>2. ready_queue \in Seq(Tasks) /\ Queued = {InitTask} /\ QueuedTidsDiffer
  BY <1>1 DEF Queued, Entries, QueuedTidsDiffer, TidsDiffer
<1>3. TypeOK
  BY <1>2, SchedulerAssumption DEF Init, TypeOK, TaskState
<1>. QED
  BY <1>2, <1>3, NoTaskAssumption
  DEF Init, IInv, ReadyTasksAreQueued, RunningIsCurrent, WakeupHasEvent,
      TidsAreAllocated, AwaitingExist, CurrentIsNotQueued, VForkParents,
      SharedTidsAreRetired, Existing

LEMMA RunNextIInv == IInv /\ RunNext => IInv'
<1>. SUFFICES ASSUME IInv, RunNext PROVE IInv'
  OBVIOUS
<1>. DEFINE t == Head(ready_queue)
<1>1. /\ ready_queue' = Tail(ready_queue)
      /\ state' = [state EXCEPT ![t] = "Running"]
      /\ wakeup_event' = wakeup_event
      /\ current' = t
      /\ current = NoTask
      /\ state[t] = "Ready"
      /\ ready_queue # <<>>
      /\ UNCHANGED <<awaiting, tid, next_tid, parent_waiting_vfork, stillborn>>
  BY DEF RunNext, SchedIs, run_if_ready, fetch_next_task, Sched
<1>2. /\ t \in Tasks
      /\ ready_queue' \in Seq(Tasks)
      /\ Queued = Queued' \cup {t}
      /\ QueuedTidsDiffer'
      /\ t \notin Queued'
  BY <1>1, FetchEntries, FetchTids DEF IInv, TypeOK, QueuedTidsDiffer, Queued
<1>3. TypeOK'
  BY <1>1, <1>2 DEF IInv, TypeOK, TaskState
<1>4. ReadyTasksAreQueued'
  BY <1>1, <1>2 DEF IInv, TypeOK, ReadyTasksAreQueued
<1>5. RunningIsCurrent'
  BY <1>1, <1>2, NoTaskAssumption DEF IInv, TypeOK, RunningIsCurrent
<1>6. WakeupHasEvent'
  BY <1>1, <1>2 DEF IInv, TypeOK, WakeupHasEvent
<1>7. TidsAreAllocated' /\ AwaitingExist' /\ CurrentIsNotQueued'
  BY <1>1, <1>2 DEF IInv, TypeOK, TidsAreAllocated, AwaitingExist, CurrentIsNotQueued,
      Existing
<1>8. VForkParents'
  BY <1>1, <1>2 DEF IInv, TypeOK, VForkParents
<1>9. SharedTidsAreRetired'
  BY <1>1, <1>2 DEF IInv, TypeOK, SharedTidsAreRetired, Retired, Existing
<1>. QED
  BY <1>2, <1>3, <1>4, <1>5, <1>6, <1>7, <1>8, <1>9 DEF IInv


LEMMA DropFetchedIInv ==
    ASSUME IInv, DropFetched
    PROVE  IInv'
<1>. DEFINE t == Head(ready_queue)
<1>1. /\ ready_queue' = Tail(ready_queue)
      /\ state[t] # "Ready"
      /\ ready_queue # <<>>
      /\ UNCHANGED <<state, wakeup_event, current, awaiting, tid, next_tid,
                     parent_waiting_vfork, stillborn>>
  BY DEF DropFetched, SchedIs, fetch_next_task, Sched
<1>2. /\ t \in Tasks
      /\ ready_queue' \in Seq(Tasks)
      /\ Queued = Queued' \cup {t}
      /\ QueuedTidsDiffer'
  BY <1>1, FetchEntries, FetchTids DEF IInv, TypeOK, QueuedTidsDiffer, Queued
<1>3. TypeOK'
  BY <1>1, <1>2 DEF IInv, TypeOK
<1>4. ReadyTasksAreQueued'
  BY <1>1, <1>2 DEF IInv, TypeOK, ReadyTasksAreQueued
<1>5. RunningIsCurrent' /\ WakeupHasEvent' /\ TidsAreAllocated' /\ AwaitingExist'
  BY <1>1 DEF IInv, RunningIsCurrent, WakeupHasEvent, TidsAreAllocated, AwaitingExist, Existing
<1>6. CurrentIsNotQueued' /\ VForkParents'
  BY <1>1, <1>2 DEF IInv, CurrentIsNotQueued, VForkParents
<1>7. SharedTidsAreRetired'
  BY <1>1, <1>2 DEF IInv, SharedTidsAreRetired, Retired, Existing
<1>. QED
  BY <1>2, <1>3, <1>4, <1>5, <1>6, <1>7 DEF IInv

\* A task that is neither Exited nor queued can be pushed: a queued task with
\* its tid would have to be Retired, and so would it.
LEMMA PushLive ==
    ASSUME IInv, NEW t \in Existing, t \notin Queued, state[t] # "Exited"
    PROVE  /\ Append(ready_queue, t) \in Seq(Tasks)
           /\ Entries(Append(ready_queue, t)) = Queued \cup {t}
           /\ TidsDiffer(Append(ready_queue, t), tid)
<1>1. ready_queue \in Seq(Tasks) /\ t \in Tasks
  BY DEF IInv, TypeOK, Existing
<1>2. \A u \in Queued : u \in Existing
  <2>1. \A u \in Queued : u \in Tasks
    BY <1>1 DEF Queued, Entries
  <2>. QED
    BY <2>1 DEF IInv, ReadyTasksAreQueued, Existing
<1>3. \A u \in Queued : tid[u] # tid[t]
  BY <1>2 DEF IInv, SharedTidsAreRetired, Retired
<1>. QED
  BY <1>1, <1>3, PushEntries, PushTids DEF Queued, IInv, QueuedTidsDiffer

LEMMA ScheduleIInv ==
    ASSUME IInv, Schedule
    PROVE  IInv'
<1>1. CASE state[current] = "Running"
  <2>1. /\ ready_queue' = Append(ready_queue, current)
        /\ state' = [state EXCEPT ![current] = "Ready"]
        /\ wakeup_event' = wakeup_event
        /\ current' = NoTask
        /\ current # NoTask
        /\ current \notin awaiting
        /\ UNCHANGED <<awaiting, tid, next_tid, parent_waiting_vfork, stillborn>>
    BY <1>1 DEF Schedule, SchedIs, requeue_if_running, push_task, Sched
  <2>2. current \in Existing /\ current \notin Queued
    BY <1>1, <2>1 DEF IInv, TypeOK, CurrentIsNotQueued, Existing
  <2>3. /\ ready_queue' \in Seq(Tasks)
        /\ Queued' = Queued \cup {current}
        /\ QueuedTidsDiffer'
    BY <1>1, <2>1, <2>2, PushLive DEF Queued, QueuedTidsDiffer
  <2>4. TypeOK'
    BY <2>1, <2>2, <2>3 DEF IInv, TypeOK, TaskState
  <2>5. ReadyTasksAreQueued'
    BY <2>1, <2>2, <2>3 DEF IInv, TypeOK, ReadyTasksAreQueued
  <2>6. RunningIsCurrent' /\ WakeupHasEvent' /\ CurrentIsNotQueued'
    BY <2>1, <2>2 DEF IInv, TypeOK, RunningIsCurrent, WakeupHasEvent,
                      CurrentIsNotQueued
  <2>7. TidsAreAllocated' /\ AwaitingExist'
    BY <2>1, <2>2 DEF IInv, TypeOK, TidsAreAllocated, AwaitingExist, Existing
  <2>8. VForkParents'
    BY <1>1, <2>1, <2>2, <2>3 DEF IInv, TypeOK, VForkParents
  <2>9. SharedTidsAreRetired'
    BY <1>1, <2>1, <2>2, <2>3 DEF IInv, TypeOK, SharedTidsAreRetired, Retired, Existing
  <2>. QED
    BY <2>3, <2>4, <2>5, <2>6, <2>7, <2>8, <2>9 DEF IInv
<1>2. CASE state[current] # "Running"
  <2>1. /\ current' = NoTask
        /\ UNCHANGED <<state, wakeup_event, ready_queue, awaiting, tid, next_tid,
                       parent_waiting_vfork, stillborn>>
    BY <1>2 DEF Schedule, SchedIs, requeue_if_running, Sched
  <2>2. Queued' = Queued /\ QueuedTidsDiffer'
    BY <2>1 DEF Queued, IInv, QueuedTidsDiffer
  <2>3. RunningIsCurrent'
    BY <1>2, <2>1 DEF IInv, RunningIsCurrent
  <2>. QED
    BY <2>1, <2>2, <2>3
    DEF IInv, TypeOK, ReadyTasksAreQueued, WakeupHasEvent, TidsAreAllocated, AwaitingExist,
        CurrentIsNotQueued, VForkParents, SharedTidsAreRetired, Retired, Existing
<1>. QED
  BY <1>1, <1>2

\* The current task changes its own state and leaves the queue alone.
LEMMA BlockIInv ==
    ASSUME IInv, NEW t \in Tasks, Block(t) \/ Unblock(t) \/ TakeWakeupEvent(t)
    PROVE  IInv'
<1>1. /\ current = t
      /\ state[t] \in {"Running", "Blocked"}
      /\ \/ /\ state' = [state EXCEPT ![t] = "Blocked"]
            /\ awaiting' = awaiting \cup {t}
            /\ wakeup_event' = wakeup_event
         \/ /\ state' = [state EXCEPT ![t] = "Running"]
            /\ awaiting' = awaiting \ {t}
            /\ wakeup_event' = wakeup_event
         \/ /\ state' = state
            /\ state[t] = "Running"
            /\ awaiting' = awaiting \ {t}
            /\ wakeup_event' = [wakeup_event EXCEPT ![t] = NoEvent]
      /\ UNCHANGED <<ready_queue, current, tid, next_tid, parent_waiting_vfork,
                     stillborn>>
  BY DEF Block, Unblock, TakeWakeupEvent, InKernel, SchedIs, block, unblock,
         take_wakeup_event, Sched
<1>2. Queued' = Queued /\ t \notin Queued /\ current # NoTask
  BY <1>1, NoTaskAssumption DEF IInv, CurrentIsNotQueued, Queued
<1>3. /\ current = t /\ current' = t
      /\ state[t] \in {"Running", "Blocked"}
      /\ UNCHANGED <<tid, next_tid, parent_waiting_vfork, stillborn>>
  BY <1>1
<1>4. /\ \A u \in Tasks : u # t => state'[u] = state[u]
      /\ state'[t] \in {"Running", "Blocked"}
  BY <1>1 DEF IInv, TypeOK
<1>5. TypeOK' /\ QueuedTidsDiffer'
  BY Zenon, <1>1 DEF IInv, TypeOK, TaskState, QueuedTidsDiffer
<1>6. ReadyTasksAreQueued' /\ RunningIsCurrent'
  <2>1. \A u \in Queued : u \in Tasks
    BY DEF IInv, TypeOK, Queued, Entries
  <2>. QED
    BY <1>3, <1>2, <1>4, <2>1 DEF IInv, ReadyTasksAreQueued, RunningIsCurrent
<1>7. WakeupHasEvent'
  BY <1>1 DEF IInv, TypeOK, WakeupHasEvent
<1>8. TidsAreAllocated' /\ AwaitingExist' /\ CurrentIsNotQueued'
  BY <1>1, <1>2 DEF IInv, TypeOK, TidsAreAllocated, AwaitingExist, CurrentIsNotQueued,
      Existing
<1>9. VForkParents'
  BY <1>1, <1>2 DEF IInv, TypeOK, VForkParents
<1>10. SharedTidsAreRetired'
  <2>1. \A u \in Tasks : Retired(u) => Retired(u)'
    BY <1>3, <1>2, <1>4 DEF Retired
  <2>2. Existing' = Existing
    BY <1>3, <1>4 DEF Existing
  <2>. QED
    BY <1>3, <2>1, <2>2 DEF IInv, SharedTidsAreRetired, Existing
<1>. QED
  BY <1>5, <1>6, <1>7, <1>8, <1>9, <1>10 DEF IInv

LEMMA WakeupIInv ==
    ASSUME IInv, NEW t \in Tasks, NEW e \in Events, Wakeup(t, e)
    PROVE  IInv'
<1>1. CASE state[t] = "Blocked"
  <2>1. /\ ready_queue' = Append(ready_queue, t)
        /\ state' = [state EXCEPT ![t] = "Ready"]
        /\ wakeup_event' = [wakeup_event EXCEPT ![t] = e]
        /\ current # NoTask => state[current] = "Running"
        /\ UNCHANGED <<current, awaiting, tid, next_tid, parent_waiting_vfork,
                       stillborn>>
    BY <1>1 DEF Wakeup, InKernel, SchedIs, wakeup_task, push_task, Sched
  <2>2. t \in Existing /\ t \notin Queued
    BY <1>1 DEF IInv, ReadyTasksAreQueued, Existing
  <2>3. /\ ready_queue' \in Seq(Tasks)
        /\ Queued' = Queued \cup {t}
        /\ QueuedTidsDiffer'
    BY <1>1, <2>1, <2>2, PushLive DEF Queued, QueuedTidsDiffer
  <2>4. TypeOK'
    BY <2>1, <2>3 DEF IInv, TypeOK, TaskState
  <2>5. ReadyTasksAreQueued' /\ RunningIsCurrent'
    BY <1>1, <2>1, <2>3 DEF IInv, TypeOK, ReadyTasksAreQueued, RunningIsCurrent
  <2>6. WakeupHasEvent'
    BY <2>1, SchedulerAssumption DEF IInv, TypeOK, WakeupHasEvent
  <2>7. TidsAreAllocated' /\ AwaitingExist' /\ CurrentIsNotQueued'
    BY <1>1, <2>1, <2>2, <2>3
    DEF IInv, TypeOK, TidsAreAllocated, AwaitingExist, CurrentIsNotQueued,
      Existing
  <2>8. VForkParents'
    BY <1>1, <2>1, <2>3 DEF IInv, TypeOK, VForkParents
  <2>9. SharedTidsAreRetired'
    BY <1>1, <2>1, <2>2, <2>3 DEF IInv, TypeOK, SharedTidsAreRetired, Retired, Existing
  <2>. QED
    BY <2>3, <2>4, <2>5, <2>6, <2>7, <2>8, <2>9 DEF IInv
<1>2. CASE state[t] # "Blocked"
  <2>1. UNCHANGED vars
    BY <1>2 DEF Wakeup, SchedIs, wakeup_task, Sched, vars
  <2>. QED
    BY <2>1
    DEF vars, IInv, TypeOK, QueuedTidsDiffer, ReadyTasksAreQueued, RunningIsCurrent,
        WakeupHasEvent, TidsAreAllocated, AwaitingExist, CurrentIsNotQueued, VForkParents,
        SharedTidsAreRetired, Retired, Existing, Queued
<1>. QED
  BY <1>1, <1>2

\* A task that does not exist yet gets a fresh tid and can be pushed.
LEMMA PushNew ==
    ASSUME IInv, NEW c \in Tasks, state[c] = "None",
           NEW f, f = [tid EXCEPT ![c] = next_tid]
    PROVE  /\ Append(ready_queue, c) \in Seq(Tasks)
           /\ Entries(Append(ready_queue, c)) = Queued \cup {c}
           /\ c \notin Queued
           /\ TidsDiffer(ready_queue, f)
           /\ TidsDiffer(Append(ready_queue, c), f)
<1>1. ready_queue \in Seq(Tasks) /\ c \notin Queued
  BY DEF IInv, TypeOK, ReadyTasksAreQueued
<1>2. \A u \in Queued : u \in Tasks /\ u \in Existing
  <2>1. \A u \in Queued : u \in Tasks
    BY <1>1 DEF Queued, Entries
  <2>. QED
    BY <2>1 DEF IInv, ReadyTasksAreQueued, Existing
<1>3. /\ f[c] = next_tid
      /\ \A u \in Queued : f[u] = tid[u] /\ f[u] # next_tid
  BY <1>1, <1>2 DEF IInv, TypeOK, TidsAreAllocated
<1>4. TidsDiffer(ready_queue, f)
  BY Zenon, <1>1, <1>3, SameTids DEF Queued, IInv, QueuedTidsDiffer
<1>. QED
  BY Zenon, <1>1, <1>3, <1>4, PushEntries, PushTids DEF Queued

LEMMA CloneIInv ==
    ASSUME IInv, NEW t \in Tasks, NEW c \in Tasks, Clone(t, c)
    PROVE  IInv'
<1>1. /\ ready_queue' = Append(ready_queue, c)
      /\ state[c] = "None"
      /\ state' = [state EXCEPT ![c] = "Ready"]
      /\ wakeup_event' = wakeup_event
      /\ tid' = [tid EXCEPT ![c] = next_tid]
      /\ next_tid' = next_tid + 1
      /\ UNCHANGED <<current, awaiting, parent_waiting_vfork, stillborn>>
  BY DEF Clone, SchedIs, push_task, build, Sched
<1>2. /\ ready_queue' \in Seq(Tasks)
      /\ Queued' = Queued \cup {c}
      /\ c \notin Queued
      /\ QueuedTidsDiffer'
  BY Zenon, <1>1, PushNew DEF Queued, QueuedTidsDiffer
<1>3. TypeOK'
  BY <1>1, <1>2 DEF IInv, TypeOK, TaskState
<1>4. ReadyTasksAreQueued' /\ RunningIsCurrent'
  BY <1>1, <1>2 DEF IInv, TypeOK, ReadyTasksAreQueued, RunningIsCurrent
<1>5. c \notin awaiting
  BY <1>1 DEF IInv, AwaitingExist
<1>6. WakeupHasEvent'
  BY <1>1, <1>5 DEF IInv, TypeOK, WakeupHasEvent
<1>7. TidsAreAllocated' /\ AwaitingExist' /\ CurrentIsNotQueued'
  BY <1>1, <1>2 DEF IInv, TypeOK, TidsAreAllocated, AwaitingExist, CurrentIsNotQueued,
      Existing
<1>8. VForkParents'
  BY <1>1, <1>2 DEF IInv, TypeOK, VForkParents
<1>9. SharedTidsAreRetired'
  BY <1>1, <1>2
  DEF IInv, TypeOK, SharedTidsAreRetired, Retired, Existing, TidsAreAllocated
<1>. QED
  BY <1>2, <1>3, <1>4, <1>6, <1>7, <1>8, <1>9 DEF IInv

LEMMA CloneFaultIInv ==
    ASSUME IInv, NEW t \in Tasks, NEW c \in Tasks, CloneFault(t, c)
    PROVE  IInv'
<1>1. /\ state[c] = "None"
      /\ state' = [state EXCEPT ![c] = "Ready"]
      /\ tid' = [tid EXCEPT ![c] = next_tid]
      /\ next_tid' = next_tid + 1
      /\ stillborn' = stillborn \cup {c}
      /\ UNCHANGED <<ready_queue, wakeup_event, current, awaiting, parent_waiting_vfork>>
  BY DEF CloneFault, SchedIs, build, Sched
<1>2. Queued' = Queued /\ c \notin Queued /\ QueuedTidsDiffer'
  BY Zenon, <1>1, PushNew DEF Queued, QueuedTidsDiffer
<1>3. TypeOK'
  BY <1>1 DEF IInv, TypeOK, TaskState
<1>4. ReadyTasksAreQueued' /\ RunningIsCurrent'
  BY <1>1, <1>2 DEF IInv, TypeOK, ReadyTasksAreQueued, RunningIsCurrent
<1>5. WakeupHasEvent'
  BY <1>1 DEF IInv, TypeOK, WakeupHasEvent, AwaitingExist
<1>6. TidsAreAllocated' /\ AwaitingExist' /\ CurrentIsNotQueued'
  BY <1>1, <1>2 DEF IInv, TypeOK, TidsAreAllocated, AwaitingExist,
                    CurrentIsNotQueued, Existing
<1>7. VForkParents'
  BY <1>1, <1>2 DEF IInv, TypeOK, VForkParents
<1>8. SharedTidsAreRetired'
  BY <1>1, <1>2
  DEF IInv, TypeOK, SharedTidsAreRetired, Retired, Existing, TidsAreAllocated
<1>. QED
  BY <1>2, <1>3, <1>4, <1>5, <1>6, <1>7, <1>8 DEF IInv

LEMMA CloneVForkIInv ==
    ASSUME IInv, NEW t \in Tasks, NEW c \in Tasks, CloneVFork(t, c)
    PROVE  IInv'
<1>1. current = t /\ state[t] = "Running" /\ state[c] = "None"
  BY DEF CloneVFork, InKernel
<1>2. /\ ready_queue' = Append(ready_queue, c)
      /\ state' = [[state EXCEPT ![c] = "Ready"] EXCEPT ![t] = "BlockedUninterruptible"]
      /\ wakeup_event' = wakeup_event
      /\ tid' = [tid EXCEPT ![c] = next_tid]
      /\ next_tid' = next_tid + 1
      /\ parent_waiting_vfork' = [parent_waiting_vfork EXCEPT ![c] = t]
      /\ awaiting' = awaiting \cup {t}
      /\ current' = NoTask
      /\ UNCHANGED stillborn
  <2>1. t # c /\ state \in [Tasks -> TaskState]
    BY <1>1 DEF IInv, TypeOK
  <2>. QED
    BY <1>1, <2>1
    DEF CloneVFork, SchedIs, push_task, build, block_uninterruptible, Sched
<1>3. /\ ready_queue' \in Seq(Tasks)
      /\ Queued' = Queued \cup {c}
      /\ c \notin Queued
      /\ QueuedTidsDiffer'
  BY Zenon, <1>1, <1>2, PushNew DEF Queued, QueuedTidsDiffer
<1>4. t \notin Queued
  BY <1>1, NoTaskAssumption DEF IInv, CurrentIsNotQueued
<1>5. TypeOK'
  BY <1>2, <1>3 DEF IInv, TypeOK, TaskState
<1>6. ReadyTasksAreQueued' /\ RunningIsCurrent'
  <2>1. /\ \A u \in Tasks : u # t /\ u # c => state'[u] = state[u]
        /\ state'[t] = "BlockedUninterruptible"
        /\ t # c => state'[c] = "Ready"
    BY <1>2 DEF IInv, TypeOK
  <2>2. \A u \in Queued : u \in Tasks
    BY DEF IInv, TypeOK, Queued, Entries
  <2>. QED
    BY Zenon, <1>1, <1>2, <1>3, <1>4, <2>1, <2>2
    DEF IInv, ReadyTasksAreQueued, RunningIsCurrent
<1>7. WakeupHasEvent' /\ AwaitingExist' /\ CurrentIsNotQueued'
  BY <1>1, <1>2
  DEF IInv, TypeOK, WakeupHasEvent, AwaitingExist, CurrentIsNotQueued
<1>8. TidsAreAllocated'
  BY <1>1, <1>2 DEF IInv, TypeOK, TidsAreAllocated, Existing
<1>9. \A d \in Tasks : parent_waiting_vfork[d] # t /\ parent_waiting_vfork[d] # c
  BY Zenon, <1>1, NoTaskAssumption DEF IInv, TypeOK, VForkParents
<1>10. VForkParents'
  BY <1>1, <1>2, <1>3, <1>4, <1>9 DEF IInv, TypeOK, VForkParents
<1>11. SharedTidsAreRetired'
  BY <1>1, <1>2, <1>3, <1>4, <1>9
  DEF IInv, TypeOK, SharedTidsAreRetired, Retired, Existing, TidsAreAllocated
<1>. QED
  BY <1>3, <1>5, <1>6, <1>7, <1>8, <1>10, <1>11 DEF IInv

LEMMA KilledBySignalIInv ==
    ASSUME IInv, NEW t \in Tasks, NEW S \in SUBSET Existing, KilledBySignal(t, S)
    PROVE  IInv'
<1>1. /\ current = t
      /\ t \in S
      /\ state' = [u \in Tasks |-> IF u \in S THEN "Exited" ELSE state[u]]
      /\ current' = NoTask
      /\ UNCHANGED <<ready_queue, wakeup_event, awaiting, tid, next_tid,
                     parent_waiting_vfork, stillborn>>
  BY DEF KilledBySignal, InKernel, SchedIs, mark_exited, Sched
<1>2. Queued' = Queued /\ QueuedTidsDiffer' /\ \A u \in Queued : u \in Tasks
  BY <1>1 DEF Queued, Entries, IInv, QueuedTidsDiffer, TypeOK
<1>3. TypeOK'
  BY <1>1 DEF IInv, TypeOK, TaskState
<1>4. ReadyTasksAreQueued' /\ RunningIsCurrent'
  BY <1>1, <1>2 DEF IInv, TypeOK, ReadyTasksAreQueued, RunningIsCurrent
<1>5. WakeupHasEvent' /\ AwaitingExist' /\ CurrentIsNotQueued'
  BY <1>1 DEF IInv, TypeOK, WakeupHasEvent, AwaitingExist, CurrentIsNotQueued
<1>6. Existing' = Existing
  BY <1>1 DEF Existing
<1>7. TidsAreAllocated'
  BY <1>1, <1>6 DEF IInv, TidsAreAllocated
<1>8. VForkParents'
  BY <1>1, <1>2 DEF IInv, TypeOK, VForkParents
<1>9. SharedTidsAreRetired'
  <2>1. \A u \in Tasks : Retired(u) => Retired(u)'
    BY <1>1, <1>2 DEF Retired
  <2>. QED
    BY <1>1, <1>6, <2>1 DEF IInv, SharedTidsAreRetired, Existing
<1>. QED
  BY <1>2, <1>3, <1>4, <1>5, <1>7, <1>8, <1>9 DEF IInv

\* The vfork parent can be pushed although its state is not looked at.
LEMMA PushVForkParent ==
    ASSUME IInv, NEW t \in Tasks, parent_waiting_vfork[t] # NoTask
    PROVE  LET p == parent_waiting_vfork[t]
           IN  /\ p \in Tasks
               /\ p \notin Queued
               /\ state[p] \in {"BlockedUninterruptible", "Exited"}
               /\ \A d \in Tasks : parent_waiting_vfork[d] = p => d = t
               /\ \A u \in Queued : tid[u] # tid[p]
<1>. DEFINE p == parent_waiting_vfork[t]
<1>1. /\ p \in Tasks
      /\ p \notin Queued
      /\ state[p] \in {"BlockedUninterruptible", "Exited"}
      /\ \A d \in Tasks : parent_waiting_vfork[d] = p => d = t
  BY DEF IInv, TypeOK, VForkParents
<1>2. \A u \in Queued : u \in Existing
  <2>1. \A u \in Queued : u \in Tasks
    BY DEF IInv, TypeOK, Queued, Entries
  <2>. QED
    BY <2>1 DEF IInv, ReadyTasksAreQueued, Existing
<1>3. p \in Existing
  BY <1>1 DEF Existing
<1>4. \A u \in Queued : tid[u] # tid[p]
  BY <1>1, <1>2, <1>3 DEF IInv, SharedTidsAreRetired, Retired
<1>. QED
  BY <1>1, <1>4

LEMMA ExitIInv ==
    ASSUME IInv, NEW t \in Tasks, NEW S \in SUBSET Existing, Exit(t, S)
    PROVE  IInv'
<1>. DEFINE p == parent_waiting_vfork[t]
            st == [u \in Tasks |-> IF u \in S THEN "Exited" ELSE state[u]]
<1>1. current = t /\ state[t] = "Running" /\ t \in S
  BY DEF Exit, InKernel
<1>2. CASE p = NoTask
  <2>1. parent_waiting_vfork' = parent_waiting_vfork
    BY <1>2 DEF Exit, IInv, TypeOK
  <2>2. KilledBySignal(t, S)
    BY <1>2, <2>1 DEF Exit, KilledBySignal, wake_parent_waiting_vfork
  <2>. QED
    BY <2>2, KilledBySignalIInv
<1>3. CASE p # NoTask
  <2>1. /\ p \in Tasks
        /\ p \notin Queued
        /\ state[p] \in {"BlockedUninterruptible", "Exited"}
        /\ \A d \in Tasks : parent_waiting_vfork[d] = p => d = t
        /\ \A u \in Queued : tid[u] # tid[p]
    BY <1>3, PushVForkParent
  <2>2. /\ ready_queue' = Append(ready_queue, p)
        /\ state' = IF st[p] \in {"Blocked", "BlockedUninterruptible"}
                    THEN [st EXCEPT ![p] = "Ready"]
                    ELSE st
        /\ wakeup_event' = IF st[p] \in {"Blocked", "BlockedUninterruptible"}
                           THEN [wakeup_event EXCEPT ![p] = VFork]
                           ELSE wakeup_event
        /\ parent_waiting_vfork' = [parent_waiting_vfork EXCEPT ![t] = NoTask]
        /\ current' = NoTask
        /\ UNCHANGED <<awaiting, tid, next_tid, stillborn>>
    BY <1>3 DEF Exit, SchedIs, wake_parent_waiting_vfork, wakeup_task_uninterruptible,
                push_task, mark_exited, Sched
  <2>3. /\ \A u \in Tasks : u \in S => state'[u] = "Exited"
        /\ \A u \in Tasks : u \notin S /\ u # p => state'[u] = state[u]
        /\ p \notin S => state'[p] \in {"Ready", "Exited"}
        /\ \A u \in Tasks : u # p => wakeup_event'[u] = wakeup_event[u]
        /\ state'[p] = "Ready" => wakeup_event'[p] = VFork
    BY SMTT(30), <2>1, <2>2 DEF IInv, TypeOK, TaskState
  <2>4. /\ ready_queue' \in Seq(Tasks)
        /\ Queued' = Queued \cup {p}
        /\ QueuedTidsDiffer'
        /\ \A u \in Queued : u \in Tasks
    <3>1. ready_queue \in Seq(Tasks) /\ TidsDiffer(ready_queue, tid)
      BY DEF IInv, TypeOK, QueuedTidsDiffer
    <3>2. ready_queue' = Append(ready_queue, p) /\ tid' = tid
      BY <2>2
    <3>3. \A u \in Entries(ready_queue) : tid[u] # tid[p]
      BY <2>1 DEF Queued
    <3>. HIDE DEF p, st
    <3>4. ready_queue' \in Seq(Tasks) /\ Queued' = Queued \cup {p}
      BY <2>1, <3>1, <3>2, PushEntries DEF Queued
    <3>5. QueuedTidsDiffer'
      BY <2>1, <3>1, <3>2, <3>3, PushTids DEF QueuedTidsDiffer
    <3>6. \A u \in Queued : u \in Tasks
      BY <3>1 DEF Queued, Entries
    <3>. QED
      BY <3>4, <3>5, <3>6
  <2>. HIDE DEF p, st
  <2>5. TypeOK'
    BY <2>1, <2>2, <2>4 DEF IInv, TypeOK, TaskState, st
  <2>6. ReadyTasksAreQueued' /\ RunningIsCurrent'
    <3>1. ASSUME NEW u \in Tasks \ stillborn, state'[u] = "Ready"
          PROVE  u \in Queued'
      <4>1. u # p => u \notin S /\ state[u] = "Ready"
        BY <2>3, <3>1
      <4>. QED
        BY <2>4, <4>1 DEF IInv, ReadyTasksAreQueued
    <3>2. ASSUME NEW u \in Queued'
          PROVE  state'[u] \in {"Ready", "Exited"}
      <4>1. CASE u = p
        BY <2>1, <2>3, <4>1
      <4>2. CASE u # p
        <5>1. u \in Tasks /\ state[u] \in {"Ready", "Exited"}
          BY <2>4, <4>2 DEF IInv, ReadyTasksAreQueued
        <5>. QED
          BY <2>3, <4>2, <5>1
      <4>. QED
        BY <4>1, <4>2
    <3>3. ASSUME NEW u \in Tasks, state'[u] = "Running"
          PROVE  FALSE
      <4>1. u # p /\ u \notin S /\ state[u] = "Running"
        BY <2>1, <2>3, <3>3
      <4>. QED
        BY <1>1, <4>1 DEF IInv, RunningIsCurrent
    <3>. QED
      BY <2>2, <3>1, <3>2, <3>3 DEF ReadyTasksAreQueued, RunningIsCurrent
  <2>7. WakeupHasEvent'
    BY <2>1, <2>2, <2>3, SchedulerAssumption DEF IInv, TypeOK, WakeupHasEvent
  <2>8. AwaitingExist' /\ CurrentIsNotQueued'
    BY <2>1, <2>2, <2>3 DEF IInv, TypeOK, AwaitingExist, CurrentIsNotQueued
  <2>9. Existing' = Existing
    <3>1. \A u \in S : u \in Tasks /\ state[u] # "None"
      BY DEF Existing
    <3>2. ASSUME NEW u \in Tasks
          PROVE  state'[u] = "None" <=> state[u] = "None"
      BY <2>1, <2>3, <3>1
    <3>. QED
      BY <3>2 DEF Existing
  <2>10. TidsAreAllocated'
    BY <2>2, <2>9 DEF IInv, TidsAreAllocated
  <2>11. VForkParents'
    BY <2>1, <2>2, <2>3, <2>4, NoTaskAssumption DEF IInv, TypeOK, VForkParents, p
  <2>12. SharedTidsAreRetired'
    <3>1. \A u \in Tasks : Retired(u) => Retired(u)'
      BY <2>1, <2>2, <2>3, <2>4, NoTaskAssumption DEF Retired, IInv, TypeOK, p
    <3>. QED
      BY <2>2, <2>9, <3>1 DEF IInv, SharedTidsAreRetired, Existing
  <2>. QED
    BY <2>4, <2>5, <2>6, <2>7, <2>8, <2>10, <2>11, <2>12 DEF IInv
<1>. QED
  BY <1>2, <1>3

\* execve: n takes over the tid of t, which is Retired.
LEMMA ExecIInv ==
    ASSUME IInv, NEW t \in Tasks, NEW n \in Tasks, NEW S \in SUBSET Existing,
           Exec(t, n, S)
    PROVE  IInv'
<1>. DEFINE p == parent_waiting_vfork[t]
            q == Append(ready_queue, n)
<1>1. /\ current = t
      /\ state[t] = "Running"
      /\ t \in S
      /\ state[n] = "None"
      /\ n \notin S
      /\ t # n
      /\ tid' = [tid EXCEPT ![n] = tid[t]]
      /\ parent_waiting_vfork' = [parent_waiting_vfork EXCEPT ![t] = NoTask]
      /\ current' = NoTask
      /\ UNCHANGED <<awaiting, next_tid, stillborn>>
  BY DEF Exec, InKernel, Existing
<1>2. /\ t \notin Queued
      /\ n \notin Queued
      /\ \A u \in Queued : u \in Existing /\ u \in Tasks
      /\ t \in Existing
      /\ \A d \in Tasks : parent_waiting_vfork[d] # t /\ parent_waiting_vfork[d] # n
  <2>1. \A u \in Queued : u \in Tasks
    BY DEF IInv, TypeOK, Queued, Entries
  <2>2. t \notin Queued /\ n \notin Queued
    BY <1>1, NoTaskAssumption DEF IInv, CurrentIsNotQueued, ReadyTasksAreQueued
  <2>3. \A u \in Queued : u \in Existing
    BY <2>1 DEF IInv, ReadyTasksAreQueued, Existing
  <2>4. \A d \in Tasks : parent_waiting_vfork[d] # t /\ parent_waiting_vfork[d] # n
    BY Zenon, <1>1, NoTaskAssumption DEF IInv, TypeOK, VForkParents
  <2>. QED
    BY <1>1, <2>1, <2>2, <2>3, <2>4 DEF Existing
<1>3. /\ \A u \in Existing : u # t /\ tid[u] = tid[t] => Retired(u)
      /\ \A u \in Queued : tid[u] # tid[t]
  BY <1>1, <1>2 DEF IInv, SharedTidsAreRetired, Retired
<1>4. /\ tid'[n] = tid[t]
      /\ \A u \in Tasks : u # n => tid'[u] = tid[u]
  BY <1>1 DEF IInv, TypeOK
<1>5. /\ q \in Seq(Tasks)
      /\ Entries(q) = Queued \cup {n}
      /\ TidsDiffer(q, tid')
  <2>1. TidsDiffer(ready_queue, tid')
    BY Zenon, <1>2, <1>4, SameTids DEF IInv, TypeOK, QueuedTidsDiffer, Queued
  <2>2. \A u \in Queued : tid'[u] # tid'[n]
    BY <1>2, <1>3, <1>4
  <2>. QED
    BY <2>1, <2>2, PushEntries, PushTids DEF IInv, TypeOK, Queued
<1>6. /\ p # NoTask => /\ p \in Tasks
                       /\ p \notin Queued
                       /\ p # t /\ p # n
                       /\ state[p] \in {"BlockedUninterruptible", "Exited"}
                       /\ \A d \in Tasks : parent_waiting_vfork[d] = p => d = t
                       /\ \A u \in Queued : tid[u] # tid[p]
      /\ p # NoTask => tid[p] # tid[t]
  <2>1. ASSUME p # NoTask
        PROVE  /\ p \in Tasks
               /\ p \notin Queued
               /\ state[p] \in {"BlockedUninterruptible", "Exited"}
               /\ \A d \in Tasks : parent_waiting_vfork[d] = p => d = t
               /\ \A u \in Queued : tid[u] # tid[p]
    BY <2>1, PushVForkParent
  <2>2. ASSUME p # NoTask
        PROVE  tid[p] # tid[t]
    <3>1. p \in Existing /\ p # t
      BY SMTT(30), <1>2, <2>1, <2>2 DEF Existing
    <3>. QED
      BY <1>3, <3>1 DEF Retired
  <2>. QED
    BY <1>2, <2>1, <2>2
<1>7. /\ ready_queue' = IF p = NoTask THEN q ELSE Append(q, p)
      /\ \A u \in Tasks : u \in S /\ u # p => state'[u] = "Exited"
      /\ \A u \in Tasks : u \notin S /\ u # p /\ u # n => state'[u] = state[u]
      /\ state'[n] = "Ready"
      /\ p # NoTask => state'[p] \in {"Ready", "Exited"}
      /\ \A u \in Tasks : u # p => wakeup_event'[u] = wakeup_event[u]
      /\ p # NoTask /\ state'[p] = "Ready" => wakeup_event'[p] = VFork
      /\ p \in S => state'[p] = "Exited"
      /\ state' \in [Tasks -> TaskState]
      /\ wakeup_event' \in [Tasks -> Events \cup {VFork, NoEvent}]
  <2>. DEFINE st == [[u \in Tasks |-> IF u \in S THEN "Exited" ELSE state[u]]
                        EXCEPT ![n] = "Ready"]
  <2>1. CASE p = NoTask
    <3>1. ready_queue' = q /\ state' = st /\ wakeup_event' = wakeup_event
      BY SMTT(30), <2>1 DEF Exec, SchedIs, wake_parent_waiting_vfork, push_task, build,
                  mark_exited, Sched
    <3>. QED
      BY <1>1, <2>1, <3>1, NoTaskAssumption DEF IInv, TypeOK, TaskState, Existing
  <2>2. CASE p # NoTask
    <3>1. /\ ready_queue' = Append(q, p)
          /\ state' = IF st[p] \in {"Blocked", "BlockedUninterruptible"}
                      THEN [st EXCEPT ![p] = "Ready"]
                      ELSE st
          /\ wakeup_event' = IF st[p] \in {"Blocked", "BlockedUninterruptible"}
                             THEN [wakeup_event EXCEPT ![p] = VFork]
                             ELSE wakeup_event
      BY <2>2 DEF Exec, SchedIs, wake_parent_waiting_vfork,
                  wakeup_task_uninterruptible, push_task, build, mark_exited, Sched
    <3>2. st \in [Tasks -> TaskState] /\ st[n] = "Ready"
      BY Zenon DEF IInv, TypeOK, TaskState
    <3>3. \A u \in Tasks : u # n => st[u] = IF u \in S THEN "Exited" ELSE state[u]
      OBVIOUS
    <3>. HIDE DEF st, p, q
    <3>4. p \in Tasks /\ p # n /\ state[p] \in {"BlockedUninterruptible", "Exited"}
      BY <1>6, <2>2
    <3>5. CASE st[p] \in {"Blocked", "BlockedUninterruptible"}
      BY <1>1, <2>2, <3>1, <3>2, <3>3, <3>4, <3>5 DEF IInv, TypeOK, TaskState
    <3>6. CASE st[p] \notin {"Blocked", "BlockedUninterruptible"}
      BY Zenon, <1>1, <2>2, <3>1, <3>2, <3>3, <3>4, <3>6 DEF IInv, TypeOK, TaskState
    <3>. QED
      BY Zenon, <3>5, <3>6
  <2>. QED
    BY <2>1, <2>2
<1>8. /\ ready_queue' \in Seq(Tasks)
      /\ Queued' = IF p = NoTask THEN Queued \cup {n} ELSE Queued \cup {n, p}
      /\ QueuedTidsDiffer'
  <2>1. CASE p = NoTask
    BY <1>5, <1>7, <2>1 DEF Queued, QueuedTidsDiffer
  <2>2. CASE p # NoTask
    <3>1. \A u \in Entries(q) : tid'[u] # tid'[p]
      BY <1>2, <1>4, <1>5, <1>6, <2>2
    <3>2. p \in Tasks /\ ready_queue' = Append(q, p)
      BY <1>6, <1>7, <2>2
    <3>. HIDE DEF p, q
    <3>3. ready_queue' \in Seq(Tasks) /\ Entries(ready_queue') = Queued \cup {n, p}
      BY <1>5, <3>2, PushEntries
    <3>4. TidsDiffer(ready_queue', tid')
      BY <1>5, <3>1, <3>2, PushTids
    <3>. QED
      BY <2>2, <3>3, <3>4 DEF Queued, QueuedTidsDiffer
  <2>. QED
    BY <2>1, <2>2
<1>. HIDE DEF p, q
<1>9. TypeOK'
  BY Zenon, <1>1, <1>7, <1>8, NoTaskAssumption DEF IInv, TypeOK
<1>10. ReadyTasksAreQueued' /\ RunningIsCurrent'
  <2>1. ASSUME NEW u \in Tasks \ stillborn, state'[u] = "Ready"
        PROVE  u \in Queued'
    <3>1. CASE u = n \/ (u = p /\ p # NoTask)
      BY <1>8, <3>1
    <3>2. CASE u # n /\ u # p
      <4>1. u \notin S /\ state[u] = "Ready"
        BY <1>7, <2>1, <3>2
      <4>. QED
        BY <1>8, <4>1 DEF IInv, ReadyTasksAreQueued
    <3>. QED
      BY <3>1, <3>2, NoTaskAssumption
  <2>2. ASSUME NEW u \in Queued'
        PROVE  state'[u] \in {"Ready", "Exited"}
    <3>1. CASE u = n \/ (u = p /\ p # NoTask)
      BY <1>7, <3>1
    <3>2. CASE u \in Queued /\ u # n /\ u # p
      <4>1. u \in Tasks /\ state[u] \in {"Ready", "Exited"}
        BY <1>2, <3>2 DEF IInv, ReadyTasksAreQueued
      <4>. QED
        BY <1>7, <3>2, <4>1
    <3>. QED
      BY <1>2, <1>8, <2>2, <3>1, <3>2, NoTaskAssumption
  <2>3. ASSUME NEW u \in Tasks, state'[u] = "Running"
        PROVE  FALSE
    <3>1. u # n /\ u # p /\ u \notin S
      BY <1>7, <2>3, NoTaskAssumption
    <3>2. state[u] = "Running" /\ u # t
      BY <1>1, <1>7, <2>3, <3>1
    <3>. QED
      BY <1>1, <3>2 DEF IInv, RunningIsCurrent
  <2>. QED
    BY <1>1, <2>1, <2>2, <2>3 DEF ReadyTasksAreQueued, RunningIsCurrent
<1>11. WakeupHasEvent'
  BY ZenonT(60), <1>1, <1>6, <1>7, SchedulerAssumption, NoTaskAssumption
  DEF IInv, TypeOK, WakeupHasEvent, AwaitingExist
<1>12. AwaitingExist' /\ CurrentIsNotQueued'
  BY ZenonT(60), <1>1, <1>6, <1>7, NoTaskAssumption DEF IInv, TypeOK, AwaitingExist, CurrentIsNotQueued
<1>13. \A u \in Tasks : u \in Existing' <=> u \in Existing \cup {n}
  BY <1>1, <1>6, <1>7, NoTaskAssumption DEF Existing
<1>14. TidsAreAllocated'
  BY <1>1, <1>2, <1>4, <1>13 DEF IInv, TypeOK, TidsAreAllocated, Existing
<1>15. VForkParents'
  BY <1>1, <1>2, <1>6, <1>7, <1>8, NoTaskAssumption DEF IInv, TypeOK, VForkParents, p
<1>16. /\ \A u \in Tasks : Retired(u) => Retired(u)'
       /\ Retired(t)'
  BY <1>1, <1>2, <1>6, <1>7, <1>8, NoTaskAssumption DEF Retired, IInv, TypeOK, p
<1>17. SharedTidsAreRetired'
  BY <1>1, <1>2, <1>3, <1>4, <1>13, <1>16 DEF IInv, SharedTidsAreRetired, Existing
<1>. QED
  BY <1>8, <1>9, <1>10, <1>11, <1>12, <1>14, <1>15, <1>17 DEF IInv

LEMMA NextIInv ==
    ASSUME IInv, [Next]_vars
    PROVE  IInv'
<1>1. CASE RunNext
  BY <1>1, RunNextIInv
<1>2. CASE DropFetched
  BY <1>2, DropFetchedIInv
<1>3. CASE Schedule
  BY <1>3, ScheduleIInv
<1>4. ASSUME NEW t \in Tasks, Block(t) \/ Unblock(t) \/ TakeWakeupEvent(t)
      PROVE  IInv'
  BY <1>4, BlockIInv
<1>5. ASSUME NEW t \in Tasks, NEW c \in Tasks,
             Clone(t, c) \/ CloneFault(t, c) \/ CloneVFork(t, c)
      PROVE  IInv'
  BY <1>5, CloneIInv, CloneFaultIInv, CloneVForkIInv
<1>6. ASSUME NEW t \in Tasks, NEW S \in SUBSET Existing,
             Exit(t, S) \/ KilledBySignal(t, S)
      PROVE  IInv'
  BY <1>6, ExitIInv, KilledBySignalIInv
<1>7. ASSUME NEW t \in Tasks, NEW n \in Tasks, NEW S \in SUBSET Existing,
             Exec(t, n, S)
      PROVE  IInv'
  BY <1>7, ExecIInv
<1>8. ASSUME NEW t \in Tasks, NEW e \in Events, Wakeup(t, e)
      PROVE  IInv'
  BY Zenon, <1>8, WakeupIInv
<1>9. CASE UNCHANGED vars
  BY <1>9
  DEF vars, IInv, TypeOK, QueuedTidsDiffer, ReadyTasksAreQueued, RunningIsCurrent,
      WakeupHasEvent, TidsAreAllocated, AwaitingExist, CurrentIsNotQueued,
      VForkParents, SharedTidsAreRetired, Retired, Existing, Queued
<1>. QED
  BY <1>1, <1>2, <1>3, <1>4, <1>5, <1>6, <1>7, <1>8, <1>9 DEF Next

\* The inductive invariant holds in every reachable state of the scheduler.
THEOREM SchedulerInvariant == Spec => []IInv
<1>1. IInv /\ [Next]_vars => IInv'
  BY NextIInv
<1>. QED
  BY <1>1, InitIInv, PTL DEF Spec

\* The values keep their types, however many tasks and events there are.
THEOREM TypeCorrect == Spec => []TypeOK
<1>1. IInv => TypeOK
  BY DEF IInv
<1>. QED
  BY <1>1, SchedulerInvariant, PTL

\* The debug_assert of Scheduler::push_task never fires: no run of clone, vfork,
\* exec, exit and wake-ups puts one tid into the ready queue twice.
THEOREM ReadyQueueHasNoDuplicates == Spec => []QueuedTidsDiffer
<1>1. IInv => QueuedTidsDiffer
  BY DEF IInv
<1>. QED
  BY <1>1, SchedulerInvariant, PTL

\* run_tasks and wakeup_task lose no task: Ready implies queued, and what
\* run_tasks drops had exited.
THEOREM NoTaskIsLost == Spec => []ReadyTasksAreQueued
<1>1. IInv => ReadyTasksAreQueued
  BY DEF IInv
<1>. QED
  BY <1>1, SchedulerInvariant, PTL

\* A task in state Running is the one on the hart.
THEOREM OneTaskRuns == Spec => []RunningIsCurrent
<1>1. IInv => RunningIsCurrent
  BY DEF IInv
<1>. QED
  BY <1>1, SchedulerInvariant, PTL

\* take_wakeup_event().unwrap() in current::block never panics.
THEOREM WokenTaskFindsEvent == Spec => []WakeupHasEvent
<1>1. IInv => WakeupHasEvent
  BY DEF IInv
<1>. QED
  BY <1>1, SchedulerInvariant, PTL

\* exec never leaves two live TCBs with one tid.
THEOREM LiveTidsAreUnique == Spec => []LiveTidsDiffer
<1>1. IInv => LiveTidsDiffer
  BY DEF IInv, SharedTidsAreRetired, Retired, LiveTidsDiffer
<1>. QED
  BY <1>1, SchedulerInvariant, PTL

-----------------------------------------------------------------------------
(* Action properties.                                                       *)

\* No operation on tasks leads out of Exited.
THEOREM NothingRevivesATask == Spec => ExitedIsFinal
<1>. DEFINE Final == \A t \in Tasks : state[t] = "Exited" => state'[t] = "Exited"
<1>1. ASSUME IInv, [Next]_vars
      PROVE  [Final]_vars
  <2>. SUFFICES ASSUME Next, NEW u \in Tasks, state[u] = "Exited"
                PROVE  state'[u] = "Exited"
    BY <1>1 DEF vars
  <2>. USE <1>1 DEF IInv, TypeOK
  <2>1. CASE RunNext
    BY <2>1, FetchEntries DEF RunNext, SchedIs, run_if_ready, fetch_next_task, Sched
  <2>2. CASE DropFetched
    BY <2>2 DEF DropFetched, SchedIs, fetch_next_task, Sched
  <2>3. CASE Schedule
    BY <2>3 DEF Schedule, SchedIs, requeue_if_running, push_task, Sched
  <2>4. ASSUME NEW t \in Tasks, Block(t) \/ Unblock(t) \/ TakeWakeupEvent(t)
        PROVE  state'[u] = "Exited"
    BY <2>4 DEF Block, Unblock, TakeWakeupEvent, InKernel, SchedIs, block, unblock,
                take_wakeup_event, Sched
  <2>5. ASSUME NEW t \in Tasks, NEW c \in Tasks,
               Clone(t, c) \/ CloneFault(t, c) \/ CloneVFork(t, c)
        PROVE  state'[u] = "Exited"
    BY Zenon, <2>5 DEF Clone, CloneFault, CloneVFork, InKernel, SchedIs, push_task, build,
                block_uninterruptible, Sched
  <2>6. ASSUME NEW t \in Tasks, NEW S \in SUBSET Existing,
               Exit(t, S) \/ KilledBySignal(t, S)
        PROVE  state'[u] = "Exited"
    BY ZenonT(60), <2>6 DEF Exit, KilledBySignal, SchedIs, wake_parent_waiting_vfork,
                wakeup_task_uninterruptible, push_task, mark_exited, Sched
  <2>7. ASSUME NEW t \in Tasks, NEW n \in Tasks, NEW S \in SUBSET Existing,
               Exec(t, n, S)
        PROVE  state'[u] = "Exited"
    BY <2>7 DEF Exec, SchedIs, wake_parent_waiting_vfork,
                wakeup_task_uninterruptible, push_task, build, mark_exited, Sched
  <2>8. ASSUME NEW t \in Tasks, NEW e \in Events, Wakeup(t, e)
        PROVE  state'[u] = "Exited"
    BY <2>8 DEF Wakeup, SchedIs, wakeup_task, push_task, Sched
  <2>. QED
    BY <2>1, <2>2, <2>3, <2>4, <2>5, <2>6, <2>7, <2>8 DEF Next
<1>. QED
  BY <1>1, SchedulerInvariant, PTL DEF Spec, ExitedIsFinal

\* What wake_parent_waiting_vfork does to the state of a parent that waits.
LEMMA VForkParentWakes ==
    ASSUME NEW q, NEW t \in Tasks, NEW u \in Tasks, NEW r,
           r = wake_parent_waiting_vfork(q, t),
           q = [state |-> q.state, event |-> q.event, queue |-> q.queue],
           q.state \in [Tasks -> TaskState],
           q.event \in [Tasks -> Events \cup {VFork, NoEvent}],
           parent_waiting_vfork \in [Tasks -> Tasks \cup {NoTask}]
    PROVE  \/ r.state[u] = q.state[u]
           \/ parent_waiting_vfork[t] = u /\ r.state[u] = "Ready" /\ r.event[u] = VFork
<1>. DEFINE p == parent_waiting_vfork[t]
<1>1. CASE p = NoTask
  BY <1>1 DEF wake_parent_waiting_vfork
<1>2. CASE p # NoTask /\ q.state[p] \in {"Blocked", "BlockedUninterruptible"}
  <2>1. r = [q EXCEPT !.state = [q.state EXCEPT ![p] = "Ready"],
                      !.event = [q.event EXCEPT ![p] = VFork],
                      !.queue = Append(q.queue, p)]
    BY <1>2 DEF wake_parent_waiting_vfork, wakeup_task_uninterruptible, push_task
  <2>2. p \in Tasks
    BY <1>2
  <2>. HIDE DEF p
  <2>3. r.state = [q.state EXCEPT ![p] = "Ready"] /\ r.event = [q.event EXCEPT ![p] = VFork]
    BY <2>1
  <2>. QED
    BY <2>2, <2>3 DEF p
<1>3. CASE p # NoTask /\ q.state[p] \notin {"Blocked", "BlockedUninterruptible"}
  <2>1. r = [q EXCEPT !.queue = Append(q.queue, p)]
    BY <1>3 DEF wake_parent_waiting_vfork, wakeup_task_uninterruptible, push_task
  <2>. QED
    BY <2>1
<1>. QED
  BY <1>1, <1>2, <1>3

\* An uninterruptible block ends in the exec or exit of the vfork child, with
\* Event::VFork, or in the end of the blocked task itself.
THEOREM VForkEndsWithTheChild == Spec => UninterruptibleEndsWithVFork
<1>. DEFINE Ends ==
        \A t \in Tasks :
          /\ state[t] = "BlockedUninterruptible"
          /\ state'[t] # "BlockedUninterruptible"
          => \/ state'[t] = "Exited"
             \/ /\ wakeup_event'[t] = VFork
                /\ \E c \in Tasks : /\ parent_waiting_vfork[c] = t
                                    /\ state'[c] = "Exited"
<1>1. ASSUME IInv, [Next]_vars
      PROVE  [Ends]_vars
  <2>. SUFFICES ASSUME Next, NEW u \in Tasks, state[u] = "BlockedUninterruptible"
                PROVE  \/ state'[u] = state[u]
                       \/ state'[u] = "Exited"
                       \/ /\ wakeup_event'[u] = VFork
                          /\ \E c \in Tasks : parent_waiting_vfork[c] = u /\ state'[c] = "Exited"
    BY <1>1 DEF vars
  <2>0. TypeOK
    BY <1>1 DEF IInv
  <2>1. CASE RunNext
    BY <2>0, <2>1, FetchEntries DEF TypeOK, RunNext, SchedIs, run_if_ready, fetch_next_task, Sched
  <2>2. CASE DropFetched
    BY <2>2 DEF DropFetched, SchedIs, fetch_next_task, Sched
  <2>3. CASE Schedule
    BY <2>0, <2>3 DEF TypeOK, Schedule, SchedIs, requeue_if_running, push_task, Sched
  <2>4. ASSUME NEW t \in Tasks, Block(t) \/ Unblock(t) \/ TakeWakeupEvent(t)
        PROVE  state'[u] = state[u]
    BY <2>0, <2>4 DEF TypeOK, Block, Unblock, TakeWakeupEvent, InKernel, SchedIs, block, unblock,
                take_wakeup_event, Sched
  <2>5. ASSUME NEW t \in Tasks, NEW c \in Tasks,
               Clone(t, c) \/ CloneFault(t, c) \/ CloneVFork(t, c)
        PROVE  state'[u] = state[u]
    <3>1. u # t /\ u # c
      BY <2>5 DEF Clone, CloneFault, CloneVFork, InKernel
    <3>. QED
      BY Zenon, <2>0, <2>5, <3>1 DEF TypeOK, Clone, CloneFault, CloneVFork, SchedIs, push_task,
                build, block_uninterruptible, Sched
  <2>6. ASSUME NEW t \in Tasks, NEW S \in SUBSET Existing, KilledBySignal(t, S)
        PROVE  state'[u] = state[u] \/ state'[u] = "Exited"
    BY <2>6 DEF KilledBySignal, SchedIs, mark_exited, Sched
  <2>7. ASSUME NEW t \in Tasks, NEW S \in SUBSET Existing, NEW q,
               t \in S, state[t] = "Running",
               q = [state |-> q.state, event |-> q.event, queue |-> q.queue],
               q.state \in [Tasks -> TaskState],
               q.event \in [Tasks -> Events \cup {VFork, NoEvent}],
               q.state[u] = state[u] \/ q.state[u] = "Exited",
               q.state[t] = "Exited",
               SchedIs(wake_parent_waiting_vfork(q, t))
        PROVE  \/ state'[u] = state[u]
               \/ state'[u] = "Exited"
               \/ /\ wakeup_event'[u] = VFork
                  /\ \E c \in Tasks : parent_waiting_vfork[c] = u /\ state'[c] = "Exited"
    <3>1. PICK r : r = wake_parent_waiting_vfork(q, t)
      OBVIOUS
    <3>2. parent_waiting_vfork \in [Tasks -> Tasks \cup {NoTask}]
      BY <2>0 DEF TypeOK
    <3>3. \A v \in Tasks : \/ r.state[v] = q.state[v]
                           \/ /\ parent_waiting_vfork[t] = v
                              /\ r.state[v] = "Ready" /\ r.event[v] = VFork
      BY <2>7, <3>1, <3>2, VForkParentWakes
    <3>4. state' = r.state /\ wakeup_event' = r.event
      BY <2>7, <3>1 DEF SchedIs
    <3>5. parent_waiting_vfork[t] # t
      BY <1>1, <2>7, NoTaskAssumption DEF IInv, VForkParents
    <3>6. state'[t] = "Exited"
      BY <2>7, <3>3, <3>4, <3>5
    <3>. QED
      BY <2>7, <3>3, <3>4, <3>6
  <2>8. ASSUME NEW t \in Tasks, NEW S \in SUBSET Existing, Exit(t, S)
        PROVE  \/ state'[u] = state[u]
               \/ state'[u] = "Exited"
               \/ /\ wakeup_event'[u] = VFork
                  /\ \E c \in Tasks : parent_waiting_vfork[c] = u /\ state'[c] = "Exited"
    <3>1. PICK q : q = mark_exited(Sched, S)
      OBVIOUS
    <3>2. q = [state |-> [v \in Tasks |-> IF v \in S THEN "Exited" ELSE state[v]],
               event |-> wakeup_event, queue |-> ready_queue]
      BY <3>1 DEF mark_exited, Sched
    <3>3. t \in S /\ state[t] = "Running" /\ SchedIs(wake_parent_waiting_vfork(q, t))
      BY <2>8, <3>1 DEF Exit, InKernel
    <3>4. /\ q = [state |-> q.state, event |-> q.event, queue |-> q.queue]
          /\ q.state \in [Tasks -> TaskState]
          /\ q.event \in [Tasks -> Events \cup {VFork, NoEvent}]
          /\ q.state[u] = state[u] \/ q.state[u] = "Exited"
          /\ q.state[t] = "Exited"
      BY <2>0, <3>2, <3>3 DEF TypeOK, TaskState
    <3>. QED
      BY <2>7, <3>3, <3>4
  <2>9. ASSUME NEW t \in Tasks, NEW n \in Tasks, NEW S \in SUBSET Existing, Exec(t, n, S)
        PROVE  \/ state'[u] = state[u]
               \/ state'[u] = "Exited"
               \/ /\ wakeup_event'[u] = VFork
                  /\ \E c \in Tasks : parent_waiting_vfork[c] = u /\ state'[c] = "Exited"
    <3>1. PICK q : q = push_task(build(mark_exited(Sched, S), n), n)
      OBVIOUS
    <3>2. /\ t \in S /\ state[t] = "Running" /\ state[n] = "None"
          /\ SchedIs(wake_parent_waiting_vfork(q, t))
      BY <2>9, <3>1 DEF Exec, InKernel
    <3>3. PICK s : s = [v \in Tasks |-> IF v \in S THEN "Exited" ELSE state[v]]
      OBVIOUS
    <3>4. q = [state |-> [s EXCEPT ![n] = "Ready"],
               event |-> wakeup_event, queue |-> Append(ready_queue, n)]
      BY <3>1, <3>3 DEF mark_exited, build, push_task, Sched
    <3>5. s \in [Tasks -> TaskState] /\ s[t] = "Exited" /\ (s[u] = state[u] \/ s[u] = "Exited")
      BY <2>0, <3>2, <3>3 DEF TypeOK, TaskState
    <3>6. /\ q = [state |-> q.state, event |-> q.event, queue |-> q.queue]
          /\ q.state \in [Tasks -> TaskState]
          /\ q.event \in [Tasks -> Events \cup {VFork, NoEvent}]
          /\ q.state[u] = state[u] \/ q.state[u] = "Exited"
          /\ q.state[t] = "Exited"
      BY <2>0, <3>2, <3>4, <3>5 DEF TypeOK, TaskState
    <3>. QED
      BY <2>7, <3>2, <3>6
  <2>10. ASSUME NEW t \in Tasks, NEW e \in Events, Wakeup(t, e)
         PROVE  state'[u] = state[u]
    BY <2>0, <2>10 DEF TypeOK, Wakeup, SchedIs, wakeup_task, push_task, Sched
  <2>. QED
    BY <2>1, <2>2, <2>3, <2>4, <2>5, <2>6, <2>8, <2>9, <2>10 DEF Next
<1>. QED
  BY <1>1, SchedulerInvariant, PTL DEF Spec, UninterruptibleEndsWithVFork

=============================================================================
