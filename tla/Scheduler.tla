----------------------------- MODULE Scheduler -----------------------------
(***************************************************************************)
(* The life of a task between the calls the rest of the kernel makes on    *)
(* it: the run_tasks loop of the hart, blocking, wake-ups from other tasks *)
(* and from interrupt handlers, clone, vfork, exec and exit.               *)
(*                                                                         *)
(* One step is one call.  What a component does around these calls (which  *)
(* queue a blocked task is on, which tasks share a process) is left open:  *)
(* any existing task may be the target of a wake-up, any set of tasks that *)
(* contains the current one may be the threads of the exiting process.     *)
(***************************************************************************)
EXTENDS TaskOps, FiniteSets

CONSTANTS Events,    \* what wakeup may deliver, Event::VFork excepted
          VFork,     \* Event::VFork
          InitTask   \* the first task of the init process

ASSUME SchedulerAssumption ==
    /\ InitTask \in Tasks
    /\ NoEvent \notin Events \cup {VFork}

VARIABLES state,                \* Task -> TaskState
          wakeup_event,         \* Task -> Event or NoEvent
          ready_queue,          \* the VecDeque of SCHEDULER
          current,              \* processor().task, or NoTask in the idle loop
          awaiting,             \* tasks that blocked and have not yet taken the event
          tid,                  \* Task -> Tid
          next_tid,             \* NEXT_TID
          parent_waiting_vfork, \* Task -> the parent to wake on exec or exit
          stillborn             \* tasks built by a clone that failed before push_task

vars == <<state, wakeup_event, ready_queue, current, awaiting, tid, next_tid,
          parent_waiting_vfork, stillborn>>

Sched == [state |-> state, event |-> wakeup_event, queue |-> ready_queue]

SchedIs(k) ==
    /\ state' = k.state
    /\ wakeup_event' = k.event
    /\ ready_queue' = k.queue

Queued == Entries(ready_queue)
Existing == {t \in Tasks : state[t] # "None"}

\* create_initprocess: PID 1, pushed before the hart enters run_tasks.
Init ==
    /\ state = [t \in Tasks |-> IF t = InitTask THEN "Ready" ELSE "None"]
    /\ wakeup_event = [t \in Tasks |-> NoEvent]
    /\ ready_queue = <<InitTask>>
    /\ current = NoTask
    /\ awaiting = {}
    /\ tid = [t \in Tasks |-> IF t = InitTask THEN 1 ELSE 0]
    /\ next_tid = 2
    /\ parent_waiting_vfork = [t \in Tasks |-> NoTask]
    /\ stillborn = {}

-----------------------------------------------------------------------------
(* The run_tasks loop.                                                      *)

\* fetch_next_task, run_if_ready and switch_to_task.
RunNext ==
    /\ current = NoTask
    /\ ready_queue # <<>>
    /\ LET t == Head(ready_queue)
       IN  /\ state[t] = "Ready"
           /\ SchedIs(run_if_ready(fetch_next_task(Sched), t))
           /\ current' = t
    /\ UNCHANGED <<awaiting, tid, next_tid, parent_waiting_vfork, stillborn>>

\* run_if_ready returns false: the loop continues and the Arc is dropped.
DropFetched ==
    /\ current = NoTask
    /\ ready_queue # <<>>
    /\ state[Head(ready_queue)] # "Ready"
    /\ SchedIs(fetch_next_task(Sched))
    /\ UNCHANGED <<current, awaiting, tid, next_tid, parent_waiting_vfork, stillborn>>

\* current::schedule, back in the idle context: from the timer interrupt, at
\* the end of a system call, or after block.
Schedule ==
    /\ current # NoTask
    /\ current \in awaiting => state[current] = "Blocked"
    /\ SchedIs(requeue_if_running(Sched, current))
    /\ current' = NoTask
    /\ UNCHANGED <<awaiting, tid, next_tid, parent_waiting_vfork, stillborn>>

-----------------------------------------------------------------------------
(* What the current task does.                                              *)

InKernel(t) == current = t /\ state[t] = "Running" /\ t \notin awaiting

\* Task::block; the caller then registers itself with what will wake it.
Block(t) ==
    /\ InKernel(t)
    /\ SchedIs(block(Sched, t))
    /\ awaiting' = awaiting \cup {t}
    /\ UNCHANGED <<current, tid, next_tid, parent_waiting_vfork, stillborn>>

\* select and poll found a ready file before they gave up the hart.
Unblock(t) ==
    /\ current = t
    /\ state[t] = "Blocked"
    /\ SchedIs(unblock(Sched, t))
    /\ awaiting' = awaiting \ {t}
    /\ UNCHANGED <<current, tid, next_tid, parent_waiting_vfork, stillborn>>

\* schedule returned: take_wakeup_event().unwrap().
TakeWakeupEvent(t) ==
    /\ current = t
    /\ state[t] = "Running"
    /\ t \in awaiting
    /\ SchedIs(take_wakeup_event(Sched, t))
    /\ awaiting' = awaiting \ {t}
    /\ UNCHANGED <<current, tid, next_tid, parent_waiting_vfork, stillborn>>

\* clone without VFORK, and kthread::spawn: the new task is pushed.
Clone(t, c) ==
    /\ InKernel(t)
    /\ state[c] = "None"
    /\ SchedIs(push_task(build(Sched, c), c))
    /\ tid' = [tid EXCEPT ![c] = next_tid]
    /\ next_tid' = next_tid + 1
    /\ UNCHANGED <<current, awaiting, parent_waiting_vfork, stillborn>>

\* clone that returns EFAULT on PARENT_SETTID: built, never pushed.
CloneFault(t, c) ==
    /\ InKernel(t)
    /\ state[c] = "None"
    /\ SchedIs(build(Sched, c))
    /\ tid' = [tid EXCEPT ![c] = next_tid]
    /\ next_tid' = next_tid + 1
    /\ stillborn' = stillborn \cup {c}
    /\ UNCHANGED <<current, awaiting, parent_waiting_vfork>>

\* clone with VFORK: set_parent_waiting_vfork, push_task, block_uninterruptible.
CloneVFork(t, c) ==
    /\ InKernel(t)
    /\ state[c] = "None"
    /\ SchedIs(block_uninterruptible(push_task(build(Sched, c), c), t))
    /\ tid' = [tid EXCEPT ![c] = next_tid]
    /\ next_tid' = next_tid + 1
    /\ parent_waiting_vfork' = [parent_waiting_vfork EXCEPT ![c] = t]
    /\ awaiting' = awaiting \cup {t}
    /\ current' = NoTask
    /\ UNCHANGED stillborn

\* TCB::wake_parent_waiting_vfork on a scheduler record.
wake_parent_waiting_vfork(k, t) ==
    IF parent_waiting_vfork[t] = NoTask
    THEN k
    ELSE wakeup_task_uninterruptible(k, parent_waiting_vfork[t], VFork)

\* Mutant: the parent is woken but not taken out of parent_waiting_vfork.
Exit_without_take(t, S) ==
    /\ InKernel(t)
    /\ t \in S
    /\ SchedIs(wake_parent_waiting_vfork(mark_exited(Sched, S), t))
    /\ current' = NoTask
    /\ UNCHANGED <<awaiting, tid, next_tid, parent_waiting_vfork, stillborn>>

\* exit and exit_group: S is {t} or the tasks of t's process.
Exit(t, S) ==
    /\ InKernel(t)
    /\ t \in S
    /\ SchedIs(wake_parent_waiting_vfork(mark_exited(Sched, S), t))
    /\ parent_waiting_vfork' = [parent_waiting_vfork EXCEPT ![t] = NoTask]
    /\ current' = NoTask
    /\ UNCHANGED <<awaiting, tid, next_tid, stillborn>>

\* handle_signal with a fatal signal: PCB::exit, then schedule.
KilledBySignal(t, S) ==
    /\ InKernel(t)
    /\ t \in S
    /\ SchedIs(mark_exited(Sched, S))
    /\ current' = NoTask
    /\ UNCHANGED <<awaiting, tid, next_tid, parent_waiting_vfork, stillborn>>

\* execve: new_exec builds n with the tid of t, PCB::exec marks the process's
\* old tasks and pushes n, then the vfork parent of t is woken.
Exec(t, n, S) ==
    /\ InKernel(t)
    /\ state[n] = "None"
    /\ t \in S
    /\ SchedIs(wake_parent_waiting_vfork(
                   push_task(build(mark_exited(Sched, S), n), n), t))
    /\ tid' = [tid EXCEPT ![n] = tid[t]]
    /\ parent_waiting_vfork' = [parent_waiting_vfork EXCEPT ![t] = NoTask]
    /\ current' = NoTask
    /\ UNCHANGED <<awaiting, next_tid, stillborn>>

\* scheduler::wakeup_task, called by the current task, by the one that is just
\* exiting, or by an interrupt handler over the idle loop or user mode.
Wakeup(t, e) ==
    /\ current # NoTask => InKernel(current)
    /\ t \in Existing
    /\ SchedIs(wakeup_task(Sched, t, e))
    /\ UNCHANGED <<current, awaiting, tid, next_tid, parent_waiting_vfork, stillborn>>

-----------------------------------------------------------------------------
Next ==
    \/ RunNext
    \/ DropFetched
    \/ Schedule
    \/ \E t \in Tasks :
        \/ Block(t)
        \/ Unblock(t)
        \/ TakeWakeupEvent(t)
        \/ \E c \in Tasks : Clone(t, c) \/ CloneFault(t, c) \/ CloneVFork(t, c)
        \/ \E S \in SUBSET Existing : Exit(t, S) \/ KilledBySignal(t, S)
        \/ \E n \in Tasks, S \in SUBSET Existing : Exec(t, n, S)
        \/ \E e \in Events : Wakeup(t, e)

Spec == Init /\ [][Next]_vars

\* The hart never stops: run_tasks is a loop, kernel code ends in schedule, and
\* the timer interrupt takes the hart back from user code.
Fairness ==
    /\ WF_vars(RunNext)
    /\ WF_vars(DropFetched)
    /\ WF_vars(Schedule)
    /\ \A t \in Tasks : WF_vars(TakeWakeupEvent(t))

FairSpec == Spec /\ Fairness

-----------------------------------------------------------------------------
(* Properties.                                                              *)

\* The fields of the tasks, the ready queue and the hart have their types.
TypeOK ==
    /\ state \in [Tasks -> TaskState]
    /\ wakeup_event \in [Tasks -> Events \cup {VFork, NoEvent}]
    /\ ready_queue \in Seq(Tasks)
    /\ current \in Tasks \cup {NoTask}
    /\ awaiting \subseteq Tasks
    /\ tid \in [Tasks -> Nat]
    /\ next_tid \in Nat
    /\ parent_waiting_vfork \in [Tasks -> Tasks \cup {NoTask}]
    /\ stillborn \subseteq Tasks

\* The debug_assert of push_task never fires: no two entries of the ready queue
\* have one tid, although exec gives two TCBs the same tid and a vfork parent is
\* pushed without a look at its state.
QueuedTidsDiffer == TidsDiffer(ready_queue, tid)

\* run_tasks loses nobody: a Ready task is in the ready queue, unless the clone
\* that built it failed before push_task, and only an Exited task is dropped
\* when run_tasks finds it not Ready.
ReadyTasksAreQueued ==
    /\ \A t \in Tasks \ stillborn : state[t] = "Ready" => t \in Queued
    /\ \A t \in Queued : state[t] \in {"Ready", "Exited"}

\* The one hart runs one task: a task is Running only while it is current.
RunningIsCurrent == \A t \in Tasks : state[t] = "Running" => current = t

\* The unwrap of take_wakeup_event after schedule never panics: a task that
\* blocked and is Ready or Running again has an event to take.
WakeupHasEvent ==
    \A t \in awaiting : state[t] \in {"Ready", "Running"} => wakeup_event[t] # NoEvent

\* A tid names one live task: exec retires the TCB whose tid it reuses.
LiveTidsDiffer ==
    \A t, u \in Existing :
        /\ t # u
        /\ tid[t] = tid[u]
        => "Exited" \in {state[t], state[u]}

-----------------------------------------------------------------------------
(* The inductive invariant of the proofs in SchedulerProofs.                *)

\* tid::alloc never returns a tid in use.
TidsAreAllocated == \A t \in Existing : tid[t] < next_tid

\* Only a task that has run can have blocked.
AwaitingExist == \A t \in awaiting : state[t] # "None"

\* The task on the hart is Running or about to give it up, and is not queued.
CurrentIsNotQueued ==
    current # NoTask => /\ current \notin Queued
                        /\ \/ state[current] = "Running"
                           \/ state[current] = "Blocked" /\ current \in awaiting

\* A vfork parent waits, or was killed waiting, for one child, and is not queued.
VForkParents ==
    \A c \in Tasks :
        LET p == parent_waiting_vfork[c]
        IN  p # NoTask => /\ state[p] \in {"BlockedUninterruptible", "Exited"}
                          /\ p \notin Queued
                          /\ \A d \in Tasks : parent_waiting_vfork[d] = p => d = c

\* Of two tasks with one tid, one can never be pushed again.
Retired(t) ==
    /\ state[t] = "Exited"
    /\ t \notin Queued
    /\ \A c \in Tasks : parent_waiting_vfork[c] # t

SharedTidsAreRetired ==
    \A t, u \in Existing : t # u /\ tid[t] = tid[u] => Retired(t) \/ Retired(u)

IInv ==
    /\ TypeOK
    /\ QueuedTidsDiffer
    /\ ReadyTasksAreQueued
    /\ RunningIsCurrent
    /\ WakeupHasEvent
    /\ TidsAreAllocated
    /\ AwaitingExist
    /\ CurrentIsNotQueued
    /\ VForkParents
    /\ SharedTidsAreRetired

-----------------------------------------------------------------------------
(* Action and liveness properties.                                          *)

\* Exited is final: no late wake-up, vfork release or requeue revives a task.
ExitedIsFinal ==
    [][\A t \in Tasks : state[t] = "Exited" => state'[t] = "Exited"]_vars

\* Only exec or exit of the vfork child ends an uninterruptible block, and the
\* parent then finds Event::VFork (the other arm of clone is unreachable!()).
UninterruptibleEndsWithVFork ==
    [][\A t \in Tasks :
          /\ state[t] = "BlockedUninterruptible"
          /\ state'[t] # "BlockedUninterruptible"
          => \/ state'[t] = "Exited"
             \/ /\ wakeup_event'[t] = VFork
                /\ \E c \in Tasks : /\ parent_waiting_vfork[c] = t
                                    /\ state'[c] = "Exited"]_vars

\* The FIFO starves nobody: a Ready task that was pushed gets the hart or exits.
ReadyTasksRun ==
    \A t \in Tasks :
        (state[t] = "Ready" /\ t \notin stillborn) ~> (state[t] # "Ready")

=============================================================================
