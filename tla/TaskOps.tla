------------------------------ MODULE TaskOps ------------------------------
(***************************************************************************)
(* The operations of trait Task (TCB and KThread) and of the ready queue   *)
(* that wake, block and run tasks, as functions on a scheduler record      *)
(*     k = [state |-> ..., event |-> ..., queue |-> ...]                   *)
(* state[t] is the TaskState of t ("None": the Task object does not exist  *)
(* yet), event[t] its wakeup_event, queue the VecDeque of the scheduler.   *)
(* The kernel is built with feature no-smp and does not preempt kernel     *)
(* code, so a handler is a composition of these functions.                 *)
(***************************************************************************)
EXTENDS Naturals, Sequences, FiniteSets

CONSTANTS Tasks,    \* Task objects (Arc<dyn Task>), each one built at most once
          NoTask,   \* the hart runs its idle loop, or an Option<Arc<Task>> is None
          NoEvent   \* wakeup_event is None

ASSUME NoTaskAssumption == NoTask \notin Tasks

TaskState == {"None", "Ready", "Running", "Blocked", "BlockedUninterruptible",
              "Exited"}

\* The tasks of a queue, and "no two entries have one tid".
Entries(q) == {q[i] : i \in 1..Len(q)}
TidsDiffer(q, tids) == \A i, j \in 1..Len(q) : tids[q[i]] = tids[q[j]] => i = j

\* The elements of s at the positions I, in their order.
Picked(s, I) ==
    LET picked[n \in 0..Len(s)] ==
            IF n = 0 THEN <<>>
            ELSE IF n \in I THEN Append(picked[n - 1], s[n]) ELSE picked[n - 1]
    IN  picked[Len(s)]

\* The orders in which the elements of S can come.
Orders(S) == {s \in [1..Cardinality(S) -> S] : \A i, j \in DOMAIN s : s[i] = s[j] => i = j}

\* Mutant: push_front.
push_task_lifo(k, t) == [k EXCEPT !.queue = <<t>> \o @]

\* Scheduler::push_task; its debug_assert is the property QueuedTidsDiffer.
push_task(k, t) == [k EXCEPT !.queue = Append(@, t)]

\* Scheduler::fetch_next_task, when the queue is not empty.
fetch_next_task(k) == [k EXCEPT !.queue = Tail(@)]

\* A Task object is built in state Ready, by new_clone, new_exec or KThread::new.
build(k, t) == [k EXCEPT !.state[t] = "Ready"]

run_if_ready(k, t) == [k EXCEPT !.state[t] = "Running"]

\* The end of the loop body of run_tasks, after the switch back to the idle context.
requeue_if_running(k, t) ==
    IF k.state[t] = "Running"
    THEN push_task([k EXCEPT !.state[t] = "Ready"], t)
    ELSE k

block(k, t) ==
    IF k.state[t] \in {"Ready", "Running"}
    THEN [k EXCEPT !.state[t] = "Blocked"]
    ELSE k

block_uninterruptible(k, t) ==
    IF k.state[t] \in {"Ready", "Running"}
    THEN [k EXCEPT !.state[t] = "BlockedUninterruptible"]
    ELSE k

\* TCB::unblock, whose debug_assert wants state Blocked.
unblock(k, t) == [k EXCEPT !.state[t] = "Running"]

\* Mutants: pushes a task it did not wake; ends an uninterruptible block.
wakeup_task_always_pushes(k, t, e) ==
    push_task(IF k.state[t] = "Blocked"
              THEN [k EXCEPT !.state[t] = "Ready", !.event[t] = e]
              ELSE k,
              t)

wakeup_task_any_block(k, t, e) ==
    IF k.state[t] \in {"Blocked", "BlockedUninterruptible"}
    THEN push_task([k EXCEPT !.state[t] = "Ready", !.event[t] = e], t)
    ELSE k

wakeup_task(k, t, e) ==
    IF k.state[t] = "Blocked"
    THEN push_task([k EXCEPT !.state[t] = "Ready", !.event[t] = e], t)
    ELSE k

\* WaitQueue::wake_all on the drained waiters w, and every other loop that wakes
\* tasks one after the other.
Waiter(t, e) == [task |-> t, arg |-> e]

wake_all(k, w) ==
    LET woken[n \in 0..Len(w)] ==
            IF n = 0 THEN k ELSE wakeup_task(woken[n - 1], w[n].task, w[n].arg)
    IN  woken[Len(w)]

\* Mutant: no look at the state.
wakeup_uninterruptible_unchecked(k, t, e) ==
    push_task([k EXCEPT !.state[t] = "Ready", !.event[t] = e], t)

\* Unlike wakeup_task, pushes the task whether or not it was blocked.
wakeup_task_uninterruptible(k, t, e) ==
    push_task(IF k.state[t] \in {"Blocked", "BlockedUninterruptible"}
              THEN [k EXCEPT !.state[t] = "Ready", !.event[t] = e]
              ELSE k,
              t)

take_wakeup_event(k, t) == [k EXCEPT !.event[t] = NoEvent]

\* state.state = Exited for every task of S, as PCB::exit and PCB::exec do.
mark_exited(k, S) ==
    [k EXCEPT !.state = [t \in Tasks |-> IF t \in S THEN "Exited" ELSE @[t]]]

=============================================================================
