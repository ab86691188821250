------------------------------ MODULE Segments ------------------------------
(***************************************************************************)
(* One step of a task.  Kernel code is not preempted and every system call *)
(* ends in current::schedule, so a task runs in segments: run_tasks        *)
(* fetches it, it returns to user mode and makes one system call, or it    *)
(* resumes a call it blocked in, and it runs until it gives up the hart.   *)
(* Between two segments the hart is in run_tasks, where interrupts come in.*)
(* (An interrupt in user mode ends in schedule too: it is the interrupt,   *)
(* then a segment that changes nothing.)                                   *)
(***************************************************************************)
EXTENDS TaskOps

(* The kernel, one record: the fields of TaskOps and
     pc    task -> where its kernel stack stands: in user mode, or in a block
     fate  "up"; "halted" when init exited; "panic" at an unreachable!(), a
           failed assertion or a SpinLock locked twice
   and the fields of the components a module composes.                      *)
VARIABLE k

User == [at |-> "user", arg |-> NoTask]
At(where, arg) == [at |-> where, arg |-> arg]

\* The task run_tasks fetches next, and the kernel with it on the hart.
Me == Head(k.queue)
CanRun == k.fate = "up" /\ k.queue # <<>> /\ k.state[Me] = "Ready"
Fetched == run_if_ready(fetch_next_task(k), Me)

\* Me resumes the call it blocked in, and takes the event.
Resume(where) == CanRun /\ k.pc[Me].at = where
Resumed == take_wakeup_event(Fetched, Me)

\* The schedule at the end of trap::syscall.
Return(q) == requeue_if_running([q EXCEPT !.pc[Me] = User], Me)

\* current::block and block_uninterruptible: the segment ends here.
BlockAt(q, where, arg) == [block(q, Me) EXCEPT !.pc[Me] = At(where, arg)]
BlockUninterruptibleAt(q, where) ==
    [block_uninterruptible(q, Me) EXCEPT !.pc[Me] = At(where, 0)]

Panic(q) == [q EXCEPT !.fate = "panic"]

\* run_if_ready returned false: the loop of run_tasks goes on.
DropFetched ==
    /\ k.fate = "up" /\ k.queue # <<>>
    /\ k.state[Me] # "Ready"
    /\ k' = fetch_next_task(k)

=============================================================================
