------------------------------ MODULE Process ------------------------------
(***************************************************************************)
(* Processes: fork, threads, vfork, exec, exit, wait4, kill and the signal *)
(* delivery they share, over the FIFO scheduler of one hart.  A step is a  *)
(* segment of a task (module Segments).                                    *)
(***************************************************************************)
EXTENDS Segments, FiniteSetsExt

-----------------------------------------------------------------------------
(***************************************************************************)
(* Sending and receiving signals, as functions on a kernel record q that   *)
(* has, besides the fields of TaskOps:                                     *)
(*   tid            task -> Tid                                            *)
(*   tasks          process -> sequence of its TCBs (PCB::tasks)           *)
(*   pending_signal task -> signal being delivered, or NoSignal            *)
(*   signal_to_wait task -> set sigtimedwait waits for                     *)
(*   signal_mask    task -> set of masked signals                          *)
(*   pending        process -> sequence of queued signals                  *)
(* A signal is [num, dest]; dest is a tid, or 0 for the whole process.     *)
(***************************************************************************)

CONSTANT NoSignal

Signal(num, dest) == [num |-> num, dest |-> dest]

\* Events carry an argument: the child of Process, the number of WaitSignal.
Ev(type, arg) == [type |-> type, arg |-> arg]

\* One signal of each default action, SIGKILL, and SIGUSR1 with a user handler in mind.
SigNums == {"KILL", "STOP", "TERM", "SEGV", "CONT", "CHLD", "USR1"}

is_unignorable(num) == num \in {"KILL", "STOP"}

default_action(num) ==
    CASE num = "SEGV" -> "Core"
      [] num = "STOP" -> "Stop"
      [] num = "CONT" -> "Cont"
      [] num = "CHLD" -> "Ign"
      [] OTHER -> "Term"

\* TCB::try_recive_pending_signal: would t take s now?
accepts(q, t, s) ==
    \/ s.num \in q.signal_to_wait[t]
    \/ /\ q.pending_signal[t] = NoSignal
       /\ is_unignorable(s.num) \/ s.num \notin q.signal_mask[t]

\* ... and what it does when it returns true.
try_recive_pending_signal(q, t, s) ==
    IF s.num \in q.signal_to_wait[t]
    THEN wakeup_task([q EXCEPT !.pending_signal[t] = s, !.signal_to_wait[t] = {}],
                     t, Ev("WaitSignal", s.num))
    ELSE wakeup_task([q EXCEPT !.pending_signal[t] = s], t, Ev("Signal", 0))

add_pending(q, p, s) == [q EXCEPT !.pending[p] = Append(@, s)]

\* PCB::send_signal: the first thread that accepts it, or the process queue.
\* (ESRCH, for a dest that names no thread, changes nothing.)
send_signal(q, p, s) ==
    LET l == q.tasks[p]
        named == {i \in 1..Len(l) : s.dest \in {0, q.tid[l[i]]}}
        tried == {i \in named : s.dest = 0 \/ \A j \in named : i <= j}
        takers == {i \in tried : accepts(q, l[i], s)}
    IN  CASE takers # {} -> try_recive_pending_signal(q, l[Min(takers)], s)
          [] takers = {} /\ (s.dest = 0 \/ tried # {}) -> add_pending(q, p, s)
          [] OTHER -> q

\* PendingSignalQueue::pop_pending: the index of the signal it would remove.
deliverable(q, p, t) ==
    {i \in 1..Len(q.pending[p]) :
        LET s == q.pending[p][i]
        IN  /\ s.num \notin q.signal_mask[t] \/ is_unignorable(s.num)
            /\ s.dest \in {0, q.tid[t]}}

\* Mutant: the queue of the process is never looked at.
recive_nothing_from_parent(q, p, t) == q

recive_pending_signal_from_parent(q, p, t) ==
    LET D == deliverable(q, p, t)
    IN  IF q.pending_signal[t] # NoSignal \/ D = {}
        THEN q
        ELSE LET i == Min(D)
             IN  [q EXCEPT !.pending_signal[t] = q.pending[p][i],
                           !.pending[p] = Picked(@, 1..Len(@) \ {i})]

-----------------------------------------------------------------------------
CONSTANT Workloads   \* name -> what the user programs of a run do

AllCalls == {"yield", "fork", "thread", "vfork", "clone_fault", "exec", "exit",
             "exit_group", "wait_child", "wait_any", "kill", "tgkill"}

\* The calls programs make, the signals they send with kill and tgkill, and a
\* bound on how many, so that the queues of signals stay finite.
Workload == [calls : SUBSET AllCalls, signals : SUBSET SigNums, kills : Nat]

INIT == 1   \* TID_START: the tid of the first task and the pid of init

ASSUME ProcessAssumption ==
    /\ Cardinality(Tasks) \in Nat /\ Tasks = 1..Cardinality(Tasks)
    /\ INIT \in Tasks
    /\ \A name \in DOMAIN Workloads : Workloads[name] \in Workload

Pids == Tasks

(* The kernel record k has the fields of Segments, those of the signals, and
     proc      task -> the pid of its PCB (TCB::parent)
     next_tid  NEXT_TID
     vfork     task -> the task to wake on exec or exit (parent_waiting_vfork)
     pstate    process -> PCB::state ("None": no such PCB yet)
     parent, children, waiting_task: fields of the PCB
     action    process -> signal -> "DFL", "IGN" or "USER" (SignalActionTable)
     frames    task -> the masks saved in the signal frames on its user stack
     pcbs      the keys of PCBS
     reaped    process -> how many wait calls returned its exit code
     kills     number of kill calls so far
     load      the name of the workload                                     *)

Load == Workloads[k.load]

-----------------------------------------------------------------------------
(* PCB and TCB methods.                                                     *)

\* The Task object a constructor builds next.
new_task(q) == Min({t \in Tasks : q.state[t] = "None"})
CanBuild(q) == \E t \in Tasks : q.state[t] = "None"

\* TCB::new for a clone: a fresh tid, in process p.
new_clone(q, p) ==
    LET c == new_task(q)
    IN  [build(q, c) EXCEPT !.tid[c] = q.next_tid, !.proc[c] = p,
                            !.next_tid = @ + 1,
                            !.tasks[p] = Append(@, c)]

\* PCB::clone_task: a thread of the caller's process, or a new process.
clone_task(q, t, thread) ==
    IF thread
    THEN new_clone(q, q.proc[t])
    ELSE LET p == q.next_tid
         IN  new_clone([q EXCEPT !.pstate[p] = "Running",
                                 !.parent[p] = q.proc[t],
                                 !.children[q.proc[t]] = Append(@, p),
                                 !.pcbs = @ \cup {p}], p)

wake_parent_waiting_vfork(q, t) ==
    IF q.vfork[t] = NoTask
    THEN q
    ELSE wakeup_task_uninterruptible([q EXCEPT !.vfork[t] = NoTask],
                                     q.vfork[t], Ev("VFork", 0))

\* The drain of parent.waiting_task in PCB::exit.
wake_waiting_tasks(q, parent, child) ==
    LET w == q.waiting_task[parent]
    IN  wake_all([q EXCEPT !.waiting_task[parent] = <<>>],
                 [n \in 1..Len(w) |-> Waiter(w[n], Ev("Process", child))])

\* Children go to init, at the end of its list, whatever their state.
reparent_to_init(q, p) ==
    [q EXCEPT !.parent = [c \in Pids |-> IF c \in Entries(q.children[p])
                                         THEN INIT ELSE @[c]],
              !.children = [q.children EXCEPT
                               ![p] = <<>>,
                               ![INIT] = q.children[INIT] \o q.children[p]]]

\* Mutant: the parent is neither woken nor signalled.
PCB_exit_silent(q, p) ==
    LET dead == [mark_exited(q, Entries(q.tasks[p])) EXCEPT
                    !.tasks[p] = <<>>, !.pstate[p] = "Exited"]
    IN  IF p = INIT
        THEN [dead EXCEPT !.fate = "halted"]
        ELSE [reparent_to_init(dead, p) EXCEPT !.pcbs = @ \ {p}]

PCB_exit(q, p) ==
    LET dead == [mark_exited(q, Entries(q.tasks[p])) EXCEPT
                    !.tasks[p] = <<>>, !.pstate[p] = "Exited"]
        told == send_signal(wake_waiting_tasks(dead, dead.parent[p], p),
                            dead.parent[p], Signal("CHLD", 0))
    IN  IF p = INIT
        THEN [dead EXCEPT !.fate = "halted"]
        ELSE [reparent_to_init(told, p) EXCEPT !.pcbs = @ \ {p}]

\* TCB::exit; the futex of tid_address is modelled in module Futex.
TCB_exit(q, t) ==
    LET dead == mark_exited(q, {t})
    IN  IF q.tid[t] = q.proc[t] THEN PCB_exit(dead, q.proc[t]) ELSE dead

\* PCB::exec: the new TCB has the tid and the process of t.
PCB_exec(q, t) ==
    LET n == new_task(q)
        p == q.proc[t]
        built == [build(q, n) EXCEPT !.tid[n] = q.tid[t], !.proc[n] = p]
    IN  push_task([mark_exited(built, Entries(q.tasks[p])) EXCEPT !.tasks[p] = <<n>>], n)

\* Mutant: an exited child stays Exited.
recycle_keeps_state(q, c) == q

\* PCB::recycle: Some(code) only for Exited, but the state becomes Dead anyway.
recycle(q, c) == [q EXCEPT !.pstate[c] = "Dead"]

reap(q, c) == [recycle(q, c) EXCEPT !.reaped[c] = @ + 1]

forget_child(q, p, c) ==
    [q EXCEPT !.children[p] = Picked(@, {i \in 1..Len(@) : @[i] # c})]

-----------------------------------------------------------------------------
(* Segments.                                                                *)

\* TCB::handle_signal: a fatal signal ends the process; a handler runs with
\* the signal masked, and the old mask waits in the frame for sigreturn.
handle_signal(q, t) ==
    LET s == q.pending_signal[t]
        p == q.proc[t]
        taken == [q EXCEPT !.pending_signal[t] = NoSignal]
        fatal == \/ is_unignorable(s.num)
                 \/ /\ q.action[p][s.num] = "DFL"
                    /\ default_action(s.num) \in {"Term", "Stop", "Core"}
    IN  CASE s = NoSignal -> q
          [] s # NoSignal /\ fatal -> PCB_exit(taken, p)
          [] s # NoSignal /\ ~fatal /\ q.action[p][s.num] = "USER" ->
                [taken EXCEPT !.frames[t] = Append(@, q.signal_mask[t]),
                              !.signal_mask[t] = @ \cup {s.num}]
          [] OTHER -> taken

trap_return(q, t) ==
    handle_signal(recive_pending_signal_from_parent(q, q.proc[t], t), t)

\* Me returns to user mode, is not killed by a signal there, and makes call c.
Entered == trap_return(Fetched, Me)
UserCall(c) ==
    /\ c \in Load.calls
    /\ CanRun
    /\ k.pc[Me] = User
    /\ Entered.state[Me] = "Running"

\* The fatal signal of trap_return: PCB::exit, schedule.
KilledInUserMode ==
    /\ CanRun
    /\ k.pc[Me] = User
    /\ Entered.state[Me] = "Exited"
    /\ k' = Entered

-----------------------------------------------------------------------------
(* System calls.                                                            *)

\* sched_yield, a timer interrupt in user mode, or a call that changes nothing.
Yield == UserCall("yield") /\ k' = Return(Entered)

\* clone without THREAD and VFORK.
Fork ==
    /\ UserCall("fork") /\ CanBuild(k)
    /\ k' = Return(push_task(clone_task(Entered, Me, FALSE), new_task(k)))

\* clone with THREAD.
Thread ==
    /\ UserCall("thread") /\ CanBuild(k)
    /\ k' = Return(push_task(clone_task(Entered, Me, TRUE), new_task(k)))

\* clone with PARENT_SETTID and a bad pointer: EFAULT after clone_task.
CloneFault ==
    /\ UserCall("clone_fault") /\ CanBuild(k)
    /\ k' = Return(clone_task(Entered, Me, FALSE))

\* clone with VFORK: the caller blocks until the child's exec or exit.
VFork ==
    /\ UserCall("vfork") /\ CanBuild(k)
    /\ LET c == new_task(k)
           q == [clone_task(Entered, Me, FALSE) EXCEPT !.vfork[c] = Me]
       IN  k' = BlockUninterruptibleAt(push_task(q, c), "vfork")

VForkResume == Resume("vfork") /\
    k' = IF k.event[Me].type = "VFork" THEN Return(Resumed) ELSE Panic(Resumed)

Exec ==
    /\ UserCall("exec") /\ CanBuild(k)
    /\ k' = wake_parent_waiting_vfork(PCB_exec(Entered, Me), Me)

Exit ==
    /\ UserCall("exit")
    /\ k' = wake_parent_waiting_vfork(TCB_exit(Entered, Me), Me)

ExitGroup ==
    /\ UserCall("exit_group")
    /\ k' = wake_parent_waiting_vfork(PCB_exit(Entered, Entered.proc[Me]), Me)

\* kill: ESRCH unless the pid is in PCBS.
Kill ==
    /\ UserCall("kill") /\ k.kills < Load.kills
    /\ \E p \in Entered.pcbs, num \in Load.signals :
          k' = Return(send_signal([Entered EXCEPT !.kills = @ + 1], p, Signal(num, 0)))

\* tgkill, and tkill, which looks the tid up among the pids.
TgKill ==
    /\ UserCall("tgkill") /\ k.kills < Load.kills
    /\ \E p \in Entered.pcbs, num \in Load.signals, d \in 1..(k.next_tid - 1) :
          k' = Return(send_signal([Entered EXCEPT !.kills = @ + 1], p, Signal(num, d)))

-----------------------------------------------------------------------------
(* wait4.                                                                   *)

\* The loop body of wait_child, up to its block.
wait_child_blocks(q, p, c) ==
    BlockAt([q EXCEPT !.waiting_task[p] = Append(@, Me)], "wait_child", c)

\* wait_child(pid): the look at the child, then WNOHANG or the first block.
WaitChild ==
    /\ UserCall("wait_child")
    /\ \E c \in Entries(Entered.children[Entered.proc[Me]]), nohang \in BOOLEAN :
          LET p == Entered.proc[Me]
          IN  k' = CASE Entered.pstate[c] = "Exited" -> Return(reap(Entered, c))
                     [] Entered.pstate[c] # "Exited" /\ nohang ->
                          Return(recycle(Entered, c))
                     [] OTHER -> wait_child_blocks(recycle(Entered, c), p, c)

\* ... and the loop around its block.
WaitChildResume ==
    /\ Resume("wait_child")
    /\ LET c == k.pc[Me].arg
           p == k.proc[Me]
           e == k.event[Me]
       IN  k' = CASE e.type = "Process" /\ e.arg # c -> wait_child_blocks(Resumed, p, c)
                  [] e.type = "Process" /\ e.arg = c /\ k.pstate[c] = "Exited" ->
                       Return(forget_child(reap(Resumed, c), p, c))
                  [] e.type = "Process" /\ e.arg = c /\ k.pstate[c] # "Exited" ->
                       Return(recycle(Resumed, c))
                  [] e.type = "Signal" -> Return(Resumed)
                  [] OTHER -> Panic(Resumed)

\* wait_any_child: the first exited child, WNOHANG, or register and block.
WaitAny ==
    /\ UserCall("wait_any")
    /\ \E nohang \in BOOLEAN :
          LET p == Entered.proc[Me]
              l == Entered.children[p]
              exited == {i \in 1..Len(l) : Entered.pstate[l[i]] = "Exited"}
              c == l[Min(exited)]
              registered == [Entered EXCEPT !.waiting_task[p] = Append(@, Me)]
          IN  k' = CASE exited # {} -> Return(forget_child(reap(Entered, c), p, c))
                     [] exited = {} /\ nohang -> Return(Entered)
                     [] OTHER -> BlockAt(registered, "wait_any", 0)

\* ... and its loop, which blocks again without registering again.
WaitAnyResume ==
    /\ Resume("wait_any")
    /\ LET p == k.proc[Me]
           e == k.event[Me]
           c == e.arg
           mine == c \in Entries(k.children[p])
       IN  k' = CASE e.type = "Process" /\ mine /\ k.pstate[c] = "Exited" ->
                       Return(forget_child(reap(Resumed, c), p, c))
                  [] e.type = "Process" /\ mine /\ k.pstate[c] # "Exited" ->
                       BlockAt(recycle(Resumed, c), "wait_any", 0)
                  [] e.type = "Process" /\ ~mine -> BlockAt(Resumed, "wait_any", 0)
                  [] e.type = "Signal" -> Return(Resumed)
                  [] OTHER -> Panic(Resumed)

-----------------------------------------------------------------------------
\* create_initprocess.
Init == \E name \in DOMAIN Workloads : k =
    [load |-> name,
     state |-> [t \in Tasks |-> IF t = INIT THEN "Ready" ELSE "None"],
     event |-> [t \in Tasks |-> NoEvent],
     queue |-> <<INIT>>,
     pc |-> [t \in Tasks |-> User],
     tid |-> [t \in Tasks |-> IF t = INIT THEN INIT ELSE 0],
     proc |-> [t \in Tasks |-> INIT],
     next_tid |-> INIT + 1,
     vfork |-> [t \in Tasks |-> NoTask],
     pending_signal |-> [t \in Tasks |-> NoSignal],
     signal_to_wait |-> [t \in Tasks |-> {}],
     signal_mask |-> [t \in Tasks |-> {}],
     frames |-> [t \in Tasks |-> <<>>],
     pstate |-> [p \in Pids |-> IF p = INIT THEN "Running" ELSE "None"],
     parent |-> [p \in Pids |-> INIT],
     children |-> [p \in Pids |-> <<>>],
     tasks |-> [p \in Pids |-> IF p = INIT THEN <<INIT>> ELSE <<>>],
     waiting_task |-> [p \in Pids |-> <<>>],
     action |-> [p \in Pids |-> [n \in SigNums |-> "DFL"]],
     pending |-> [p \in Pids |-> <<>>],
     pcbs |-> {INIT},
     reaped |-> [p \in Pids |-> 0],
     kills |-> 0,
     fate |-> "up"]

Next ==
    \/ DropFetched \/ KilledInUserMode
    \/ Yield \/ Fork \/ Thread \/ CloneFault \/ VFork \/ VForkResume
    \/ Exec \/ Exit \/ ExitGroup \/ Kill \/ TgKill
    \/ WaitChild \/ WaitChildResume \/ WaitAny \/ WaitAnyResume

Spec == Init /\ [][Next]_k

(* run_tasks never stops while the queue holds a task: over and over the hart
   is idle, or takes a step. Where programs may exit, a task in the queue can
   always take a step that changes k, so this is WF_k(Next), with its ENABLED
   condition written out.                                                   *)
Idle == k.fate # "up" \/ k.queue = <<>>
FairSpec == Spec /\ ([]<>Idle \/ []<><<Next>>_k)

-----------------------------------------------------------------------------
(* Properties.                                                              *)

Pcs == {"user", "vfork", "wait_child", "wait_any"}

\* The fields of the kernel record have the types of TCB, PCB and the scheduler.
TypeOK ==
    /\ k.state \in [Tasks -> TaskState]
    /\ \A t \in Tasks : k.event[t] = NoEvent
                         \/ k.event[t].type \in {"Process", "Signal", "VFork"}
    /\ Entries(k.queue) \subseteq Tasks
    /\ \A t \in Tasks : k.pc[t].at \in Pcs /\ k.pc[t].arg \in Pids \cup {0, NoTask}
    /\ k.tid \in [Tasks -> 0..Cardinality(Tasks)]
    /\ k.proc \in [Tasks -> Pids]
    /\ k.vfork \in [Tasks -> Tasks \cup {NoTask}]
    /\ k.pstate \in [Pids -> {"None", "Running", "Exited", "Dead"}]
    /\ k.parent \in [Pids -> Pids]
    /\ \A p \in Pids : /\ Entries(k.children[p]) \subseteq Pids
                       /\ Entries(k.tasks[p]) \subseteq Tasks
                       /\ Entries(k.waiting_task[p]) \subseteq Tasks
    /\ k.pcbs \subseteq Pids
    /\ k.fate \in {"up", "halted", "panic"}

\* No program makes any of these calls.
Never(S) == Load.calls \cap S = {}

Live(t) == k.state[t] \notin {"None", "Exited"}

\* A process that exists and whose exit code no wait call has returned yet.
Owed(p) == p \in k.pcbs \/ k.pstate[p] = "Exited"

\* PCB::recycle hands an exit code out once: no child is reaped twice, however
\* many threads of the parent wait for it, by pid or for any child.
ReapedOnce == \A p \in Pids : k.reaped[p] <= 1

\* reparent_to_init keeps the tree whole: every process that runs or waits to
\* be reaped is, exactly once, in the children of its parent, which is alive.
FamilyTree ==
    k.fate = "up" => \A c \in Pids \ {INIT} : Owed(c) =>
        /\ k.parent[c] \in k.pcbs
        /\ LET siblings == k.children[k.parent[c]]
           IN  \E i \in DOMAIN siblings : \A j \in DOMAIN siblings :
                  siblings[j] = c <=> j = i
        /\ \A p \in Pids \ {k.parent[c]} : c \notin Entries(k.children[p])

\* PCB::exit and PCB::exec leave no thread behind: a task that is not Exited
\* is a thread of a process the manager still knows.
NoOrphanThread ==
    k.fate = "up" => \A t \in Tasks : Live(t) =>
        /\ k.proc[t] \in k.pcbs
        /\ t \in Entries(k.tasks[k.proc[t]])

\* The debug_assert of push_task on the composed kernel.
QueueTidsDiffer == TidsDiffer(k.queue, k.tid)

\* No event reaches a block whose match ends in unreachable!().
NoPanic == k.fate # "panic"

\* A parent blocked in vfork has a child that can still wake it.
VForkHasChild ==
    k.fate = "up" => \A t \in Tasks : k.state[t] = "BlockedUninterruptible" =>
        \E c \in Tasks : Live(c) /\ k.vfork[c] = t

\* Without kill and threads the only ways out of a vfork child are execve, exit
\* and exit_group, and each of them wakes the parent, once.
VForkParentHasChild == Never({"kill", "tgkill", "thread"}) => VForkHasChild

\* A single-threaded process other than init never sleeps in wait_any_child
\* on a child that already exited: no exit slips between look and block.
WaitAnySeesExits ==
    k.fate = "up" => \A t \in Tasks :
        /\ k.state[t] = "Blocked" /\ k.pc[t].at = "wait_any"
        /\ k.proc[t] # INIT
        /\ Len(k.tasks[k.proc[t]]) = 1
        => \A c \in Entries(k.children[k.proc[t]]) : k.pstate[c] # "Exited"

\* The families of processes stay whole under clone, exec, exit and wait: what
\* PCB::recycle, reparent_to_init, PCB::exit and PCB::exec promise together.
FamiliesSound == TypeOK /\ ReapedOnce /\ FamilyTree /\ NoOrphanThread

\* No assertion of the scheduler and no unreachable!() after a block fires.
AssertionsHold == QueueTidsDiffer /\ NoPanic

\* Nobody sleeps for an event that has already been: in wait_any_child for an
\* exit, in vfork for a child that is gone.
SleepersHaveReason == WaitAnySeesExits /\ VForkParentHasChild

Killed(p) ==
    \/ \E t \in Entries(k.tasks[p]) : k.pending_signal[t] # NoSignal
                                      /\ k.pending_signal[t].num = "KILL"
    \/ \E i \in 1..Len(k.pending[p]) : k.pending[p][i].num = "KILL"

\* Where nothing blocks, kill(pid, SIGKILL) ends the process, also when the
\* signal waits in the process queue behind the SIGCHLDs of children: every
\* trap_return takes one signal off the queue.
KillTerminates ==
    \A p \in Pids :
        (Never({"wait_child", "wait_any", "vfork"}) /\ p \in k.pcbs /\ Killed(p))
        ~> (p \notin k.pcbs \/ k.fate # "up")

\* PCB::exit reaches the waiter: wait_any_child of a process other than init
\* returns, with the exit code or EINTR, once a child exited.
WaitAnyReturns ==
    \A t \in Tasks :
        (/\ k.pc[t].at = "wait_any" /\ Live(t) /\ k.proc[t] # INIT
         /\ \E c \in Entries(k.children[k.proc[t]]) : k.pstate[c] = "Exited")
        ~> (k.pc[t] = User \/ ~Live(t) \/ k.fate # "up")

=============================================================================
