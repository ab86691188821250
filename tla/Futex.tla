------------------------------- MODULE Futex -------------------------------
(***************************************************************************)
(* Futexes, the sleeps and timeouts of their callers, and the signals that *)
(* interrupt both: the threads of one process over the scheduler.          *)
(*                                                                         *)
(* A signal is reduced to what it does to a sleeper: try_recive_pending_   *)
(* signal wakes it with Event::Signal (module Process has the rest).       *)
(***************************************************************************)
EXTENDS Timer, Segments

CONSTANTS Addrs,       \* kernel addresses of futex words
          Workloads    \* name -> what the threads of a run do

AllCalls == {"store", "wait", "wait_timeout", "wake", "wake_bitset", "requeue",
             "nanosleep", "kill", "exit"}

\* The calls threads make, the bitsets they pass (as sets of bits) and their
\* timeouts (in ticks; 0 is the null pointer); and the bounds: ticks, timers set,
\* entries of one wait_list.
IsWorkload(w) ==
    /\ w.calls \subseteq AllCalls
    /\ \A b \in w.bitsets : b \subseteq Nat
    /\ w.delays \subseteq Nat
    /\ {w.time, w.timers, w.entries} \subseteq Nat

ASSUME FutexAssumption ==
    /\ IsFiniteSet(Tasks)
    /\ \A name \in DOMAIN Workloads : IsWorkload(Workloads[name])

(* The kernel record k has the fields of Segments and Timer, and
     word       address -> the i32 in user memory
     wait_list  address -> sequence of [tcb, bitset]
     load       the name of the workload
   pc[t].arg is the time a timed block ends, or 0.                          *)

Load == Workloads[k.load]
Vals == {0, 1}                   \* values of a futex word
MatchAny == UNION Load.bitsets   \* u32::MAX
Nums == 0..2                     \* val of wake and requeue

FutexEvent == [type |-> "Futex", arg |-> 0]
SignalEvent == [type |-> "Signal", arg |-> 0]

Item(t, bitset) == [tcb |-> t, bitset |-> bitset]

-----------------------------------------------------------------------------
(* Futex methods.                                                           *)

\* The positions wake removes: matching entries, in order, until num are woken
\* (the count is looked at after a wake, so num = 0 wakes one).
to_wake(q, a, num, mask) ==
    LET match == {i \in 1..Len(q.wait_list[a]) : q.wait_list[a][i].bitset \cap mask # {}}
        limit == IF num = 0 THEN 1 ELSE num
    IN  {i \in match : Cardinality({j \in match : j < i}) < limit}

\* The entries of a at the positions W, as wakeup_task takes them.
waiters(q, a, W) ==
    LET l == Picked(q.wait_list[a], W)
    IN  [n \in 1..Len(l) |-> Waiter(l[n].tcb, FutexEvent)]

\* Mutant: woken entries stay on the list.
wake_keeps_entries(q, a, num, mask) == wake_all(q, waiters(q, a, to_wake(q, a, num, mask)))

wake(q, a, num, mask) ==
    LET W == to_wake(q, a, num, mask)
        kept == 1..Len(q.wait_list[a]) \ W
    IN  wake_all([q EXCEPT !.wait_list[a] = Picked(@, kept)], waiters(q, a, W))

\* Mutant: entries beyond the first are dropped.
requeue_drops(q, a, a2, num) ==
    LET l == q.wait_list[a]
        n == Min({Len(l), IF num = 0 THEN 1 ELSE num})
        rest == [q.wait_list EXCEPT ![a] = SubSeq(l, n + 1, Len(l))]
    IN  [q EXCEPT !.wait_list = [rest EXCEPT ![a2] = @ \o SubSeq(l, 1, Min({n, 1}))]]

\* The first num entries (one, for num = 0) move to the tail of the other list.
requeue(q, a, a2, num) ==
    LET l == q.wait_list[a]
        n == Min({Len(l), IF num = 0 THEN 1 ELSE num})
        rest == [q.wait_list EXCEPT ![a] = SubSeq(l, n + 1, Len(l))]
    IN  [q EXCEPT !.wait_list = [rest EXCEPT ![a2] = @ \o SubSeq(l, 1, n)]]

-----------------------------------------------------------------------------
(* Calls.                                                                   *)

UserCall(c) == c \in Load.calls /\ CanRun /\ k.pc[Me] = User

\* User code writes the word, and is then preempted.
Store == UserCall("store") /\
    \E a \in Addrs, v \in Vals : k' = Return([Fetched EXCEPT !.word[a] = v])

\* FUTEX_WAIT and FUTEX_WAIT_BITSET: the word is compared and the caller listed
\* before anything else can run; EAGAIN changes nothing.
FutexWait ==
    /\ \E a \in Addrs, expected \in Vals, b \in Load.bitsets, d \in Load.delays :
          /\ UserCall(IF d = 0 THEN "wait" ELSE "wait_timeout")
          /\ k.word[a] = expected
          /\ Len(k.wait_list[a]) < Load.entries
          /\ d > 0 => k.now + d <= Load.time /\ k.next_timer_id < Load.timers
          /\ LET q == [Fetched EXCEPT !.wait_list[a] = Append(@, Item(Me, b))]
             IN  k' = IF d = 0
                      THEN BlockAt(q, "futex", 0)
                      ELSE BlockAt(add_timer(q, Me, d), "futex", k.now + d)

\* The timeout cannot be read: EFAULT, when the caller is already listed.
FutexWaitFault == UserCall("wait_timeout") /\
    \E a \in Addrs, expected \in Vals, b \in Load.bitsets :
        /\ k.word[a] = expected
        /\ Len(k.wait_list[a]) < Load.entries
        /\ k' = Return([Fetched EXCEPT !.wait_list[a] = Append(@, Item(Me, b))])

\* Neither the list nor the timer is cleaned up, whatever the event.
FutexWaitResume ==
    /\ Resume("futex")
    /\ k' = IF k.event[Me].type \in {"Futex", "Timeout", "Signal"}
            THEN Return(Resumed)
            ELSE Panic(Resumed)

FutexWake == UserCall("wake") /\
    \E a \in Addrs, n \in Nums : k' = Return(wake(Fetched, a, n, MatchAny))

\* FUTEX_WAKE_BITSET: val3 is not passed on.
FutexWakeBitset == UserCall("wake_bitset") /\
    \E a \in Addrs, n \in Nums : k' = Return(wake(Fetched, a, n, MatchAny))

FutexRequeue == UserCall("requeue") /\
    \E a, a2 \in Addrs, n \in Nums :
        /\ k' = Return(requeue(Fetched, a, a2, n))
        /\ Len(k'.wait_list[a2]) <= Load.entries

\* nanosleep and clock_nanosleep of a positive time.
Nanosleep ==
    /\ UserCall("nanosleep")
    /\ \E d \in Load.delays \ {0} :
          /\ k.now + d <= Load.time /\ k.next_timer_id < Load.timers
          /\ k' = BlockAt(add_timer(Fetched, Me, d), "nanosleep", k.now + d)

NanosleepResume ==
    /\ Resume("nanosleep")
    /\ k' = IF k.event[Me].type \in {"Timeout", "Signal"}
            THEN Return(Resumed)
            ELSE Panic(Resumed)

\* A signal for thread t, whose handler returns.
Kill == UserCall("kill") /\
    \E t \in Tasks : k' = Return(wakeup_task(Fetched, t, SignalEvent))

\* TCB::exit of a thread with tid_address a: the word is zeroed, one waiter woken.
\* The lock of the state of Me is held: to wake an old entry of Me takes it again.
Exit == UserCall("exit") /\
    \E a \in Addrs :
        LET woken == {k.wait_list[a][i].tcb : i \in to_wake(k, a, 1, MatchAny)}
        IN  k' = IF Me \in woken
                 THEN Panic(Fetched)
                 ELSE mark_exited(wake([Fetched EXCEPT !.word[a] = 0], a, 1, MatchAny), {Me})

\* timer::interrupt.
TimerInterrupt ==
    /\ k.fate = "up"
    /\ \E time \in (k.now + 1)..Load.time : \E order \in pop_orders(k, time) :
          k' = wakeup_expired(k, time, order)

-----------------------------------------------------------------------------
\* The threads, in the order in which they were made ready.
Init == \E name \in DOMAIN Workloads, order \in Orders(Tasks) : k =
    [load |-> name,
     state |-> [t \in Tasks |-> "Ready"],
     event |-> [t \in Tasks |-> NoEvent],
     queue |-> order,
     pc |-> [t \in Tasks |-> User],
     fate |-> "up",
     now |-> 0, timers |-> {}, next_timer_id |-> 0,
     word |-> [a \in Addrs |-> 0],
     wait_list |-> [a \in Addrs |-> <<>>]]

Next ==
    \/ DropFetched \/ Store \/ FutexWait \/ FutexWaitFault \/ FutexWaitResume
    \/ FutexWake \/ FutexWakeBitset \/ FutexRequeue \/ Nanosleep \/ NanosleepResume
    \/ Kill \/ Exit \/ TimerInterrupt

Spec == Init /\ [][Next]_k

-----------------------------------------------------------------------------
(* Properties.                                                              *)

\* When the timed block t is in ends, or 0.
Until(t) == IF k.pc[t] = User THEN 0 ELSE k.pc[t].arg

Listed(t) == {p \in Addrs \X (1..Load.entries) :
                 p[2] <= Len(k.wait_list[p[1]]) /\ k.wait_list[p[1]][p[2]].tcb = t}

\* Where a kernel stack stands, and the entries of a list.
Places == {User} \cup {At(where, n) : where \in {"futex", "nanosleep"}, n \in 0..Load.time}
Items == [tcb : Tasks, bitset : Load.bitsets]

Asleep(t, where) == k.state[t] = "Blocked" /\ k.pc[t].at = where

\* The fields of the kernel.
IsKernel(q) ==
    q = [load |-> q.load, state |-> q.state, event |-> q.event, queue |-> q.queue,
         pc |-> q.pc, fate |-> q.fate, now |-> q.now, timers |-> q.timers,
         next_timer_id |-> q.next_timer_id, word |-> q.word, wait_list |-> q.wait_list]

\* Tasks, lists, timers and words have their types.
TypeOK ==
    /\ IsKernel(k)
    /\ k.load \in DOMAIN Workloads
    /\ k.state \in [Tasks -> TaskState]
    /\ k.event \in [Tasks -> {NoEvent, FutexEvent, SignalEvent, Timeout}]
    /\ k.queue \in Seq(Tasks)
    /\ k.pc \in [Tasks -> Places]
    /\ k.fate \in {"up", "panic"}
    /\ k.now \in 0..Load.time
    /\ k.timers \subseteq [id : 1..Load.timers, time : 1..Load.time, task : Tasks]
    /\ IsFiniteSet(k.timers)
    /\ k.next_timer_id \in 0..Load.timers
    /\ k.word \in [Addrs -> Vals]
    /\ k.wait_list \in [Addrs -> Seq(Items)]
    /\ \A a \in Addrs : Len(k.wait_list[a]) <= Load.entries

\* FUTEX_WAIT compares and lists without a gap, and wake and requeue never drop
\* an entry silently: a thread asleep in futex is on some wait_list.
WaiterIsListed ==
    \A t \in Tasks : Asleep(t, "futex") => Listed(t) # {}

\* A timed wait or a sleep never outlasts its time, whatever else wakes the
\* thread, re-arms its timers or ticks late.
NoOversleep ==
    \A t \in Tasks :
        Asleep(t, "nanosleep") \/ (Asleep(t, "futex") /\ Until(t) > 0) => k.now < Until(t)

\* No thread makes any of these calls.
Never(S) == Load.calls \cap S = {}

\* Without timeouts and signals every entry of a list is a thread asleep in
\* futex, once: what wake counts is what it wakes.
EntriesAreWaiters == Never({"wait_timeout", "kill"}) =>
    \A t \in Tasks : Listed(t) # {} =>
        /\ Asleep(t, "futex")
        /\ Cardinality(Listed(t)) = 1

\* Then, too, no event reaches a sleep whose match ends in unreachable!(), and
\* the exit of a thread does not find the thread itself on its futex, to lock
\* its state twice.
NoPanic == Never({"wait_timeout", "kill"}) => k.fate # "panic"

\* A sleep in FUTEX_WAIT or nanosleep can end: the thread is on a list that a
\* wake reads, and its timeout is still to come.
SleepsCanEnd == WaiterIsListed /\ NoOversleep

\* The lists of the futexes hold waiters, and what they wake is ready for it.
ListsSound == TypeOK /\ EntriesAreWaiters /\ NoPanic

\* What makes them inductive.  A timed sleep has its timer, and the timers left
\* are to come.
SleepsAreTimed ==
    /\ \A t \in Tasks :
          Asleep(t, "nanosleep") \/ (Asleep(t, "futex") /\ Until(t) > 0) =>
              \E e \in k.timers : e.task = t /\ e.time = Until(t)
    /\ \A e \in k.timers : k.now < e.time

\* Without timeouts and signals a thread has one entry or one timer, and sleeps
\* where it was put; the one that took it off gave it the event it waited for.
EachWaitsOnce == Never({"wait_timeout", "kill"}) =>
    /\ \A a, b \in Addrs : \A i \in 1..Len(k.wait_list[a]), j \in 1..Len(k.wait_list[b]) :
          k.wait_list[a][i].tcb = k.wait_list[b][j].tcb => a = b /\ i = j
    /\ \A a \in Addrs : \A i \in 1..Len(k.wait_list[a]) :
          Asleep(k.wait_list[a][i].tcb, "futex")
    /\ \A e \in k.timers : Asleep(e.task, "nanosleep")
    /\ \A e, f \in k.timers : e.task = f.task => e = f
    /\ \A t \in Tasks : k.state[t] = "Ready" =>
          /\ k.pc[t].at = "futex" => k.event[t] = FutexEvent
          /\ k.pc[t].at = "nanosleep" => k.event[t] = Timeout

\* The inductive invariant.
IInv == TypeOK /\ WaiterIsListed /\ SleepsAreTimed /\ EachWaitsOnce /\ NoPanic

=============================================================================
