-------------------------------- MODULE Poll --------------------------------
(***************************************************************************)
(* poll and select over pipes and the timer (kernel/syscall/event.rs).     *)
(* The two differ in what they clean up: the timer, and the entries left   *)
(* in the wait queues of the files that did not wake the caller.           *)
(***************************************************************************)
EXTENDS Pipe

\* An end of a pipe, and what it is polled for: POLLIN, POLLOUT, both or neither.
PollItem == [p : Pipes, writable : BOOLEAN, want : SUBSET {"in", "out"}]

\* A workload also has the lists callers pass, their timeouts ({} for none, {d}
\* for d ticks), and bounds: ticks and timers set.
ASSUME PollAssumption == \A name \in DOMAIN Workloads : LET w == Workloads[name] IN
    /\ \A s \in w.fds : s # <<>> /\ Entries(s) \subseteq PollItem
    /\ \A s \in w.timeouts : s \subseteq Nat /\ \A d, e \in s : d = e
    /\ {w.time, w.timers} \subseteq Nat

(* pc[t].arg of a thread in poll or select is [fds, timer]: its argument list
   and the id of its timer, 0 for none.                                      *)

PollReadReady(waker) == [type |-> "PollReadReady", arg |-> waker]
PollWriteReady(waker) == [type |-> "PollWriteReady", arg |-> waker]

-----------------------------------------------------------------------------
(* PipeInner::wait_event, wait_event_cancel.                                *)

\* The two early returns: an end asked for the other direction, too.
ignored(item) == IF item.writable THEN "in" \in item.want ELSE "out" \in item.want

is_ready(q, item) ==
    /\ ~ignored(item)
    /\ \/ /\ "in" \in item.want
          /\ ~is_empty(q.fifo[item.p]) \/ q.writer_count[item.p] = 0
       \/ "out" \in item.want /\ len(q.fifo[item.p]) < Capacity

\* The entry of a file that is not ready, for the waker-th element of the list.
wait_event(q, item, waker) ==
    CASE is_ready(q, item) \/ ignored(item) \/ item.want = {} -> q
      [] ~is_ready(q, item) /\ item.want = {"in"} /\ ~item.writable ->
           [q EXCEPT !.read_waiter[item.p] = Append(@, Waiter(Me, PollReadReady(waker)))]
      [] OTHER ->
           [q EXCEPT !.write_waiter[item.p] = Append(@, Waiter(Me, PollWriteReady(waker)))]

\* Mutant: only the first file is registered.
wait_first(q, fds) == wait_event(q, fds[1], 1)

wait_all(q, fds) ==
    LET waiting[n \in 0..Len(fds)] ==
            IF n = 0 THEN q ELSE wait_event(waiting[n - 1], fds[n], n)
    IN  waiting[Len(fds)]

wait_event_cancel(q, item) ==
    [q EXCEPT !.read_waiter[item.p] = remove_waiter(@, Me),
              !.write_waiter[item.p] = remove_waiter(@, Me)]

\* Mutant: nothing is cancelled.
cancel_nothing(q, fds, S) == q

cancel(q, fds, S) ==
    LET left[n \in 0..Len(fds)] ==
            IF n = 0 THEN q
            ELSE IF n \in S THEN wait_event_cancel(left[n - 1], fds[n])
            ELSE left[n - 1]
    IN  left[Len(fds)]

-----------------------------------------------------------------------------
(* Calls.                                                                   *)

some_ready(fds) == \E i \in DOMAIN fds : is_ready(k, fds[i])

CanPoll(call, fds, timeout) ==
    /\ UserCall(call)
    /\ \A i \in DOMAIN fds : /\ fds[i].p \in k.pipes
                             /\ Len(k.read_waiter[fds[i].p]) < Load.waiters
                             /\ fds[i].writable => fds[i].p \in k.open
    /\ \A d \in timeout : /\ k.next_timer_id < Load.timers
                        /\ k.now < Load.time /\ k.now + d <= Load.time

\* Blocks, with a timer if there is a timeout, and with the Arcs of its files.
sleep_in(q, call, fds, timeout) ==
    LET held == [q EXCEPT !.holds[Me] = {fds[i].p : i \in {j \in DOMAIN fds : fds[j].writable}}]
        armed == add_timer(held, Me, CHOOSE d \in timeout : TRUE)
    IN  IF timeout = {} THEN BlockAt(held, call, [fds |-> fds, timer |-> 0])
        ELSE BlockAt(armed, call, [fds |-> fds, timer |-> armed.next_timer_id])

\* The end of a call that slept: the Arcs go away.
done(q) ==
    LET order == CHOOSE s \in Orders(q.holds[Me]) : TRUE
        dropped[n \in 0..Len(order)] ==
            IF n = 0 THEN [q EXCEPT !.holds[Me] = {}]
            ELSE drop_write_end(dropped[n - 1], order[n])
    IN  Return(dropped[Len(order)])

\* poll: entries stay behind when some file is ready at once.
Poll == \E fds \in Load.fds, timeout \in Load.timeouts :
    /\ CanPoll("poll", fds, timeout)
    /\ LET q == wait_all(Fetched, fds)
       IN  k' = IF some_ready(fds) THEN Return(q) ELSE sleep_in(q, "poll", fds, timeout)

woken_by_file(e) == e.type \in {"PollReadReady", "PollWriteReady", "PollHangUp"}

\* The timer is left running unless it was the one that fired.
PollResume ==
    /\ Resume("poll")
    /\ LET fds == k.pc[Me].arg.fds
           e == k.event[Me]
       IN  k' = CASE woken_by_file(e) /\ e.arg \in DOMAIN fds ->
                       done(cancel(Resumed, fds, DOMAIN fds \ {e.arg}))
                  [] e.type \in {"Timeout", "Signal"} ->
                       done(cancel(Resumed, fds, DOMAIN fds))
                  [] OTHER -> Panic(Resumed)

\* select: everything is cancelled when it does not sleep.
Select == \E fds \in Load.fds, timeout \in Load.timeouts :
    /\ CanPoll("select", fds, timeout)
    /\ LET q == wait_all(Fetched, fds)
       IN  k' = IF some_ready(fds) \/ timeout = {0}
                THEN Return(cancel(q, fds, DOMAIN fds))
                ELSE sleep_in(q, "select", fds, timeout)

\* The entries are left behind on a signal and on a timeout.
SelectResume ==
    /\ Resume("select")
    /\ LET a == k.pc[Me].arg
           e == k.event[Me]
           disarmed == remove_timer(Resumed, a.timer)
       IN  k' = CASE woken_by_file(e) ->
                       done(cancel(disarmed, a.fds, DOMAIN a.fds \ {e.arg}))
                  [] e.type = "Timeout" -> done(Resumed)
                  [] e.type = "Signal" -> done(disarmed)
                  [] OTHER -> Panic(Resumed)

\* timer::interrupt.
TimerInterrupt ==
    /\ k.fate = "up"
    /\ \E time \in (k.now + 1)..Load.time : \E order \in pop_orders(k, time) :
          k' = wakeup_expired(k, time, order)

-----------------------------------------------------------------------------
Segment == Next \/ Poll \/ PollResume \/ Select \/ SelectResume

PollNext == Segment \/ TimerInterrupt

PollSpec == Init /\ [][PollNext]_k

\* The hart runs ready tasks, and the timer ticks.
PollFairSpec == PollSpec /\ WF_k(Segment) /\ WF_k(TimerInterrupt)

-----------------------------------------------------------------------------
(* Properties.                                                              *)

\* A poller of pipe ends, each for the direction it has, sleeps only while none
\* of its files is ready, and every one of them has an entry that will wake it.
PollerHasReason ==
    \A t \in Tasks : BlockedIn(t, {"poll", "select"}) =>
        LET fds == k.pc[t].arg.fds
        IN  \A i \in DOMAIN fds :
                /\ ~is_ready(k, fds[i])
                /\ ListedIn(t, IF fds[i].writable THEN k.write_waiter[fds[i].p]
                               ELSE k.read_waiter[fds[i].p])

\* Neither poll, which leaves entries and timers behind, nor signals, nor timeouts.
Tidy == Never({"poll", "kill"}) /\ Load.timeouts = {{}}

\* Without those, select cleans up after itself: an entry of a wait queue is of a
\* thread that is in a call on that pipe, so that no later sleep gets its event.
NoStaleEntry == Tidy =>
    \A p \in Pipes, t \in Tasks : ListedIn(t, k.read_waiter[p]) =>
        \/ k.pc[t].at \in {"read", "readv"} /\ k.pc[t].arg.p = p
        \/ k.pc[t].at = "select" /\ \E i \in DOMAIN k.pc[t].arg.fds :
                                       k.pc[t].arg.fds[i].p = p

\* Then, on any number of pipes, no event reaches an unreachable!() and no write end
\* is dropped once too often.  Nor on a single pipe when threads read and write it
\* and are interrupted: an entry that an interrupted read leaves is gone once the
\* pipe has a byte, hence before the same thread can block in a write.  (With two
\* pipes it is not, and that write ends in the unreachable!.)
NoPanic == Tidy \/ (Never({"poll", "select"}) /\ Cardinality(k.pipes) = 1) => k.fate # "panic"

\* Nobody sleeps through an event of a pipe, in a read, a poll or a select.
SleepersHaveReason == ReaderHasReason /\ PollerHasReason

\* A pipe is a stream with an end: the bytes of mapped buffers arrive in order while
\* they do not fill the ring, and the count of writers says when no more will come.
StreamsSound == StreamInOrder /\ WriterCountIsHolders

\* Of programs that neither poll nor are interrupted or time out, the wait queues
\* hold only callers that still wait, and no event goes astray, on any pipes; nor
\* does one on a single pipe that nobody polls, interrupted or not.
QueuesSound == TypeOK /\ NoStaleEntry /\ NoPanic

\* A poll or a select with a timeout gets back to user mode.
TimedPollReturns ==
    \A t \in Tasks :
        k.fate = "up" /\ k.pc[t].at \in {"poll", "select"} /\ k.pc[t].arg.timer > 0
        ~> k.pc[t].at = "user" \/ k.fate # "up"

=============================================================================
