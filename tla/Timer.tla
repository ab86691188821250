------------------------------- MODULE Timer -------------------------------
(***************************************************************************)
(* The global timer (kernel/event/timer), as functions on a kernel record  *)
(* with the fields                                                         *)
(*   now            arch::get_time_us, in ticks                            *)
(*   timers         the heap: a set of [id, time, task]                    *)
(*   next_timer_id  the last id given out                                  *)
(* The callback of a timer of add_timer wakes its task with Timeout.       *)
(***************************************************************************)
EXTENDS TaskOps, FiniteSetsExt

Timeout == [type |-> "Timeout", arg |-> 0]

add_timer(k, t, d) ==
    [k EXCEPT !.timers = @ \cup {[id |-> k.next_timer_id + 1,
                                  time |-> k.now + d, task |-> t]},
              !.next_timer_id = @ + 1]

remove_timer(k, id) == [k EXCEPT !.timers = {e \in @ : e.id # id}]

\* Mutant: a timer due this very tick is left for the next interrupt.
expired_strictly(k, time) == {e \in k.timers : e.time < time}

expired(k, time) == {e \in k.timers : e.time <= time}

\* TimerEvent compares by time only: among equal times the heap pops any order.
pop_orders(k, time) ==
    {s \in Orders(expired(k, time)) :
        \A i, j \in 1..Len(s) : i < j => s[i].time <= s[j].time}

\* Timer::wakeup_expired, in one of its orders; a callback may add timers but
\* those of add_timer only wake.
wakeup_expired(k, time, order) ==
    wake_all([k EXCEPT !.now = time, !.timers = @ \ expired(k, time)],
             [i \in 1..Len(order) |-> Waiter(order[i].task, Timeout)])

=============================================================================
