------------------------------ MODULE MCFutex ------------------------------
(* Futex for TLC. *)
EXTENDS Futex, TLC

Symmetry == Permutations(Tasks) \cup Permutations(Addrs)

\* Everything that leaves stale entries and timers behind, and the same without
\* signals and timed waits.
AllWorkloads ==
    [all |-> [calls |-> AllCalls,
              bitsets |-> {{1}}, delays |-> {0, 1}, time |-> 2, timers |-> 2, entries |-> 2],
     clean |-> [calls |-> AllCalls \ {"wait_timeout", "kill"},
                bitsets |-> {{}, {1}}, delays |-> {0, 1}, time |-> 2, timers |-> 2,
                entries |-> 3]]

=============================================================================
