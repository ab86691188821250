---------------------------- MODULE FutexProofs ----------------------------
(***************************************************************************)
(* Proofs about Futex, for any set of threads, addresses and workloads: a  *)
(* thread asleep in FUTEX_WAIT is on a list, a timed sleep never outlasts  *)
(* its time and, without timeouts and signals, the lists hold the threads  *)
(* asleep, each of them once.                                              *)
(***************************************************************************)
EXTENDS Futex, TaskProofs, FiniteSetTheorems

LEMMA IntervalSize ==
    ASSUME NEW n \in Nat
    PROVE  IsFiniteSet(1..n) /\ Cardinality(1..n) = n
<1>1. 1 \in Int /\ n \in Int
  OBVIOUS
<1>2. IsFiniteSet(1..n) /\ Cardinality(1..n) = IF 1 > n THEN 0 ELSE n - 1 + 1
  BY <1>1, FS_Interval, Zenon
<1>. QED
  BY <1>2

\* An order of a finite set is a sequence of its elements, each of them once.
LEMMA OrderIsSeq ==
    ASSUME NEW S, IsFiniteSet(S), NEW s \in Orders(S)
    PROVE  /\ s \in Seq(S)
           /\ Len(s) = Cardinality(S)
           /\ \A i, j \in 1..Len(s) : s[i] = s[j] => i = j
           /\ \A x \in S : \E i \in 1..Len(s) : s[i] = x
<1>. DEFINE D == 1..Cardinality(S)
<1>1. Cardinality(S) \in Nat
  BY FS_CardinalityType, Zenon
<1>2. s \in [D -> S] /\ \A i, j \in D : i # j => s[i] # s[j]
  BY Zenon DEF Orders
<1>3. s \in Seq(S) /\ Len(s) = Cardinality(S)
  BY <1>1, <1>2
<1>4. IsFiniteSet(D) /\ Cardinality(D) = Cardinality(S)
  BY <1>1, IntervalSize, Zenon
<1>5. s \in Injection(D, S)
  BY <1>2, Zenon DEF Injection, IsInjective
<1>6. s \in Surjection(D, S)
  <2>. HIDE DEF D
  <2>. QED
    BY <1>4, <1>5, FS_Injection, Zenon
<1>7. \A x \in S : \E i \in D : s[i] = x
  BY <1>6, Zenon DEF Surjection
<1>. QED
  BY <1>2, <1>3, <1>7, Zenon

\* The entry i of the list of a is one of t.
EntryOf(t, a, i) == i \in 1..Len(k.wait_list[a]) /\ k.wait_list[a][i].tcb = t

LEMMA ListedIsEntry ==
    /\ TypeOK => \A t : Listed(t) # {} <=> \E a \in Addrs : \E i \in Nat : EntryOf(t, a, i)
    /\ TypeOK' => \A t : Listed(t)' # {} <=> \E a \in Addrs : \E i \in Nat : EntryOf(t, a, i)'
<1>1. ASSUME TypeOK, NEW t
      PROVE  Listed(t) # {} <=> \E a \in Addrs : \E i \in Nat : EntryOf(t, a, i)
  <2>1. \A a \in Addrs : Len(k.wait_list[a]) \in Nat /\ Len(k.wait_list[a]) <= Load.entries
    BY <1>1 DEF TypeOK
  <2>2. Load.entries \in Nat
    BY <1>1, FutexAssumption, Zenon DEF TypeOK, Load, IsWorkload
  <2>3. ASSUME NEW p \in Listed(t)
        PROVE  \E a \in Addrs : \E i \in Nat : EntryOf(t, a, i)
    <3>1. p[1] \in Addrs /\ p[2] \in Nat /\ EntryOf(t, p[1], p[2])
      BY <2>1, <2>2 DEF Listed, EntryOf
    <3>. QED
      BY <3>1, Zenon
  <2>4. ASSUME NEW a \in Addrs, NEW i \in Nat, EntryOf(t, a, i)
        PROVE  Listed(t) # {}
    <3>1. i \in 1..Load.entries
      BY <2>1, <2>2, <2>4 DEF EntryOf
    <3>2. <<a, i>> \in Listed(t)
      BY <2>1, <2>4, <3>1 DEF EntryOf, Listed
    <3>. QED
      BY <3>2, Zenon
  <2>. QED
    BY <2>3, <2>4, Zenon
<1>2. ASSUME TypeOK', NEW t
      PROVE  Listed(t)' # {} <=> \E a \in Addrs : \E i \in Nat : EntryOf(t, a, i)'
  <2>1. \A a \in Addrs : Len(k'.wait_list[a]) \in Nat /\ Len(k'.wait_list[a]) <= Load'.entries
    BY <1>2 DEF TypeOK
  <2>2. Load'.entries \in Nat
    BY <1>2, FutexAssumption, Zenon DEF TypeOK, Load, IsWorkload
  <2>3. ASSUME NEW p \in Listed(t)'
        PROVE  \E a \in Addrs : \E i \in Nat : EntryOf(t, a, i)'
    <3>1. p[1] \in Addrs /\ p[2] \in Nat /\ EntryOf(t, p[1], p[2])'
      BY <2>1, <2>2 DEF Listed, EntryOf
    <3>. QED
      BY <3>1, Zenon
  <2>4. ASSUME NEW a \in Addrs, NEW i \in Nat, EntryOf(t, a, i)'
        PROVE  Listed(t)' # {}
    <3>1. i \in 1..Load'.entries
      BY <2>1, <2>2, <2>4 DEF EntryOf
    <3>2. <<a, i>> \in Listed(t)'
      BY <2>1, <2>4, <3>1 DEF EntryOf, Listed
    <3>. QED
      BY <3>2, Zenon
  <2>. QED
    BY <2>3, <2>4, Zenon
<1>. QED
  BY <1>1, <1>2, Zenon

\* The kernel is a record that TaskOps works on.
LEMMA KernelIsTaskRec ==
    ASSUME TypeOK
    PROVE  /\ IsTaskRec(k)
           /\ DOMAIN k = {"load", "state", "event", "queue", "pc", "fate", "now", "timers",
                          "next_timer_id", "word", "wait_list"}
<1>1. /\ k = [x \in DOMAIN k |-> k[x]]
      /\ DOMAIN k = {"load", "state", "event", "queue", "pc", "fate", "now", "timers",
                     "next_timer_id", "word", "wait_list"}
  BY Zenon DEF TypeOK, IsKernel
<1>2. k.event = [t \in Tasks |-> k.event[t]]
  BY Zenon DEF TypeOK
<1>. QED
  BY <1>1, <1>2, Zenon DEF TypeOK, IsTaskRec

\* Every entry has a task.
LEMMA EntriesHaveTasks ==
    ASSUME TypeOK, NEW a \in Addrs
    PROVE  /\ Len(k.wait_list[a]) \in Nat
           /\ \A i \in 1..Len(k.wait_list[a]) : k.wait_list[a][i].tcb \in Tasks
<1>1. k.wait_list[a] \in Seq(Items)
  BY Zenon DEF TypeOK
<1>2. \A i \in 1..Len(k.wait_list[a]) : k.wait_list[a][i] \in Items
  BY <1>1
<1>. QED
  BY <1>1, <1>2 DEF Items

\* The task run_tasks takes is on the hart, and off the queue.
LEMMA FetchedFields ==
    ASSUME TypeOK, CanRun
    PROVE  /\ Me \in Tasks
           /\ IsTaskRec(Fetched)
           /\ DOMAIN Fetched = DOMAIN k
           /\ Fetched = [k EXCEPT !.state = [k.state EXCEPT ![Me] = "Running"],
                                  !.queue = Tail(k.queue)]
           /\ Fetched.state = [k.state EXCEPT ![Me] = "Running"]
           /\ Fetched.queue = Tail(k.queue)
           /\ Fetched.event = k.event
           /\ Fetched.wait_list = k.wait_list
<1>1. IsTaskRec(k) /\ k.queue # <<>>
  BY KernelIsTaskRec, Zenon DEF CanRun
<1>2. /\ Me \in Tasks
      /\ IsTaskRec(Fetched)
      /\ Fetched = [k EXCEPT !.state = [k.state EXCEPT ![Me] = "Running"],
                             !.queue = Tail(k.queue)]
  BY <1>1, FetchAndRun, Zenon DEF Fetched, Me
<1>. HIDE DEF Fetched, Me
<1>. QED
  BY <1>1, <1>2, KernelIsTaskRec, Zenon DEF IsTaskRec

\* The fields after the schedule at the end of a system call.
LEMMA ReturnFields ==
    ASSUME TypeOK, CanRun, NEW q, IsTaskRec(q), DOMAIN q = DOMAIN k,
           q.state[Me] = "Running", q.pc = k.pc, k' = Return(q)
    PROVE  /\ IsKernel(k')
           /\ k'.state = [q.state EXCEPT ![Me] = "Ready"]
           /\ k'.queue = Append(q.queue, Me)
           /\ k'.pc = [k.pc EXCEPT ![Me] = User]
           /\ k'.load = q.load /\ k'.event = q.event /\ k'.fate = q.fate /\ k'.now = q.now
           /\ k'.timers = q.timers /\ k'.next_timer_id = q.next_timer_id
           /\ k'.word = q.word /\ k'.wait_list = q.wait_list
<1>1. Me \in Tasks
  BY FetchedFields, Zenon
<1>2. DOMAIN q = {"load", "state", "event", "queue", "pc", "fate", "now", "timers",
                  "next_timer_id", "word", "wait_list"}
  BY KernelIsTaskRec, Zenon
<1>3. k' = [q EXCEPT !.state = [q.state EXCEPT ![Me] = "Ready"],
                     !.queue = Append(q.queue, Me),
                     !.pc = [q.pc EXCEPT ![Me] = User]]
  <2>1. [q EXCEPT !.pc[Me] = User] = [q EXCEPT !.pc = [q.pc EXCEPT ![Me] = User]]
    BY <1>2, Zenon DEF IsTaskRec
  <2>. QED
    BY <1>1, <1>2, <2>1, Zenon DEF Return, requeue_if_running, push_task, IsTaskRec
<1>. QED
  <2>1. /\ k'.state = [q.state EXCEPT ![Me] = "Ready"]
        /\ k'.queue = Append(q.queue, Me)
        /\ k'.pc = [q.pc EXCEPT ![Me] = User]
    BY <1>2, <1>3, Zenon
  <2>2. /\ k'.load = q.load /\ k'.event = q.event /\ k'.fate = q.fate /\ k'.now = q.now
        /\ k'.timers = q.timers /\ k'.next_timer_id = q.next_timer_id
        /\ k'.word = q.word /\ k'.wait_list = q.wait_list
    BY <1>2, <1>3, Zenon
  <2>3. IsKernel(k')
    BY <1>2, <1>3, ZenonT(30) DEF IsTaskRec, IsKernel
  <2>. QED
    BY <2>1, <2>2, <2>3, Zenon

\* The fields after a block.
LEMMA BlockFields ==
    ASSUME TypeOK, CanRun, NEW q, IsTaskRec(q), DOMAIN q = DOMAIN k,
           q.state[Me] = "Running", q.pc = k.pc, NEW where, NEW arg, k' = BlockAt(q, where, arg)
    PROVE  /\ IsKernel(k')
           /\ k'.state = [q.state EXCEPT ![Me] = "Blocked"]
           /\ k'.pc = [k.pc EXCEPT ![Me] = At(where, arg)]
           /\ k'.load = q.load /\ k'.event = q.event /\ k'.fate = q.fate /\ k'.now = q.now
           /\ k'.timers = q.timers /\ k'.next_timer_id = q.next_timer_id
           /\ k'.word = q.word /\ k'.wait_list = q.wait_list /\ k'.queue = q.queue
<1>1. Me \in Tasks
  BY FetchedFields, Zenon
<1>2. DOMAIN q = {"load", "state", "event", "queue", "pc", "fate", "now", "timers",
                  "next_timer_id", "word", "wait_list"}
  BY KernelIsTaskRec, Zenon
<1>3. k' = [q EXCEPT !.state = [q.state EXCEPT ![Me] = "Blocked"],
                     !.pc = [q.pc EXCEPT ![Me] = At(where, arg)]]
  BY <1>1, <1>2, Zenon DEF BlockAt, block, IsTaskRec
<1>. QED
  BY <1>2, <1>3, ZenonT(30) DEF IsTaskRec, IsKernel

\* The types of the state after a step, under the bounds of the same workload.
LEMMA StepTypeOK ==
    ASSUME TypeOK, IsKernel(k'), k'.load = k.load,
           k'.state \in [Tasks -> TaskState],
           k'.event \in [Tasks -> {NoEvent, FutexEvent, SignalEvent, Timeout}],
           k'.queue \in Seq(Tasks),
           k'.pc \in [Tasks -> Places],
           k'.fate \in {"up", "panic"},
           k'.now \in 0..Load.time,
           k'.timers \subseteq [id : 1..Load.timers, time : 1..Load.time, task : Tasks],
           IsFiniteSet(k'.timers),
           k'.next_timer_id \in 0..Load.timers,
           k'.word \in [Addrs -> Vals],
           k'.wait_list \in [Addrs -> Seq(Items)],
           \A a \in Addrs : Len(k'.wait_list[a]) <= Load.entries
    PROVE  TypeOK'
<1>1. Load' = Load
  BY Zenon DEF Load
<1>2. Places' = Places /\ Items' = Items
  BY <1>1 DEF Places, Items
<1>. QED
  BY <1>1, <1>2, Zenon DEF TypeOK

\* A system call that leaves the clock, the timers and the bounds of the lists.
LEMMA ReturnTypeOK ==
    ASSUME TypeOK, CanRun, NEW q, IsTaskRec(q), DOMAIN q = DOMAIN k,
           q.state[Me] = "Running", q.pc = k.pc, k' = Return(q),
           q.load = k.load, q.fate = k.fate, q.now = k.now, q.timers = k.timers,
           q.next_timer_id = k.next_timer_id,
           q.event \in [Tasks -> {NoEvent, FutexEvent, SignalEvent, Timeout}],
           q.word \in [Addrs -> Vals],
           q.wait_list \in [Addrs -> Seq(Items)],
           \A a \in Addrs : Len(q.wait_list[a]) <= Load.entries
    PROVE  TypeOK'
<1>1. Me \in Tasks
  BY FetchedFields, Zenon
<1>2. /\ IsKernel(k')
      /\ k'.state = [q.state EXCEPT ![Me] = "Ready"]
      /\ k'.queue = Append(q.queue, Me)
      /\ k'.pc = [k.pc EXCEPT ![Me] = User]
      /\ k'.load = q.load /\ k'.event = q.event /\ k'.fate = q.fate /\ k'.now = q.now
      /\ k'.timers = q.timers /\ k'.next_timer_id = q.next_timer_id
      /\ k'.word = q.word /\ k'.wait_list = q.wait_list
  BY ReturnFields, Zenon
<1>3. k'.state \in [Tasks -> TaskState]
  BY <1>1, <1>2 DEF IsTaskRec, TaskState
<1>4. k'.queue \in Seq(Tasks)
  BY <1>1, <1>2 DEF IsTaskRec
<1>5. k'.pc \in [Tasks -> Places]
  <2>1. User \in Places
    BY DEF Places
  <2>. QED
    BY <1>1, <1>2, <2>1 DEF TypeOK
<1>6. /\ k'.load = k.load /\ k'.fate \in {"up", "panic"} /\ k'.now \in 0..Load.time
      /\ k'.timers \subseteq [id : 1..Load.timers, time : 1..Load.time, task : Tasks]
      /\ IsFiniteSet(k'.timers) /\ k'.next_timer_id \in 0..Load.timers
  BY <1>2, Zenon DEF TypeOK
<1>. QED
  BY <1>2, <1>3, <1>4, <1>5, <1>6, StepTypeOK, Zenon

-----------------------------------------------------------------------------
(* Futex::wake.                                                             *)

\* L2 is L without the entries at the positions W of a.
Removed(L, L2, a, W) ==
    /\ \A b \in Addrs : b # a => L2[b] = L[b]
    /\ \E g \in [1..Len(L2[a]) -> 1..Len(L[a])] :
          /\ \A n \in 1..Len(L2[a]) : g[n] \notin W /\ L2[a][n] = L[a][g[n]]
          /\ \A m, n \in 1..Len(L2[a]) : g[m] = g[n] => m = n
          /\ \A i \in 1..Len(L[a]) : i \in W \/ \E n \in 1..Len(L2[a]) : g[n] = i

\* The lists of a kernel, with bitsets in X.
AreLists(L, X) == L \in [Addrs -> Seq([tcb : Tasks, bitset : X])]

Without(L, a, W) == [L EXCEPT ![a] = Picked(L[a], 1..Len(L[a]) \ W)]

LEMMA PickedRemoves ==
    ASSUME NEW X, NEW L, AreLists(L, X), NEW a \in Addrs, NEW W \in SUBSET (1..Len(L[a])),
           NEW L2, L2 = Without(L, a, W)
    PROVE  /\ AreLists(L2, X)
           /\ Len(L2[a]) <= Len(L[a])
           /\ Removed(L, L2, a, W)
<1>. DEFINE s == L[a]
            I == 1..Len(s) \ W
            C == Len(Picked(s, I))
<1>0. s \in Seq([tcb : Tasks, bitset : X])
  BY Zenon DEF AreLists
<1>1. Len(s) \in Nat /\ I \in SUBSET (1..Len(s))
  <2>. HIDE DEF s
  <2>. QED
    BY <1>0
<1>2. PICK g : Numbers(g, s, I)
  <2>. HIDE DEF I, s
  <2>. QED
    BY <1>0, <1>1, PickedNumbers, Zenon
<1>3. C \in Nat /\ C <= Len(s)
  <2>1. C \in 0..Len(s)
    BY <1>2, Zenon DEF Numbers
  <2>. HIDE DEF C, s
  <2>. QED
    BY <1>1, <2>1
<1>4. L2[a] = Picked(s, I) /\ \A b \in Addrs : b # a => L2[b] = L[b]
  BY Zenon DEF AreLists, Without
<1>5. /\ L2[a] = [n \in 1..C |-> s[g[n]]]
      /\ g \in [1..C -> I]
      /\ \A m, n \in 1..C : g[m] = g[n] => m = n
      /\ \A i \in I : \E n \in 1..C : g[n] = i
  BY <1>2, <1>4, Zenon DEF Numbers
<1>6. \A n \in 1..C : s[g[n]] \in [tcb : Tasks, bitset : X]
  <2>1. \A n \in 1..C : g[n] \in 1..Len(s)
    BY <1>5, Zenon
  <2>2. \A i \in 1..Len(s) : s[i] \in [tcb : Tasks, bitset : X]
    <3>. DEFINE X2 == [tcb : Tasks, bitset : X]
    <3>1. s \in Seq(X2)
      BY <1>0, Zenon
    <3>. HIDE DEF s, X2
    <3>2. \A i \in 1..Len(s) : s[i] \in X2
      BY <3>1
    <3>. QED
      BY <3>2, Zenon DEF X2
  <2>. HIDE DEF s, C
  <2>. QED
    BY <2>1, <2>2, Zenon
<1>. HIDE DEF C
<1>7. L2[a] \in Seq([tcb : Tasks, bitset : X]) /\ Len(L2[a]) = C
  <2>. DEFINE X2 == [tcb : Tasks, bitset : X]
              h(n) == s[g[n]]
  <2>1. \A n \in 1..C : h(n) \in X2
    BY <1>6, Zenon
  <2>2. L2[a] = [n \in 1..C |-> h(n)]
    BY <1>5, Zenon
  <2>. HIDE DEF X2, h
  <2>3. [n \in 1..C |-> h(n)] \in Seq(X2) /\ Len([n \in 1..C |-> h(n)]) = C
    BY <1>3, <2>1
  <2>. QED
    BY <2>2, <2>3, Zenon DEF X2
<1>8. AreLists(L2, X)
  BY <1>7, Zenon DEF AreLists, Without
<1>9. Removed(L, L2, a, W)
  <2>1. g \in [1..Len(L2[a]) -> 1..Len(L[a])]
    BY <1>5, <1>7, Zenon
  <2>2. \A n \in 1..Len(L2[a]) : g[n] \notin W /\ L2[a][n] = L[a][g[n]]
    BY <1>5, <1>7, ZenonT(30)
  <2>3. \A m, n \in 1..Len(L2[a]) : g[m] = g[n] => m = n
    BY <1>5, <1>7, Zenon
  <2>4. \A i \in 1..Len(L[a]) : i \in W \/ \E n \in 1..Len(L2[a]) : g[n] = i
    BY <1>5, <1>7, Zenon
  <2>. QED
    BY <1>4, <2>1, <2>2, <2>3, <2>4, Zenon DEF Removed
<1>. QED
  BY <1>3, <1>7, <1>8, <1>9, Zenon

\* Futex::wake removes the entries it chooses, readies those of their threads that
\* are blocked with a Futex event, and leaves the rest of the kernel alone.
WakesEntries(q, a, W, r) ==
    /\ IsTaskRec(r)
    /\ r = [q EXCEPT !.state = r.state, !.event = r.event, !.queue = r.queue,
                     !.wait_list = r.wait_list]
    /\ r.wait_list = Without(q.wait_list, a, W)
    /\ \A t \in Tasks : q.state[t] = "Blocked" /\ (\E i \in W : q.wait_list[a][i].tcb = t) =>
          r.state[t] = "Ready" /\ r.event[t] = FutexEvent
    /\ \A t \in Tasks : q.state[t] # "Blocked" \/ ~(\E i \in W : q.wait_list[a][i].tcb = t) =>
          r.state[t] = q.state[t] /\ r.event[t] = q.event[t]

LEMMA WakeEntries ==
    ASSUME NEW X, NEW q, IsTaskRec(q), "wait_list" \in DOMAIN q, AreLists(q.wait_list, X),
           NEW a \in Addrs, NEW num, NEW mask, NEW r, r = wake(q, a, num, mask),
           NEW W, W = to_wake(q, a, num, mask)
    PROVE  W \in SUBSET (1..Len(q.wait_list[a])) /\ WakesEntries(q, a, W, r)
<1>. DEFINE s == q.wait_list[a]
            p == [q EXCEPT !.wait_list = [q.wait_list EXCEPT ![a] = Picked(s, 1..Len(s) \ W)]]
            l == Picked(s, W)
            w == waiters(q, a, W)
            C == Len(Picked(s, W))
<1>1. W \in SUBSET (1..Len(s))
  BY Zenon DEF to_wake
<1>2. s \in Seq([tcb : Tasks, bitset : X])
  BY Zenon DEF AreLists
<1>3. Len(s) \in Nat /\ \A i \in 1..Len(s) : s[i].tcb \in Tasks
  <2>. DEFINE X2 == [tcb : Tasks, bitset : X]
  <2>1. s \in Seq(X2)
    BY <1>2, Zenon
  <2>. HIDE DEF s, X2
  <2>2. Len(s) \in Nat /\ \A i \in 1..Len(s) : s[i] \in X2
    BY <2>1
  <2>. QED
    BY <2>2, Zenon DEF X2
<1>4. r = wake_all(p, w)
  <2>1. p = [q EXCEPT !.wait_list[a] = Picked(@, 1..Len(s) \ W)]
    BY Zenon DEF IsTaskRec
  <2>. QED
    BY <2>1, Zenon DEF wake
<1>5. /\ IsTaskRec(p)
      /\ p.state = q.state /\ p.event = q.event /\ p.queue = q.queue
      /\ p.wait_list = [q.wait_list EXCEPT ![a] = Picked(s, 1..Len(s) \ W)]
  BY Zenon DEF IsTaskRec
<1>6. PICK g : Numbers(g, s, W)
  <2>. HIDE DEF s
  <2>. QED
    BY <1>1, <1>2, PickedNumbers, Zenon
<1>7. /\ C \in Nat
      /\ g \in [1..C -> W]
      /\ \A i \in W : \E n \in 1..C : g[n] = i
      /\ l = [n \in 1..C |-> s[g[n]]]
  <2>1. C \in Nat
    <3>1. C \in 0..Len(s)
      BY <1>6, Zenon DEF Numbers
    <3>. HIDE DEF C, s
    <3>. QED
      BY <1>3, <3>1
  <2>. QED
    BY <2>1, <1>6, Zenon DEF Numbers
<1>8. Len(l) = C /\ w = [n \in 1..C |-> Waiter(s[g[n]].tcb, FutexEvent)]
  <2>1. Len(l) = C
    <3>. HIDE DEF s, C, l
    <3>. QED
      BY <1>7
  <2>2. \A n \in 1..C : l[n] = s[g[n]]
    <3>. HIDE DEF s, C, l
    <3>. QED
      BY <1>7, Zenon
  <2>3. w = [n \in 1..Len(l) |-> Waiter(l[n].tcb, FutexEvent)]
    BY Zenon DEF waiters
  <2>. HIDE DEF s, C, l, w
  <2>. QED
    BY <2>1, <2>2, <2>3, Zenon
<1>. HIDE DEF C, l, w
<1>9. /\ Len(w) = C
      /\ \A n \in 1..C : w[n].task = s[g[n]].tcb /\ w[n].arg = FutexEvent
      /\ \A n \in 1..C : w[n].task \in Tasks
  <2>1. \A n \in 1..C : s[g[n]].tcb \in Tasks
    <3>. HIDE DEF s
    <3>. QED
      BY <1>1, <1>3, <1>7, Zenon
  <2>2. Len(w) = C
    <3>. HIDE DEF s
    <3>. QED
      BY <1>7, <1>8
  <2>3. \A n \in 1..C : w[n] = Waiter(s[g[n]].tcb, FutexEvent)
    BY <1>8, Zenon
  <2>. QED
    BY <2>1, <2>2, <2>3 DEF Waiter
<1>. HIDE DEF p
<1>10. Woken(p, w, C, r)
  BY <1>4, <1>5, <1>7, <1>9, WakeAll
<1>11. \A t \in Tasks : Target(w, C, t) <=> \E i \in W : s[i].tcb = t
  BY <1>7, <1>9 DEF Target
<1>12. \A t \in Tasks : q.state[t] = "Blocked" /\ (\E i \in W : s[i].tcb = t) =>
          r.state[t] = "Ready" /\ r.event[t] = FutexEvent
  BY <1>5, <1>9, <1>10, <1>11 DEF Woken
<1>13. \A t \in Tasks : q.state[t] # "Blocked" \/ ~(\E i \in W : s[i].tcb = t) =>
          r.state[t] = q.state[t] /\ r.event[t] = q.event[t]
  BY <1>5, <1>10, <1>11 DEF Woken
<1>14. r = [p EXCEPT !.state = r.state, !.event = r.event, !.queue = r.queue]
  BY <1>10, Zenon DEF Woken, OnlyTasks
<1>15. /\ r.wait_list = p.wait_list
       /\ r = [q EXCEPT !.state = r.state, !.event = r.event, !.queue = r.queue,
                        !.wait_list = r.wait_list]
  BY <1>14, ZenonT(30) DEF p, IsTaskRec
<1>16. IsTaskRec(r)
  BY <1>10, Zenon DEF Woken
<1>. QED
  BY <1>1, <1>5, <1>12, <1>13, <1>15, <1>16, Zenon DEF WakesEntries, Without

-----------------------------------------------------------------------------
(* The inductive invariant, where the lists and the timers stay.            *)

\* A thread sleeps after the step only where it slept before it.
SleepsStay ==
    \A t \in Tasks : k'.state[t] = "Blocked" => k.state[t] = "Blocked" /\ k'.pc[t] = k.pc[t]

LEMMA SleepsStayTimed ==
    ASSUME IInv, k'.load = k.load, k'.now = k.now, k'.timers = k.timers, SleepsStay
    PROVE  SleepsAreTimed'
  BY DEF IInv, SleepsStay, SleepsAreTimed, Asleep, Until

LEMMA WaitersStayListed ==
    ASSUME IInv, TypeOK', k'.wait_list = k.wait_list, SleepsStay
    PROVE  WaiterIsListed'
<1>1. ASSUME NEW t \in Tasks, Asleep(t, "futex")'
      PROVE  Listed(t)' # {}
  <2>1. Asleep(t, "futex")
    BY <1>1, Zenon DEF SleepsStay, Asleep
  <2>2. PICK a \in Addrs : \E i \in Nat : EntryOf(t, a, i)
    BY <2>1, ListedIsEntry, Zenon DEF IInv, WaiterIsListed
  <2>3. \E i \in Nat : EntryOf(t, a, i)'
    BY <2>2, Zenon DEF EntryOf
  <2>. QED
    BY <2>3, ListedIsEntry, Zenon
<1>. QED
  BY <1>1, Zenon DEF WaiterIsListed

\* A step that wakes nobody and puts nobody to sleep: its thread goes back to
\* user mode, leaves, or stops at a panic.
LEMMA QuietStep ==
    ASSUME IInv, TypeOK', k'.load = k.load, k'.now = k.now, k'.timers = k.timers,
           k'.wait_list = k.wait_list, k'.fate = k.fate \/ ~Never({"wait_timeout", "kill"}),
           \A t \in Tasks : k.state[t] = "Blocked" <=> k'.state[t] = "Blocked",
           \A t \in Tasks : k.state[t] = "Blocked" => k'.pc[t] = k.pc[t],
           \A t \in Tasks : k'.state[t] = "Ready" =>
               \/ k'.pc[t] = User
               \/ k.state[t] = "Ready" /\ k'.pc[t] = k.pc[t] /\ k'.event[t] = k.event[t]
    PROVE  IInv'
<1>1. SleepsStay
  BY Zenon DEF SleepsStay
<1>2. SleepsAreTimed' /\ WaiterIsListed'
  BY <1>1, SleepsStayTimed, WaitersStayListed, Zenon
<1>3. Never({"wait_timeout", "kill"})' <=> Never({"wait_timeout", "kill"})
  BY Zenon DEF Never, Load
<1>4. NoPanic'
  BY <1>3, Zenon DEF IInv, NoPanic
<1>5. ASSUME Never({"wait_timeout", "kill"})
      PROVE  EachWaitsOnce'
  <2>1. \A t \in Tasks, where \in {"futex", "nanosleep"} : Asleep(t, where)' <=> Asleep(t, where)
    BY Zenon DEF Asleep
  <2>2. \A a \in Addrs : \A i \in 1..Len(k.wait_list[a]) : k.wait_list[a][i].tcb \in Tasks
    BY EntriesHaveTasks, Zenon DEF IInv
  <2>3. \A e \in k.timers : e.task \in Tasks
    BY Zenon DEF IInv, TypeOK
  <2>4. User.at = "user"
    BY Zenon DEF User
  <2>5. \A t \in Tasks : k'.state[t] = "Ready" =>
            /\ k'.pc[t].at = "futex" => k'.event[t] = FutexEvent
            /\ k'.pc[t].at = "nanosleep" => k'.event[t] = Timeout
    BY <1>5, <2>4 DEF IInv, EachWaitsOnce
  <2>. QED
    BY <1>5, <2>1, <2>2, <2>3, <2>5 DEF IInv, EachWaitsOnce
<1>6. EachWaitsOnce'
  BY <1>3, <1>5, Zenon DEF EachWaitsOnce
<1>. QED
  BY <1>2, <1>4, <1>6, Zenon DEF IInv

LEMMA StoreIInv ==
    ASSUME IInv, Store
    PROVE  IInv'
<1>1. PICK a \in Addrs, v \in Vals : k' = Return([Fetched EXCEPT !.word[a] = v])
  BY Zenon DEF Store
<1>. DEFINE q == [Fetched EXCEPT !.word[a] = v]
<1>2. TypeOK /\ CanRun
  BY Zenon DEF IInv, Store, UserCall
<1>3. /\ Me \in Tasks /\ IsTaskRec(Fetched) /\ DOMAIN Fetched = DOMAIN k
      /\ Fetched = [k EXCEPT !.state = [k.state EXCEPT ![Me] = "Running"],
                             !.queue = Tail(k.queue)]
  BY <1>2, FetchedFields, Zenon
<1>4. /\ IsTaskRec(q) /\ DOMAIN q = DOMAIN k
      /\ q.state = [k.state EXCEPT ![Me] = "Running"] /\ q.queue = Tail(k.queue)
      /\ q.pc = k.pc /\ q.load = k.load /\ q.event = k.event /\ q.fate = k.fate
      /\ q.now = k.now /\ q.timers = k.timers /\ q.next_timer_id = k.next_timer_id
      /\ q.word = [k.word EXCEPT ![a] = v] /\ q.wait_list = k.wait_list
  <2>1. q = [Fetched EXCEPT !.word = [Fetched.word EXCEPT ![a] = v]]
    BY <1>3, Zenon DEF IsTaskRec
  <2>2. q = [k EXCEPT !.state = [k.state EXCEPT ![Me] = "Running"],
                      !.queue = Tail(k.queue), !.word = [k.word EXCEPT ![a] = v]]
    BY <1>2, <1>3, <2>1, KernelIsTaskRec, Zenon DEF IsTaskRec
  <2>. HIDE DEF q
  <2>3. /\ q = [x \in DOMAIN k |-> q[x]]
        /\ q.state = [k.state EXCEPT ![Me] = "Running"] /\ q.queue = Tail(k.queue)
        /\ q.pc = k.pc /\ q.load = k.load /\ q.event = k.event /\ q.fate = k.fate
        /\ q.now = k.now /\ q.timers = k.timers /\ q.next_timer_id = k.next_timer_id
        /\ q.word = [k.word EXCEPT ![a] = v] /\ q.wait_list = k.wait_list
    BY <1>2, <2>2, KernelIsTaskRec, Zenon DEF IsTaskRec
  <2>4. IsTaskRec(q)
    BY <1>2, <1>3, <2>3, FetchedFields, SameTaskRec, Zenon
  <2>. QED
    BY <2>3, <2>4, Zenon
<1>. HIDE DEF q
<1>5. q.state[Me] = "Running"
  BY <1>2, <1>3, <1>4, Zenon DEF TypeOK
<1>6. k' = Return(q)
  BY <1>1, Zenon DEF q
<1>7. /\ IsKernel(k')
      /\ k'.state = [q.state EXCEPT ![Me] = "Ready"]
      /\ k'.queue = Append(q.queue, Me)
      /\ k'.pc = [k.pc EXCEPT ![Me] = User]
      /\ k'.load = q.load /\ k'.event = q.event /\ k'.fate = q.fate /\ k'.now = q.now
      /\ k'.timers = q.timers /\ k'.next_timer_id = q.next_timer_id
      /\ k'.word = q.word /\ k'.wait_list = q.wait_list
  BY <1>2, <1>4, <1>5, <1>6, ReturnFields, Zenon
<1>8. TypeOK'
  <2>1. q.word \in [Addrs -> Vals]
    BY <1>2, <1>4, Zenon DEF TypeOK
  <2>2. /\ q.event \in [Tasks -> {NoEvent, FutexEvent, SignalEvent, Timeout}]
        /\ q.wait_list \in [Addrs -> Seq(Items)]
        /\ \A b \in Addrs : Len(q.wait_list[b]) <= Load.entries
    BY <1>2, <1>4, Zenon DEF TypeOK
  <2>. QED
    BY <1>2, <1>4, <1>5, <1>6, <2>1, <2>2, ReturnTypeOK, Zenon
<1>9. k.state[Me] = "Ready"
  BY <1>2, Zenon DEF CanRun
<1>. QED
  BY <1>2, <1>3, <1>4, <1>7, <1>8, <1>9, QuietStep, SMTT(30) DEF TypeOK

LEMMA DropFetchedIInv ==
    ASSUME IInv, DropFetched
    PROVE  IInv'
<1>1. TypeOK /\ IsTaskRec(k) /\ k.queue # <<>>
  BY KernelIsTaskRec, Zenon DEF IInv, DropFetched
<1>2. k' = [k EXCEPT !.queue = Tail(k.queue)]
  BY <1>1, Zenon DEF DropFetched, fetch_next_task, IsTaskRec
<1>3. Tail(k.queue) \in Seq(Tasks)
  BY <1>1, FetchEntries, Zenon DEF TypeOK
<1>4. /\ IsKernel(k') /\ k'.queue = Tail(k.queue)
      /\ k'.state = k.state /\ k'.pc = k.pc /\ k'.load = k.load /\ k'.event = k.event
      /\ k'.fate = k.fate /\ k'.now = k.now /\ k'.timers = k.timers
      /\ k'.next_timer_id = k.next_timer_id /\ k'.word = k.word /\ k'.wait_list = k.wait_list
  BY <1>1, <1>2, Zenon DEF TypeOK, IsKernel
<1>5. TypeOK'
  BY <1>1, <1>3, <1>4, StepTypeOK, Zenon DEF TypeOK
<1>. QED
  BY <1>4, <1>5, QuietStep, Zenon

\* Both resumptions: back to user mode, or a panic that needs an event from a
\* timeout or a signal.
LEMMA ResumeIInv ==
    ASSUME IInv, FutexWaitResume \/ NanosleepResume
    PROVE  IInv'
<1>1. TypeOK /\ CanRun
  BY Zenon DEF IInv, FutexWaitResume, NanosleepResume, Resume
<1>2. /\ Me \in Tasks /\ IsTaskRec(Fetched) /\ DOMAIN Fetched = DOMAIN k
      /\ Fetched = [k EXCEPT !.state = [k.state EXCEPT ![Me] = "Running"],
                             !.queue = Tail(k.queue)]
  BY <1>1, FetchedFields, Zenon
<1>. DEFINE q == Resumed
<1>3. /\ IsTaskRec(q) /\ DOMAIN q = DOMAIN k
      /\ q.state = [k.state EXCEPT ![Me] = "Running"] /\ q.queue = Tail(k.queue)
      /\ q.event = [k.event EXCEPT ![Me] = NoEvent]
      /\ q.pc = k.pc /\ q.load = k.load /\ q.fate = k.fate
      /\ q.now = k.now /\ q.timers = k.timers /\ q.next_timer_id = k.next_timer_id
      /\ q.word = k.word /\ q.wait_list = k.wait_list
  <2>1. q = [k EXCEPT !.state = [k.state EXCEPT ![Me] = "Running"],
                      !.queue = Tail(k.queue), !.event = [k.event EXCEPT ![Me] = NoEvent]]
    BY <1>1, <1>2, KernelIsTaskRec, Zenon DEF IsTaskRec, Resumed, take_wakeup_event
  <2>. HIDE DEF q
  <2>2. /\ q = [x \in DOMAIN k |-> q[x]]
        /\ q.state = [k.state EXCEPT ![Me] = "Running"] /\ q.queue = Tail(k.queue)
        /\ q.event = [k.event EXCEPT ![Me] = NoEvent]
        /\ q.pc = k.pc /\ q.load = k.load /\ q.fate = k.fate
        /\ q.now = k.now /\ q.timers = k.timers /\ q.next_timer_id = k.next_timer_id
        /\ q.word = k.word /\ q.wait_list = k.wait_list
    BY <1>1, <2>1, KernelIsTaskRec, Zenon DEF IsTaskRec
  <2>3. q.event = [t \in Tasks |-> q.event[t]]
    BY <1>1, <2>2, Zenon DEF TypeOK
  <2>4. q.state \in [Tasks -> TaskState] /\ q.queue \in Seq(Tasks)
    BY <1>1, <1>2, <2>2, FetchedFields, Zenon DEF IsTaskRec
  <2>5. DOMAIN q = DOMAIN k /\ q = [x \in DOMAIN q |-> q[x]]
    BY <2>2, Zenon
  <2>. QED
    BY <1>1, <2>2, <2>3, <2>4, <2>5, KernelIsTaskRec, Zenon DEF IsTaskRec
<1>. HIDE DEF q
<1>4. k.state[Me] = "Ready" /\ k.fate = "up"
  BY <1>1, Zenon DEF CanRun
<1>5. q.event \in [Tasks -> {NoEvent, FutexEvent, SignalEvent, Timeout}]
  BY <1>1, <1>3, ZenonT(30) DEF TypeOK
<1>6. q.state[Me] = "Running"
  BY <1>1, <1>2, <1>3, Zenon DEF TypeOK
<1>7. CASE k' = Return(q)
  <2>1. /\ k'.state = [q.state EXCEPT ![Me] = "Ready"]
        /\ k'.pc = [k.pc EXCEPT ![Me] = User]
        /\ k'.load = q.load /\ k'.event = q.event /\ k'.fate = q.fate /\ k'.now = q.now
        /\ k'.timers = q.timers /\ k'.wait_list = q.wait_list
    BY <1>1, <1>3, <1>6, <1>7, ReturnFields, Zenon
  <2>2. TypeOK'
    <3>1. /\ q.word \in [Addrs -> Vals]
          /\ q.wait_list \in [Addrs -> Seq(Items)]
          /\ \A b \in Addrs : Len(q.wait_list[b]) <= Load.entries
      BY <1>1, <1>3, Zenon DEF TypeOK
    <3>. QED
      BY <1>1, <1>3, <1>5, <1>6, <1>7, <3>1, ReturnTypeOK, Zenon
  <2>3. \A t \in Tasks : t # Me => /\ k'.state[t] = k.state[t] /\ k'.pc[t] = k.pc[t]
                                   /\ k'.event[t] = k.event[t]
    BY <1>1, <1>2, <1>3, <2>1 DEF TypeOK
  <2>4. k'.state[Me] = "Ready" /\ k'.pc[Me] = User
    BY <1>1, <1>2, <1>3, <2>1, Zenon DEF TypeOK
  <2>. QED
    BY <1>3, <1>4, <2>1, <2>2, <2>3, <2>4, QuietStep, Zenon
<1>8. CASE k' = Panic(q)
  <2>1. /\ IsKernel(k') /\ k'.state = q.state /\ k'.queue = q.queue /\ k'.event = q.event
        /\ k'.pc = q.pc /\ k'.load = q.load /\ k'.fate = "panic" /\ k'.now = q.now
        /\ k'.timers = q.timers /\ k'.next_timer_id = q.next_timer_id
        /\ k'.word = q.word /\ k'.wait_list = q.wait_list
    BY <1>1, <1>3, <1>8, KernelIsTaskRec, Zenon DEF Panic, IsTaskRec, IsKernel
  <2>2. TypeOK'
    <3>1. k'.state \in [Tasks -> TaskState] /\ k'.queue \in Seq(Tasks)
      BY <1>3, <2>1, Zenon DEF IsTaskRec
    <3>. QED
      BY <1>1, <1>3, <1>5, <2>1, <3>1, StepTypeOK, Zenon DEF TypeOK
  <2>3. ~Never({"wait_timeout", "kill"})
    <3>1. SUFFICES ASSUME Never({"wait_timeout", "kill"}) PROVE FALSE
      BY Zenon
    <3>2. /\ k.pc[Me].at = "futex" => k.event[Me].type = "Futex"
          /\ k.pc[Me].at = "nanosleep" => k.event[Me].type = "Timeout"
      BY <1>2, <1>4, <3>1 DEF IInv, EachWaitsOnce, FutexEvent, Timeout
    <3>3. k' = Return(q)
      BY <3>2, Zenon DEF FutexWaitResume, NanosleepResume, Resume, q
    <3>4. k'.fate = "up"
      BY <1>1, <1>3, <1>4, <1>6, <3>3, ReturnFields, Zenon
    <3>. QED
      BY <2>1, <3>4, Zenon
  <2>4. \A t \in Tasks : t # Me => /\ k'.state[t] = k.state[t] /\ k'.pc[t] = k.pc[t]
                                   /\ k'.event[t] = k.event[t]
    BY <1>1, <1>2, <1>3, <2>1 DEF TypeOK
  <2>5. k'.state[Me] = "Running"
    BY <1>6, <2>1, Zenon
  <2>. QED
    BY <1>3, <1>4, <2>1, <2>2, <2>3, <2>4, <2>5, QuietStep, Zenon
<1>. QED
  BY <1>7, <1>8, Zenon DEF FutexWaitResume, NanosleepResume, q

-----------------------------------------------------------------------------
(* Going to sleep.                                                          *)

\* The timer add_timer sets.
NewTimer(q, t, d) == [id |-> q.next_timer_id + 1, time |-> q.now + d, task |-> t]

\* add_timer on a kernel sets the timer and gives out the next id.
LEMMA AddTimer ==
    ASSUME NEW q, IsTaskRec(q),
           "timers" \in DOMAIN q /\ "next_timer_id" \in DOMAIN q /\ "now" \in DOMAIN q,
           NEW t, NEW d, NEW r, r = add_timer(q, t, d)
    PROVE  /\ IsTaskRec(r) /\ DOMAIN r = DOMAIN q
           /\ r.timers = q.timers \cup {NewTimer(q, t, d)}
           /\ r.next_timer_id = q.next_timer_id + 1
           /\ \A x \in DOMAIN q \ {"timers", "next_timer_id"} : r[x] = q[x]
<1>1. r = [q EXCEPT !.timers = q.timers \cup {NewTimer(q, t, d)},
                    !.next_timer_id = q.next_timer_id + 1]
  BY Zenon DEF add_timer, IsTaskRec, NewTimer
<1>2. /\ r = [x \in DOMAIN q |-> r[x]]
      /\ r.state = q.state /\ r.event = q.event /\ r.queue = q.queue
      /\ r.timers = q.timers \cup {NewTimer(q, t, d)}
      /\ r.next_timer_id = q.next_timer_id + 1
      /\ \A x \in DOMAIN q \ {"timers", "next_timer_id"} : r[x] = q[x]
  BY <1>1, Zenon DEF IsTaskRec
<1>3. IsTaskRec(r)
  BY <1>2, SameTaskRec, Zenon
<1>. QED
  BY <1>2, <1>3, Zenon

\* The types of a timer set now, and of the place of its sleep.
LEMMA TimerTypes ==
    ASSUME TypeOK, NEW t \in Tasks, NEW d \in Nat, d > 0, k.now + d <= Load.time,
           k.next_timer_id < Load.timers, NEW T,
           T = k.timers \cup {NewTimer(k, t, d)}
    PROVE  /\ T \subseteq [id : 1..Load.timers, time : 1..Load.time, task : Tasks]
           /\ IsFiniteSet(T)
           /\ k.next_timer_id + 1 \in 0..Load.timers
           /\ k.now + d \in 1..Load.time
<1>1. Load.timers \in Nat /\ Load.time \in Nat
  BY FutexAssumption, Zenon DEF TypeOK, Load, IsWorkload
<1>2. k.next_timer_id \in Nat /\ k.now \in Nat
  BY <1>1 DEF TypeOK
<1>3. k.next_timer_id + 1 \in 1..Load.timers /\ k.now + d \in 1..Load.time
  BY <1>1, <1>2
<1>4. IsFiniteSet(T)
  BY FS_AddElement, Zenon DEF TypeOK
<1>5. T \subseteq [id : 1..Load.timers, time : 1..Load.time, task : Tasks]
  BY <1>3 DEF TypeOK, NewTimer
<1>. QED
  BY <1>3, <1>4, <1>5

LEMMA NanosleepIInv ==
    ASSUME IInv, Nanosleep
    PROVE  IInv'
<1>1. PICK d \in Load.delays \ {0} :
          /\ k.now + d <= Load.time /\ k.next_timer_id < Load.timers
          /\ k' = BlockAt(add_timer(Fetched, Me, d), "nanosleep", k.now + d)
  BY Zenon DEF Nanosleep
<1>2. TypeOK /\ CanRun /\ k.pc[Me] = User
  BY Zenon DEF IInv, Nanosleep, UserCall
<1>3. d \in Nat /\ d > 0
  BY <1>2, FutexAssumption DEF TypeOK, Load, IsWorkload
<1>4. /\ Me \in Tasks /\ IsTaskRec(Fetched) /\ DOMAIN Fetched = DOMAIN k
      /\ Fetched = [k EXCEPT !.state = [k.state EXCEPT ![Me] = "Running"],
                             !.queue = Tail(k.queue)]
  BY <1>2, FetchedFields, Zenon
<1>. DEFINE q == add_timer(Fetched, Me, d)
            new == NewTimer(k, Me, d)
<1>5. /\ IsTaskRec(q) /\ DOMAIN q = DOMAIN k
      /\ q.state = [k.state EXCEPT ![Me] = "Running"] /\ q.queue = Tail(k.queue)
      /\ q.pc = k.pc /\ q.load = k.load /\ q.event = k.event /\ q.fate = k.fate
      /\ q.now = k.now /\ q.timers = k.timers \cup {new}
      /\ q.next_timer_id = k.next_timer_id + 1
      /\ q.word = k.word /\ q.wait_list = k.wait_list
  <2>1. DOMAIN k = {"load", "state", "event", "queue", "pc", "fate", "now", "timers",
                    "next_timer_id", "word", "wait_list"}
    BY <1>2, KernelIsTaskRec, Zenon
  <2>2. /\ Fetched.state = [k.state EXCEPT ![Me] = "Running"]
        /\ Fetched.queue = Tail(k.queue)
        /\ \A x \in DOMAIN k \ {"state", "queue"} : Fetched[x] = k[x]
    BY <1>4, <2>1, Zenon
  <2>3. {"timers", "next_timer_id", "now"} \subseteq DOMAIN Fetched
    BY <1>4, <2>1, Zenon
  <2>4. q = add_timer(Fetched, Me, d)
    BY Zenon
  <2>. HIDE DEF q
  <2>5. /\ IsTaskRec(q) /\ DOMAIN q = DOMAIN Fetched
        /\ q.timers = Fetched.timers \cup {NewTimer(Fetched, Me, d)}
        /\ q.next_timer_id = Fetched.next_timer_id + 1
        /\ \A x \in DOMAIN Fetched \ {"timers", "next_timer_id"} : q[x] = Fetched[x]
    <3>1. IsTaskRec(Fetched)
      BY <1>4, Zenon
    <3>2. "timers" \in DOMAIN Fetched /\ "next_timer_id" \in DOMAIN Fetched /\ "now" \in DOMAIN Fetched
      BY <2>3, Zenon
    <3>. QED
      BY <3>1, <3>2, <2>4, AddTimer
  <2>6. NewTimer(Fetched, Me, d) = new
    BY <2>1, <2>2, Zenon DEF NewTimer
  <2>. HIDE DEF new
  <2>. QED
    BY <1>4, <2>1, <2>2, <2>5, <2>6, Zenon
<1>. HIDE DEF q
<1>6. q.state[Me] = "Running"
  BY <1>2, <1>4, <1>5, Zenon DEF TypeOK
<1>7. /\ IsKernel(k')
      /\ k'.state = [q.state EXCEPT ![Me] = "Blocked"]
      /\ k'.pc = [k.pc EXCEPT ![Me] = At("nanosleep", k.now + d)]
      /\ k'.load = q.load /\ k'.event = q.event /\ k'.fate = q.fate /\ k'.now = q.now
      /\ k'.timers = q.timers /\ k'.next_timer_id = q.next_timer_id
      /\ k'.word = q.word /\ k'.wait_list = q.wait_list /\ k'.queue = q.queue
  <2>1. k' = BlockAt(q, "nanosleep", k.now + d)
    BY <1>1, Zenon DEF q
  <2>. QED
    BY <1>2, <1>5, <1>6, <2>1, BlockFields, Zenon
<1>8. /\ k'.timers \subseteq [id : 1..Load.timers, time : 1..Load.time, task : Tasks]
      /\ IsFiniteSet(k'.timers)
      /\ k.next_timer_id + 1 \in 0..Load.timers
      /\ k.now + d \in 1..Load.time
  <2>1. k'.timers = k.timers \cup {NewTimer(k, Me, d)}
    BY <1>5, <1>7, Zenon
  <2>. QED
    BY <1>1, <1>2, <1>3, <1>4, <2>1, TimerTypes, Zenon
<1>9. TypeOK'
  <2>1. At("nanosleep", k.now + d) \in Places
    BY <1>8 DEF Places
  <2>2. k'.pc \in [Tasks -> Places]
    BY <1>2, <1>4, <1>7, <2>1, SMTT(30) DEF TypeOK
  <2>3. k'.state \in [Tasks -> TaskState]
    BY <1>2, <1>4, <1>5, <1>7 DEF TypeOK, TaskState
  <2>4. k'.queue \in Seq(Tasks)
    BY <1>5, <1>7, Zenon DEF IsTaskRec
  <2>. QED
    BY <1>2, <1>5, <1>7, <1>8, <2>2, <2>3, <2>4, StepTypeOK, SMTT(30) DEF TypeOK
<1>10. /\ \A t \in Tasks : t # Me => k'.state[t] = k.state[t] /\ k'.pc[t] = k.pc[t]
       /\ k'.state[Me] = "Blocked" /\ k'.pc[Me] = At("nanosleep", k.now + d)
       /\ k.state[Me] = "Ready"
  BY <1>2, <1>4, <1>5, <1>7 DEF TypeOK, CanRun
<1>11. At("nanosleep", k.now + d).at = "nanosleep" /\ At("nanosleep", k.now + d).arg = k.now + d
       /\ At("nanosleep", k.now + d) # User
  BY Zenon DEF At, User
<1>12. SleepsAreTimed'
  <2>1. ASSUME NEW t \in Tasks, Asleep(t, "nanosleep")' \/ (Asleep(t, "futex")' /\ Until(t)' > 0)
        PROVE  \E e \in k'.timers : e.task = t /\ e.time = Until(t)'
    <3>1. CASE t = Me
      <4>1. Until(t)' = k.now + d
        BY <1>10, <1>11, <3>1, Zenon DEF Until
      <4>2. new \in k'.timers /\ new.task = t /\ new.time = k.now + d
        BY <1>5, <1>7, <3>1, Zenon DEF NewTimer
      <4>. QED
        BY <4>1, <4>2, Zenon
    <3>2. CASE t # Me
      <4>1. Until(t)' = Until(t)
        BY <1>10, <3>2, Zenon DEF Until
      <4>2. Asleep(t, "nanosleep") \/ (Asleep(t, "futex") /\ Until(t) > 0)
        BY <1>10, <2>1, <3>2, <4>1, Zenon DEF Asleep
      <4>. QED
        BY <1>5, <1>7, <4>1, <4>2 DEF IInv, SleepsAreTimed
    <3>. QED
      BY <3>1, <3>2, Zenon
  <2>2. k.now < new.time
    BY <1>2, <1>3, <1>8 DEF TypeOK, NewTimer
  <2>3. \A e \in k'.timers : k'.now < e.time
    BY <1>5, <1>7, <2>2 DEF IInv, SleepsAreTimed
  <2>. QED
    BY <2>1, <2>3, Zenon DEF SleepsAreTimed
<1>13. WaiterIsListed'
  <2>1. ASSUME NEW t \in Tasks, Asleep(t, "futex")'
        PROVE  Listed(t)' # {}
    <3>1. Asleep(t, "futex")
      BY <1>10, <1>11, <2>1, Zenon DEF Asleep
    <3>2. PICK a \in Addrs : \E i \in Nat : EntryOf(t, a, i)
      BY <1>2, <3>1, ListedIsEntry, Zenon DEF IInv, WaiterIsListed
    <3>3. \E i \in Nat : EntryOf(t, a, i)'
      BY <1>5, <1>7, <3>2 DEF EntryOf
    <3>. QED
      BY <1>9, <3>3, ListedIsEntry, Zenon
  <2>. QED
    BY <2>1, Zenon DEF WaiterIsListed
<1>14. Never({"wait_timeout", "kill"})' <=> Never({"wait_timeout", "kill"})
  BY <1>5, <1>7, Zenon DEF Never, Load
<1>15. NoPanic'
  BY <1>5, <1>7, <1>14, Zenon DEF IInv, NoPanic
<1>16. ASSUME Never({"wait_timeout", "kill"})
       PROVE  EachWaitsOnce'
  <2>1. \A a \in Addrs : \A i \in 1..Len(k.wait_list[a]) : k.wait_list[a][i].tcb \in Tasks
    BY <1>2, EntriesHaveTasks, Zenon
  <2>2. \A e \in k.timers : e.task \in Tasks /\ e.task # Me
    BY <1>2, <1>10, <1>16, ZenonT(30) DEF IInv, TypeOK, EachWaitsOnce, Asleep
  <2>3. \A a, b \in Addrs : \A i \in 1..Len(k'.wait_list[a]), j \in 1..Len(k'.wait_list[b]) :
            k'.wait_list[a][i].tcb = k'.wait_list[b][j].tcb => a = b /\ i = j
    BY <1>5, <1>7, <1>16, SMTT(30) DEF IInv, EachWaitsOnce
  <2>4. \A a \in Addrs : \A i \in 1..Len(k'.wait_list[a]) :
            Asleep(k.wait_list[a][i].tcb, "futex")'
    <3>1. k'.wait_list = k.wait_list
      BY <1>5, <1>7, Zenon
    <3>2. ASSUME NEW a \in Addrs, NEW i \in 1..Len(k.wait_list[a])
          PROVE  Asleep(k.wait_list[a][i].tcb, "futex")'
      <4>1. PICK t \in Tasks : t = k.wait_list[a][i].tcb
        BY <2>1, Zenon
      <4>2. Asleep(t, "futex")
        BY <1>16, <4>1, Zenon DEF IInv, EachWaitsOnce
      <4>3. Asleep(t, "futex")'
        BY <1>10, <4>2, Zenon DEF Asleep
      <4>4. k'.wait_list[a][i].tcb = t
        BY <3>1, <4>1, Zenon
      <4>. QED
        BY <4>3, <4>4, Zenon DEF Asleep
    <3>. QED
      BY <3>1, <3>2
  <2>5. \A e \in k'.timers : Asleep(e.task, "nanosleep")'
    <3>1. k'.timers = k.timers \cup {new}
      BY <1>5, <1>7, Zenon
    <3>2. ASSUME NEW e \in k.timers
          PROVE  Asleep(e.task, "nanosleep")'
      BY <1>10, <1>16, <2>2, Zenon DEF IInv, EachWaitsOnce, Asleep
    <3>3. new.task = Me
      BY Zenon DEF NewTimer
    <3>. HIDE DEF new
    <3>4. ASSUME NEW e \in k'.timers
          PROVE  Asleep(e.task, "nanosleep")'
      <4>1. CASE e \in k.timers
        BY <3>2, <4>1, Zenon
      <4>2. CASE e = new
        BY <1>10, <1>11, <3>3, <4>2, Zenon DEF Asleep
      <4>. QED
        BY <3>1, <3>4, <4>1, <4>2, Zenon
    <3>. QED
      BY <3>4, Zenon
  <2>6. \A e, f \in k'.timers : e.task = f.task => e = f
    BY <1>5, <1>7, <1>16, <2>2 DEF IInv, EachWaitsOnce, NewTimer
  <2>7. \A t \in Tasks : k'.state[t] = "Ready" =>
            /\ k'.pc[t].at = "futex" => k'.event[t] = FutexEvent
            /\ k'.pc[t].at = "nanosleep" => k'.event[t] = Timeout
    BY <1>5, <1>7, <1>10, <1>16, SMTT(30) DEF IInv, EachWaitsOnce
  <2>. QED
    BY <2>3, <2>4, <2>5, <2>6, <2>7, Zenon DEF EachWaitsOnce
<1>17. EachWaitsOnce'
  BY <1>14, <1>16, Zenon DEF EachWaitsOnce
<1>. QED
  BY <1>9, <1>12, <1>13, <1>15, <1>17, Zenon DEF IInv

\* The lists with the caller at the end of a, and the timer of a sleep until u.
Enlisted(a, b) == [k.wait_list EXCEPT ![a] = Append(k.wait_list[a], Item(Me, b))]

Armed(u) ==
    \/ u = 0 /\ k'.timers = k.timers
    \/ /\ ~Never({"wait_timeout", "kill"})
       /\ \E new : /\ k'.timers = k.timers \cup {new}
                   /\ new.task = Me /\ new.time = u /\ k.now < u

\* The caller is listed at a and sleeps there, with a timer or without.
LEMMA WaitStep ==
    ASSUME IInv, TypeOK', Me \in Tasks, k.state[Me] = "Ready", k.pc[Me] = User,
           NEW a \in Addrs, NEW b \in Load.bitsets, NEW u,
           k'.load = k.load, k'.fate = k.fate, k'.now = k.now, k'.event = k.event,
           \A t \in Tasks : t # Me => k'.state[t] = k.state[t] /\ k'.pc[t] = k.pc[t],
           k'.state[Me] = "Blocked", k'.pc[Me] = At("futex", u),
           k'.wait_list = Enlisted(a, b), Armed(u)
    PROVE  IInv'
<1>1. TypeOK
  BY Zenon DEF IInv
<1>2. \/ u = 0 /\ k'.timers = k.timers
      \/ /\ ~Never({"wait_timeout", "kill"})
         /\ \E new : /\ k'.timers = k.timers \cup {new}
                     /\ new.task = Me /\ new.time = u /\ k.now < u
  BY Zenon DEF Armed
<1>3. At("futex", u).at = "futex" /\ At("futex", u).arg = u /\ At("futex", u) # User
  BY Zenon DEF At, User
<1>4. Item(Me, b).tcb = Me
  BY Zenon DEF Item
<1>5. /\ k.wait_list[a] \in Seq(Items) /\ Item(Me, b) \in Items
      /\ \A c \in Addrs : c # a => k'.wait_list[c] = k.wait_list[c]
      /\ k'.wait_list[a] = Append(k.wait_list[a], Item(Me, b))
  BY <1>1, Zenon DEF TypeOK, Items, Item, Enlisted
<1>6. /\ Len(k.wait_list[a]) \in Nat
      /\ Len(k'.wait_list[a]) = Len(k.wait_list[a]) + 1
      /\ \A i \in 1..Len(k.wait_list[a]) : k'.wait_list[a][i] = k.wait_list[a][i]
      /\ k'.wait_list[a][Len(k.wait_list[a]) + 1] = Item(Me, b)
  BY <1>5
<1>7. SleepsAreTimed'
  <2>1. ASSUME NEW t \in Tasks, Asleep(t, "nanosleep")' \/ (Asleep(t, "futex")' /\ Until(t)' > 0)
        PROVE  \E e \in k'.timers : e.task = t /\ e.time = Until(t)'
    <3>1. CASE t = Me
      <4>1. Until(t)' = u /\ ~Asleep(t, "nanosleep")'
        BY <1>3, <3>1, Zenon DEF Until, Asleep
      <4>2. u # 0
        BY <2>1, <4>1
      <4>. QED
        BY <1>2, <3>1, <4>1, <4>2, Zenon
    <3>2. CASE t # Me
      <4>1. Until(t)' = Until(t)
        BY <3>2, Zenon DEF Until
      <4>2. Asleep(t, "nanosleep") \/ (Asleep(t, "futex") /\ Until(t) > 0)
        BY <2>1, <3>2, <4>1, Zenon DEF Asleep
      <4>3. PICK e \in k.timers : e.task = t /\ e.time = Until(t)
        BY <4>2, Zenon DEF IInv, SleepsAreTimed
      <4>. QED
        BY <1>2, <4>1, <4>3, Zenon
    <3>. QED
      BY <3>1, <3>2, Zenon
  <2>2. \A e \in k'.timers : k'.now < e.time
    BY <1>2 DEF IInv, SleepsAreTimed
  <2>. QED
    BY <2>1, <2>2, Zenon DEF SleepsAreTimed
<1>8. WaiterIsListed'
  <2>1. ASSUME NEW t \in Tasks, Asleep(t, "futex")'
        PROVE  \E c \in Addrs : \E i \in Nat : EntryOf(t, c, i)'
    <3>1. CASE t = Me
      <4>1. PICK n \in Nat : n = Len(k.wait_list[a]) + 1
        BY <1>6
      <4>2. n \in 1..Len(k'.wait_list[a]) /\ k'.wait_list[a][n].tcb = t
        BY <1>4, <1>6, <3>1, <4>1, SMTT(30)
      <4>3. EntryOf(t, a, n)'
        BY <4>2, Zenon DEF EntryOf
      <4>. QED
        BY <4>3, Zenon
    <3>2. CASE t # Me
      <4>1. Asleep(t, "futex")
        BY <2>1, <3>2, Zenon DEF Asleep
      <4>2. PICK c \in Addrs, i \in Nat : EntryOf(t, c, i)
        BY <1>1, <4>1, ListedIsEntry, Zenon DEF IInv, WaiterIsListed
      <4>3. EntryOf(t, c, i)'
        <5>1. CASE c = a
          <6>1. i \in 1..Len(k.wait_list[a]) /\ k.wait_list[a][i].tcb = t
            BY <4>2, <5>1, Zenon DEF EntryOf
          <6>2. i \in 1..Len(k'.wait_list[a])
            BY <1>6, <6>1
          <6>3. k'.wait_list[a][i].tcb = t
            BY <1>6, <6>1, Zenon
          <6>. QED
            BY <5>1, <6>2, <6>3, Zenon DEF EntryOf
        <5>2. CASE c # a
          BY <1>5, <4>2, <5>2, Zenon DEF EntryOf
        <5>. QED
          BY <5>1, <5>2, Zenon
      <4>. QED
        BY <4>3, Zenon
    <3>. QED
      BY <3>1, <3>2, Zenon
  <2>. QED
    BY <2>1, ListedIsEntry, Zenon DEF WaiterIsListed
<1>9. Never({"wait_timeout", "kill"})' <=> Never({"wait_timeout", "kill"})
  BY Zenon DEF Never, Load
<1>10. NoPanic'
  BY <1>9, Zenon DEF IInv, NoPanic
<1>11. ASSUME Never({"wait_timeout", "kill"})
       PROVE  EachWaitsOnce'
  <2>1. \A c \in Addrs : \A i \in 1..Len(k.wait_list[c]) :
            k.wait_list[c][i].tcb \in Tasks \ {Me}
    BY <1>1, <1>11, EntriesHaveTasks, Zenon DEF IInv, EachWaitsOnce, Asleep
  <2>2. \A e \in k.timers : e.task \in Tasks \ {Me}
    BY <1>1, <1>11, Zenon DEF IInv, TypeOK, EachWaitsOnce, Asleep
  <2>3. k'.timers = k.timers
    BY <1>2, <1>11, Zenon
  <2>4. ASSUME NEW c \in Addrs, NEW i \in 1..Len(k'.wait_list[c])
        PROVE  \/ i \in 1..Len(k.wait_list[c]) /\ k'.wait_list[c][i] = k.wait_list[c][i]
               \/ c = a /\ i = Len(k.wait_list[a]) + 1 /\ k'.wait_list[c][i].tcb = Me
    <3>1. CASE c # a
      BY <1>5, <2>4, <3>1, Zenon
    <3>2. CASE c = a
      <4>1. i \in 1..Len(k.wait_list[a]) \/ i = Len(k.wait_list[a]) + 1
        BY <1>6, <2>4, <3>2
      <4>. QED
        BY <1>4, <1>6, <3>2, <4>1, Zenon
    <3>. QED
      BY <3>1, <3>2, Zenon
  <2>5. ASSUME NEW c \in Addrs, NEW d \in Addrs, NEW i \in 1..Len(k'.wait_list[c]),
               NEW j \in 1..Len(k'.wait_list[d]), k'.wait_list[c][i].tcb = k'.wait_list[d][j].tcb
        PROVE  c = d /\ i = j
    <3>1. CASE k'.wait_list[c][i].tcb = Me
      <4>1. c = a /\ i = Len(k.wait_list[a]) + 1
        BY <2>1, <2>4, <3>1, Zenon
      <4>2. k'.wait_list[d][j].tcb = Me
        BY <2>5, <3>1, Zenon
      <4>3. d = a /\ j = Len(k.wait_list[a]) + 1
        BY <2>1, <2>4, <4>2, Zenon
      <4>. QED
        BY <4>1, <4>3, Zenon
    <3>2. CASE k'.wait_list[c][i].tcb # Me
      <4>1. i \in 1..Len(k.wait_list[c]) /\ k'.wait_list[c][i] = k.wait_list[c][i]
        BY <2>4, <3>2, Zenon
      <4>2. j \in 1..Len(k.wait_list[d]) /\ k'.wait_list[d][j] = k.wait_list[d][j]
        BY <2>4, <2>5, <3>2, Zenon
      <4>3. k.wait_list[c][i].tcb = k.wait_list[d][j].tcb
        BY <2>5, <4>1, <4>2, Zenon
      <4>4. \A x, y \in Addrs : \A m \in 1..Len(k.wait_list[x]), n \in 1..Len(k.wait_list[y]) :
                k.wait_list[x][m].tcb = k.wait_list[y][n].tcb => x = y /\ m = n
        BY <1>11, Zenon DEF IInv, EachWaitsOnce
      <4>5. \A m \in 1..Len(k.wait_list[c]), n \in 1..Len(k.wait_list[d]) :
                k.wait_list[c][m].tcb = k.wait_list[d][n].tcb => c = d /\ m = n
        BY <4>4, Zenon
      <4>. QED
        BY <4>1, <4>2, <4>3, <4>5, Zenon
    <3>. QED
      BY <3>1, <3>2, Zenon
  <2>6. \A c \in Addrs : \A i \in 1..Len(k'.wait_list[c]) :
            Asleep(k.wait_list[c][i].tcb, "futex")'
    <3>. TAKE c \in Addrs
    <3>. TAKE i \in 1..Len(k'.wait_list[c])
    <3>0. PICK t : t = k'.wait_list[c][i].tcb
      BY Zenon
    <3>1. CASE t = Me
      <4>1. k'.state[t] = "Blocked" /\ k'.pc[t].at = "futex"
        BY <1>3, <3>1, Zenon
      <4>. QED
        BY <3>0, <4>1, Zenon DEF Asleep
    <3>2. CASE t # Me
      <4>1. i \in 1..Len(k.wait_list[c]) /\ t = k.wait_list[c][i].tcb
        BY <2>4, <3>0, <3>2, Zenon
      <4>2. t \in Tasks /\ k.state[t] = "Blocked" /\ k.pc[t].at = "futex"
        BY <1>11, <2>1, <4>1, ZenonT(30) DEF IInv, EachWaitsOnce, Asleep
      <4>. QED
        BY <3>0, <3>2, <4>2, Zenon DEF Asleep
    <3>. QED
      BY <3>1, <3>2, Zenon
  <2>7. \A e \in k'.timers : Asleep(e.task, "nanosleep")'
    BY <1>11, <2>2, <2>3, SMTT(30) DEF IInv, EachWaitsOnce, Asleep
  <2>8. \A e, f \in k'.timers : e.task = f.task => e = f
    BY <1>11, <2>3, Zenon DEF IInv, EachWaitsOnce
  <2>9. \A t \in Tasks : k'.state[t] = "Ready" =>
            /\ k'.pc[t].at = "futex" => k'.event[t] = FutexEvent
            /\ k'.pc[t].at = "nanosleep" => k'.event[t] = Timeout
    BY <1>11 DEF IInv, EachWaitsOnce
  <2>. QED
    BY <2>5, <2>6, <2>7, <2>8, <2>9, Zenon DEF EachWaitsOnce
<1>12. EachWaitsOnce'
  BY <1>9, <1>11, Zenon DEF EachWaitsOnce
<1>. QED
  BY <1>7, <1>8, <1>10, <1>12, Zenon DEF IInv

\* The caller is listed at a, and still runs.
EnlistedMe(a, b) == [Fetched EXCEPT !.wait_list[a] = Append(@, Item(Me, b))]

IsEnlisted(q, a, b) ==
    /\ Me \in Tasks
    /\ IsTaskRec(q) /\ DOMAIN q = DOMAIN k
    /\ q.state = [k.state EXCEPT ![Me] = "Running"] /\ q.queue = Tail(k.queue)
    /\ q.pc = k.pc /\ q.load = k.load /\ q.event = k.event /\ q.fate = k.fate
    /\ q.now = k.now /\ q.timers = k.timers /\ q.next_timer_id = k.next_timer_id
    /\ q.word = k.word /\ q.wait_list = Enlisted(a, b)
    /\ q.state[Me] = "Running"
    /\ Enlisted(a, b) \in [Addrs -> Seq(Items)]
    /\ \A c \in Addrs : Len(Enlisted(a, b)[c]) <= Load.entries

LEMMA EnlistFields ==
    ASSUME TypeOK, CanRun, NEW a \in Addrs, NEW b \in Load.bitsets,
           Len(k.wait_list[a]) < Load.entries, NEW q, q = EnlistedMe(a, b)
    PROVE  IsEnlisted(q, a, b)
<1>1. /\ Me \in Tasks /\ IsTaskRec(Fetched) /\ DOMAIN Fetched = DOMAIN k
      /\ Fetched = [k EXCEPT !.state = [k.state EXCEPT ![Me] = "Running"],
                             !.queue = Tail(k.queue)]
      /\ Fetched.wait_list = k.wait_list
  BY FetchedFields, Zenon
<1>2. DOMAIN k = {"load", "state", "event", "queue", "pc", "fate", "now", "timers",
                  "next_timer_id", "word", "wait_list"}
  BY KernelIsTaskRec, Zenon
<1>. DEFINE L == Enlisted(a, b)
<1>3. q = [Fetched EXCEPT !.wait_list = [Fetched.wait_list EXCEPT
                                ![a] = Append(Fetched.wait_list[a], Item(Me, b))]]
  BY <1>1, Zenon DEF IsTaskRec, EnlistedMe
<1>4. q = [k EXCEPT !.state = [k.state EXCEPT ![Me] = "Running"],
                    !.queue = Tail(k.queue), !.wait_list = L]
  BY <1>1, <1>2, <1>3, Zenon DEF Enlisted
<1>5. /\ q = [x \in DOMAIN k |-> q[x]]
      /\ q.state = [k.state EXCEPT ![Me] = "Running"] /\ q.queue = Tail(k.queue)
      /\ q.pc = k.pc /\ q.load = k.load /\ q.event = k.event /\ q.fate = k.fate
      /\ q.now = k.now /\ q.timers = k.timers /\ q.next_timer_id = k.next_timer_id
      /\ q.word = k.word /\ q.wait_list = L
  <2>. HIDE DEF L
  <2>. QED
    BY <1>2, <1>4, Zenon DEF TypeOK, IsKernel
<1>6. IsTaskRec(q)
  <2>1. Fetched.state = [k.state EXCEPT ![Me] = "Running"] /\ Fetched.queue = Tail(k.queue)
        /\ Fetched.event = k.event
    BY FetchedFields, Zenon
  <2>. QED
    BY <1>1, <1>5, <2>1, SameTaskRec, Zenon
<1>7. q.state[Me] = "Running"
  BY <1>1, <1>5, Zenon DEF TypeOK
<1>8. L \in [Addrs -> Seq(Items)] /\ \A c \in Addrs : Len(L[c]) <= Load.entries
  <2>1. k.wait_list[a] \in Seq(Items) /\ Item(Me, b) \in Items
    BY <1>1, Zenon DEF TypeOK, Items, Item
  <2>. DEFINE s == Append(k.wait_list[a], Item(Me, b))
  <2>2. s \in Seq(Items) /\ Len(s) = Len(k.wait_list[a]) + 1 /\ Len(k.wait_list[a]) \in Nat
    BY <2>1
  <2>3. Len(s) <= Load.entries
    <3>1. Load.entries \in Nat
      BY FutexAssumption, Zenon DEF TypeOK, Load, IsWorkload
    <3>. HIDE DEF s
    <3>. QED
      BY <2>2, <3>1
  <2>. HIDE DEF s
  <2>4. L[a] = s /\ \A c \in Addrs : c # a => L[c] = k.wait_list[c]
    BY Zenon DEF TypeOK, Enlisted, s
  <2>5. L \in [Addrs -> Seq(Items)]
    BY <2>2, Zenon DEF TypeOK, Enlisted, s
  <2>. QED
    BY <2>3, <2>4, <2>5, Zenon DEF TypeOK
<1>. QED
  BY <1>1, <1>2, <1>5, <1>6, <1>7, <1>8, Zenon DEF IsEnlisted

LEMMA FutexWaitIInv ==
    ASSUME IInv, FutexWait
    PROVE  IInv'
<1>1. PICK a \in Addrs, b \in Load.bitsets, d \in Load.delays :
          /\ UserCall(IF d = 0 THEN "wait" ELSE "wait_timeout")
          /\ Len(k.wait_list[a]) < Load.entries
          /\ d > 0 => k.now + d <= Load.time /\ k.next_timer_id < Load.timers
          /\ k' = IF d = 0
                  THEN BlockAt(EnlistedMe(a, b), "futex", 0)
                  ELSE BlockAt(add_timer(EnlistedMe(a, b), Me, d), "futex", k.now + d)
  BY Zenon DEF FutexWait, EnlistedMe
<1>2. TypeOK /\ CanRun /\ k.pc[Me] = User
  BY <1>1, Zenon DEF IInv, UserCall
<1>3. d \in Nat /\ Load.entries \in Nat /\ Load.time \in Nat
  BY <1>2, FutexAssumption, Zenon DEF TypeOK, Load, IsWorkload
<1>4. Me \in Tasks
  BY <1>2, FetchedFields, Zenon
<1>5. DOMAIN k = {"load", "state", "event", "queue", "pc", "fate", "now", "timers",
                  "next_timer_id", "word", "wait_list"}
  BY <1>2, KernelIsTaskRec, Zenon
<1>. DEFINE L == Enlisted(a, b)
<1>0. PICK q : q = EnlistedMe(a, b)
  OBVIOUS
<1>6. /\ Me \in Tasks
      /\ IsTaskRec(q) /\ DOMAIN q = DOMAIN k
      /\ q.state = [k.state EXCEPT ![Me] = "Running"] /\ q.queue = Tail(k.queue)
      /\ q.pc = k.pc /\ q.load = k.load /\ q.event = k.event /\ q.fate = k.fate
      /\ q.now = k.now /\ q.timers = k.timers /\ q.next_timer_id = k.next_timer_id
      /\ q.word = k.word /\ q.wait_list = L
      /\ q.state[Me] = "Running"
      /\ L \in [Addrs -> Seq(Items)]
      /\ \A c \in Addrs : Len(L[c]) <= Load.entries
  <2>1. IsEnlisted(q, a, b)
    BY <1>0, <1>1, <1>2, EnlistFields, Zenon
  <2>. QED
    BY <2>1, Zenon DEF IsEnlisted
<1>9. k.state[Me] = "Ready"
  BY <1>2, Zenon DEF CanRun
<1>10. CASE d = 0
  <2>1. k' = BlockAt(q, "futex", 0)
    BY <1>0, <1>1, <1>10, Zenon
  <2>2. /\ IsKernel(k')
        /\ k'.state = [q.state EXCEPT ![Me] = "Blocked"]
        /\ k'.pc = [k.pc EXCEPT ![Me] = At("futex", 0)]
        /\ k'.load = q.load /\ k'.event = q.event /\ k'.fate = q.fate /\ k'.now = q.now
        /\ k'.timers = q.timers /\ k'.next_timer_id = q.next_timer_id
        /\ k'.word = q.word /\ k'.wait_list = q.wait_list /\ k'.queue = q.queue
    BY <1>2, <1>6, <2>1, BlockFields, Zenon
  <2>3. TypeOK'
    <3>1. At("futex", 0) \in Places
      BY <1>3 DEF Places
    <3>2. k'.pc \in [Tasks -> Places]
      BY <1>2, <1>4, <2>2, <3>1, SMTT(30) DEF TypeOK
    <3>3. k'.state \in [Tasks -> TaskState]
      BY <1>2, <1>4, <1>6, <2>2, SMTT(30) DEF TypeOK, TaskState
    <3>4. k'.queue \in Seq(Tasks)
      BY <1>6, <2>2, Zenon DEF IsTaskRec
    <3>. QED
      BY <1>2, <1>6, <2>2, <3>2, <3>3, <3>4, StepTypeOK, ZenonT(30) DEF TypeOK
  <2>4. /\ \A t \in Tasks : t # Me => k'.state[t] = k.state[t] /\ k'.pc[t] = k.pc[t]
        /\ k'.state[Me] = "Blocked" /\ k'.pc[Me] = At("futex", 0)
    BY <1>2, <1>4, <1>6, <2>2, SMTT(30) DEF TypeOK
  <2>. QED
    <3>1. k'.wait_list = Enlisted(a, b)
      BY <1>6, <2>2, Zenon
    <3>2. Armed(0)
      BY <1>6, <2>2, Zenon DEF Armed
    <3>. QED
      BY <1>2, <1>4, <1>6, <1>9, <2>2, <2>3, <2>4, <3>1, <3>2, WaitStep, SMTT(30)
<1>11. CASE d # 0
  <2>. DEFINE r == add_timer(q, Me, d)
              new == NewTimer(k, Me, d)
  <2>0. r = add_timer(q, Me, d) /\ d > 0
    BY <1>3, <1>11
  <2>. HIDE DEF r
  <2>1. k' = BlockAt(r, "futex", k.now + d)
    BY <1>0, <1>1, <1>11, Zenon DEF r
  <2>2. /\ IsTaskRec(r) /\ DOMAIN r = DOMAIN q
        /\ r.timers = q.timers \cup {NewTimer(q, Me, d)}
        /\ r.next_timer_id = q.next_timer_id + 1
        /\ \A x \in DOMAIN q \ {"timers", "next_timer_id"} : r[x] = q[x]
    <3>1. "timers" \in DOMAIN q /\ "next_timer_id" \in DOMAIN q /\ "now" \in DOMAIN q
      BY <1>5, <1>6, Zenon
    <3>2. IsTaskRec(q)
      BY <1>6, Zenon
    <3>. QED
      BY <2>0, <3>1, <3>2, AddTimer, SMTT(30)
  <2>3. NewTimer(q, Me, d) = new
    BY <1>6, Zenon DEF NewTimer
  <2>. HIDE DEF new
  <2>4. /\ DOMAIN r = DOMAIN k
        /\ r.state = q.state /\ r.queue = q.queue
        /\ r.pc = k.pc /\ r.load = k.load /\ r.event = k.event /\ r.fate = k.fate
        /\ r.now = k.now /\ r.timers = k.timers \cup {new}
        /\ r.next_timer_id = k.next_timer_id + 1
        /\ r.word = k.word /\ r.wait_list = L
    BY <1>5, <1>6, <2>2, <2>3, Zenon
  <2>5. r.state[Me] = "Running"
    BY <1>6, <2>4, Zenon
  <2>6. /\ IsKernel(k')
        /\ k'.state = [r.state EXCEPT ![Me] = "Blocked"]
        /\ k'.pc = [k.pc EXCEPT ![Me] = At("futex", k.now + d)]
        /\ k'.load = r.load /\ k'.event = r.event /\ k'.fate = r.fate /\ k'.now = r.now
        /\ k'.timers = r.timers /\ k'.next_timer_id = r.next_timer_id
        /\ k'.word = r.word /\ k'.wait_list = r.wait_list /\ k'.queue = r.queue
    BY <1>2, <2>1, <2>2, <2>4, <2>5, BlockFields, Zenon
  <2>7. /\ k'.timers \subseteq [id : 1..Load.timers, time : 1..Load.time, task : Tasks]
        /\ IsFiniteSet(k'.timers)
        /\ k.next_timer_id + 1 \in 0..Load.timers
        /\ k.now + d \in 1..Load.time
    <3>1. k'.timers = k.timers \cup {NewTimer(k, Me, d)}
      BY <2>4, <2>6, Zenon DEF new
    <3>2. k.now + d <= Load.time /\ k.next_timer_id < Load.timers
      BY <1>1, <2>0, Zenon
    <3>. QED
      BY <1>2, <1>3, <1>4, <2>0, <3>1, <3>2, TimerTypes, ZenonT(30)
  <2>8. TypeOK'
    <3>1. At("futex", k.now + d) \in Places
      BY <2>7 DEF Places
    <3>2. k'.pc \in [Tasks -> Places]
      BY <1>2, <1>4, <2>6, <3>1, SMTT(30) DEF TypeOK
    <3>3. k'.state \in [Tasks -> TaskState]
      BY <1>2, <1>4, <1>6, <2>4, <2>6, SMTT(30) DEF TypeOK, TaskState
    <3>4. k'.queue \in Seq(Tasks)
      BY <2>2, <2>6, Zenon DEF IsTaskRec
    <3>5. /\ k'.load = k.load /\ k'.event = k.event /\ k'.fate = k.fate /\ k'.now = k.now
          /\ k'.next_timer_id = k.next_timer_id + 1 /\ k'.word = k.word /\ k'.wait_list = L
      BY <2>4, <2>6, Zenon
    <3>6. /\ L \in [Addrs -> Seq(Items)]
          /\ \A c \in Addrs : Len(L[c]) <= Load.entries
      BY <1>6, Zenon
    <3>7. IsKernel(k')
      BY <2>6, Zenon
    <3>. HIDE DEF L
    <3>. QED
      BY <1>2, <2>7, <3>2, <3>3, <3>4, <3>5, <3>6, <3>7, StepTypeOK, ZenonT(30) DEF TypeOK
  <2>9. /\ \A t \in Tasks : t # Me => k'.state[t] = k.state[t] /\ k'.pc[t] = k.pc[t]
        /\ k'.state[Me] = "Blocked" /\ k'.pc[Me] = At("futex", k.now + d)
    BY <1>2, <1>4, <1>6, <2>4, <2>6, SMTT(30) DEF TypeOK
  <2>10. new.task = Me /\ new.time = k.now + d /\ k.now < k.now + d
    <3>1. k.now \in Nat
      BY <1>2, <1>3 DEF TypeOK
    <3>. QED
      BY <1>3, <2>0, <3>1 DEF new, NewTimer
  <2>11. ~Never({"wait_timeout", "kill"})
    BY <1>1, <1>11, Zenon DEF UserCall, Never
  <2>. QED
    <3>1. k'.wait_list = Enlisted(a, b)
      BY <1>6, <2>4, <2>6, Zenon
    <3>2. Armed(k.now + d)
      BY <1>6, <2>4, <2>6, <2>10, <2>11, Zenon DEF Armed
    <3>. QED
      BY <1>2, <1>4, <1>6, <1>9, <2>4, <2>6, <2>8, <2>9, <3>1, <3>2, WaitStep, SMTT(30)
<1>. QED
  BY <1>10, <1>11, Zenon

-----------------------------------------------------------------------------
(* Waking.                                                                  *)

\* s and e are the states and the events once the entries W of a are woken.
Readied(a, W, s, e) ==
    \A t \in Tasks \ {Me} :
        IF k.state[t] = "Blocked" /\ \E i \in W : k.wait_list[a][i].tcb = t
        THEN s[t] = "Ready" /\ e[t] = FutexEvent
        ELSE s[t] = k.state[t] /\ e[t] = k.event[t]

\* The caller is listed and goes back to user mode: the sleepers keep their
\* entries and their timers.
LEMMA FutexWaitFaultIInv ==
    ASSUME IInv, FutexWaitFault
    PROVE  IInv'
<1>1. PICK a \in Addrs, b \in Load.bitsets :
          /\ Len(k.wait_list[a]) < Load.entries
          /\ k' = Return(EnlistedMe(a, b))
  BY Zenon DEF FutexWaitFault, EnlistedMe
<1>2. TypeOK /\ CanRun /\ ~Never({"wait_timeout", "kill"})
  BY Zenon DEF IInv, FutexWaitFault, UserCall, Never
<1>. DEFINE L == Enlisted(a, b)
<1>0. PICK q : q = EnlistedMe(a, b)
  OBVIOUS
<1>3. /\ Me \in Tasks
      /\ IsTaskRec(q) /\ DOMAIN q = DOMAIN k
      /\ q.state = [k.state EXCEPT ![Me] = "Running"] /\ q.queue = Tail(k.queue)
      /\ q.pc = k.pc /\ q.load = k.load /\ q.event = k.event /\ q.fate = k.fate
      /\ q.now = k.now /\ q.timers = k.timers /\ q.next_timer_id = k.next_timer_id
      /\ q.word = k.word /\ q.wait_list = L
      /\ q.state[Me] = "Running"
      /\ L \in [Addrs -> Seq(Items)]
      /\ \A c \in Addrs : Len(L[c]) <= Load.entries
  <2>1. IsEnlisted(q, a, b)
    BY <1>0, <1>1, <1>2, EnlistFields, Zenon
  <2>. QED
    BY <2>1, Zenon DEF IsEnlisted
<1>4. k' = Return(q)
  BY <1>0, <1>1, Zenon
<1>5. TypeOK'
  <2>1. /\ q.event \in [Tasks -> {NoEvent, FutexEvent, SignalEvent, Timeout}]
        /\ q.word \in [Addrs -> Vals]
    BY <1>2, <1>3, Zenon DEF TypeOK
  <2>. QED
    BY <1>2, <1>3, <1>4, <2>1, ReturnTypeOK, Zenon
<1>6. /\ k'.state = [q.state EXCEPT ![Me] = "Ready"] /\ k'.pc = [k.pc EXCEPT ![Me] = User]
      /\ k'.load = k.load /\ k'.now = k.now /\ k'.timers = k.timers /\ k'.wait_list = L
  BY <1>2, <1>3, <1>4, ReturnFields, Zenon
<1>7. SleepsStay
  BY <1>2, <1>3, <1>6, SMTT(30) DEF SleepsStay, TypeOK
<1>8. SleepsAreTimed'
  BY <1>6, <1>7, SleepsStayTimed, Zenon
<1>9. WaiterIsListed'
  <2>1. /\ Item(Me, b) \in Items /\ k.wait_list[a] \in Seq(Items)
        /\ \A c \in Addrs : c # a => L[c] = k.wait_list[c]
        /\ L[a] = Append(k.wait_list[a], Item(Me, b))
    BY <1>2, <1>3, Zenon DEF TypeOK, Items, Item, Enlisted
  <2>2. /\ 1..Len(k.wait_list[a]) \subseteq 1..Len(L[a])
        /\ \A i \in 1..Len(k.wait_list[a]) : L[a][i] = k.wait_list[a][i]
    BY <2>1
  <2>3. ASSUME NEW t \in Tasks, Asleep(t, "futex")'
        PROVE  Listed(t)' # {}
    <3>1. Asleep(t, "futex")
      BY <1>7, <2>3, Zenon DEF SleepsStay, Asleep
    <3>2. PICK c \in Addrs, i \in Nat : EntryOf(t, c, i)
      BY <1>2, <3>1, ListedIsEntry, Zenon DEF IInv, WaiterIsListed
    <3>3. EntryOf(t, c, i)'
      BY <1>6, <2>1, <2>2, <3>2, Zenon DEF EntryOf
    <3>. QED
      BY <1>5, <3>3, ListedIsEntry, Zenon
  <2>. QED
    BY <2>3, Zenon DEF WaiterIsListed
<1>10. ~Never({"wait_timeout", "kill"})'
  BY <1>2, <1>6, Zenon DEF Never, Load
<1>. QED
  BY <1>5, <1>8, <1>9, <1>10, Zenon DEF IInv, EachWaitsOnce, NoPanic

\* The entries W of a are removed and their threads readied; Me, which was ready,
\* goes back to user mode or leaves.
LEMMA WakeStep ==
    ASSUME IInv, TypeOK', Me \in Tasks, k.state[Me] = "Ready",
           NEW a \in Addrs, NEW W \in SUBSET (1..Len(k.wait_list[a])),
           k'.load = k.load, k'.fate = k.fate, k'.now = k.now, k'.timers = k.timers,
           Removed(k.wait_list, k'.wait_list, a, W),
           \A t \in Tasks : t # Me => k'.pc[t] = k.pc[t],
           Readied(a, W, k'.state, k'.event),
           k'.pc[Me] = User, k'.state[Me] # "Blocked"
    PROVE  IInv'
<1>1. TypeOK
  BY Zenon DEF IInv
<1>2. /\ \A t \in Tasks : t # Me /\ k.state[t] = "Blocked"
                         /\ (\E i \in W : k.wait_list[a][i].tcb = t) =>
            k'.state[t] = "Ready" /\ k'.event[t] = FutexEvent
      /\ \A t \in Tasks : t # Me /\ k.state[t] # "Blocked" =>
            k'.state[t] = k.state[t] /\ k'.event[t] = k.event[t]
      /\ \A t \in Tasks : t # Me /\ ~(\E i \in W : k.wait_list[a][i].tcb = t) =>
            k'.state[t] = k.state[t] /\ k'.event[t] = k.event[t]
  BY Zenon DEF Readied
<1>3. SleepsStay
  <2>1. ASSUME NEW t \in Tasks, k'.state[t] = "Blocked"
        PROVE  k.state[t] = "Blocked" /\ k'.pc[t] = k.pc[t]
    BY <1>2, <2>1, Zenon
  <2>. QED
    BY <2>1, Zenon DEF SleepsStay
<1>4. PICK g \in [1..Len(k'.wait_list[a]) -> 1..Len(k.wait_list[a])] :
          /\ \A n \in 1..Len(k'.wait_list[a]) :
                g[n] \notin W /\ k'.wait_list[a][n] = k.wait_list[a][g[n]]
          /\ \A m, n \in 1..Len(k'.wait_list[a]) : g[m] = g[n] => m = n
          /\ \A i \in 1..Len(k.wait_list[a]) :
                i \in W \/ \E n \in 1..Len(k'.wait_list[a]) : g[n] = i
  BY Zenon DEF Removed
<1>5. \A c \in Addrs : c # a => k'.wait_list[c] = k.wait_list[c]
  BY Zenon DEF Removed
<1>6. WaiterIsListed'
  <2>1. ASSUME NEW t \in Tasks, Asleep(t, "futex")'
        PROVE  \E c \in Addrs : \E i \in Nat : EntryOf(t, c, i)'
    <3>1. Asleep(t, "futex") /\ t # Me
      BY <1>3, <2>1, Zenon DEF SleepsStay, Asleep
    <3>2. PICK c \in Addrs, i \in Nat : EntryOf(t, c, i)
      BY <1>1, <3>1, ListedIsEntry, Zenon DEF IInv, WaiterIsListed
    <3>3. CASE c # a
      BY <1>5, <3>2, <3>3, Zenon DEF EntryOf
    <3>4. CASE c = a
      <4>1. i \notin W
        BY <1>2, <2>1, <3>1, <3>2, <3>4, Zenon DEF EntryOf, Asleep
      <4>2. PICK n \in 1..Len(k'.wait_list[a]) : g[n] = i
        BY <1>4, <3>2, <3>4, <4>1, Zenon DEF EntryOf
      <4>3. n \in Nat /\ EntryOf(t, a, n)'
        BY <1>4, <3>2, <3>4, <4>2 DEF EntryOf
      <4>. QED
        BY <4>3, Zenon
    <3>. QED
      BY <3>3, <3>4, Zenon
  <2>. QED
    BY <2>1, ListedIsEntry, Zenon DEF WaiterIsListed
<1>7. Never({"wait_timeout", "kill"})' <=> Never({"wait_timeout", "kill"})
  BY Zenon DEF Never, Load
<1>8. NoPanic'
  BY <1>7, Zenon DEF IInv, NoPanic
<1>9. ASSUME Never({"wait_timeout", "kill"})
      PROVE  EachWaitsOnce'
  <2>1. \A c \in Addrs : \A i \in 1..Len(k.wait_list[c]) :
            /\ k.wait_list[c][i].tcb \in Tasks \ {Me}
            /\ k.state[k.wait_list[c][i].tcb] = "Blocked"
            /\ k.pc[k.wait_list[c][i].tcb].at = "futex"
    BY <1>1, <1>9, EntriesHaveTasks, ZenonT(30) DEF IInv, EachWaitsOnce, Asleep
  <2>2. \A c, d \in Addrs : \A i \in 1..Len(k.wait_list[c]), j \in 1..Len(k.wait_list[d]) :
            k.wait_list[c][i].tcb = k.wait_list[d][j].tcb => c = d /\ i = j
    BY <1>9, Zenon DEF IInv, EachWaitsOnce
  <2>3. ASSUME NEW c \in Addrs, NEW n \in 1..Len(k'.wait_list[c])
        PROVE  \E i \in 1..Len(k.wait_list[c]) :
                  /\ k'.wait_list[c][n] = k.wait_list[c][i]
                  /\ c # a => n = i
                  /\ c = a => i = g[n] /\ i \notin W
    BY <1>4, <1>5, Zenon
  <2>4. ASSUME NEW c \in Addrs, NEW d \in Addrs, NEW m \in 1..Len(k'.wait_list[c]),
               NEW n \in 1..Len(k'.wait_list[d]), k'.wait_list[c][m].tcb = k'.wait_list[d][n].tcb
        PROVE  c = d /\ m = n
    <3>1. PICK i \in 1..Len(k.wait_list[c]) :
                  /\ k'.wait_list[c][m] = k.wait_list[c][i]
                  /\ c # a => m = i
                  /\ c = a => i = g[m] /\ i \notin W
      BY ONLY <2>3, Zenon
    <3>2. PICK j \in 1..Len(k.wait_list[d]) :
                  /\ k'.wait_list[d][n] = k.wait_list[d][j]
                  /\ d # a => n = j
                  /\ d = a => j = g[n] /\ j \notin W
      BY ONLY <2>3, Zenon
    <3>3. c = d /\ i = j
      BY <2>2, <2>4, <3>1, <3>2, SMTT(30)
    <3>. QED
      BY <1>4, <3>1, <3>2, <3>3
  <2>5. \A c \in Addrs : \A n \in 1..Len(k'.wait_list[c]) :
            Asleep(k.wait_list[c][n].tcb, "futex")'
    <3>. TAKE c \in Addrs
    <3>. TAKE n \in 1..Len(k'.wait_list[c])
    <3>1. PICK i \in 1..Len(k.wait_list[c]) :
                  /\ k'.wait_list[c][n] = k.wait_list[c][i]
                  /\ c = a => i \notin W
      BY <2>3, ZenonT(30)
    <3>2. PICK t : t = k.wait_list[c][i].tcb
      BY Zenon
    <3>3. t \in Tasks /\ t # Me /\ k.state[t] = "Blocked" /\ k.pc[t].at = "futex"
      BY <2>1, <3>2, Zenon
    <3>4. ~(\E j \in W : k.wait_list[a][j].tcb = t)
      BY <2>2, <3>1, <3>2
    <3>5. k'.state[t] = "Blocked" /\ k'.pc[t].at = "futex"
      BY <1>2, <3>3, <3>4, Zenon
    <3>. QED
      BY <3>1, <3>2, <3>5, Zenon DEF Asleep
  <2>6. \A e \in k'.timers : Asleep(e.task, "nanosleep")'
    <3>. TAKE e \in k'.timers
    <3>1. e.task \in Tasks /\ k.state[e.task] = "Blocked" /\ k.pc[e.task].at = "nanosleep"
      BY <1>1, <1>9, Zenon DEF IInv, TypeOK, EachWaitsOnce, Asleep
    <3>2. e.task # Me /\ ~(\E j \in W : k.wait_list[a][j].tcb = e.task)
      BY <2>1, <3>1, Zenon
    <3>. QED
      BY <1>2, <3>1, <3>2, Zenon DEF Asleep
  <2>7. \A e, f \in k'.timers : e.task = f.task => e = f
    BY <1>9, Zenon DEF IInv, EachWaitsOnce
  <2>8. ASSUME NEW t \in Tasks, k'.state[t] = "Ready"
        PROVE  /\ k'.pc[t].at = "futex" => k'.event[t] = FutexEvent
               /\ k'.pc[t].at = "nanosleep" => k'.event[t] = Timeout
    <3>1. CASE t = Me
      BY <3>1, SMTT(30) DEF User
    <3>2. CASE t # Me /\ k.state[t] = "Blocked" /\ \E i \in W : k.wait_list[a][i].tcb = t
      <4>1. k.pc[t].at = "futex"
        BY <2>1, <3>2, SMTT(30)
      <4>. QED
        BY <1>2, <3>2, <4>1, Zenon
    <3>3. CASE t # Me /\ ~(k.state[t] = "Blocked" /\ \E i \in W : k.wait_list[a][i].tcb = t)
      BY <1>2, <1>9, <2>8, <3>3, SMTT(30) DEF IInv, EachWaitsOnce
    <3>. QED
      BY <3>1, <3>2, <3>3, Zenon
  <2>. QED
    BY <2>4, <2>5, <2>6, <2>7, <2>8, ZenonT(30) DEF EachWaitsOnce
<1>10. EachWaitsOnce'
  BY <1>7, <1>9, Zenon DEF EachWaitsOnce
<1>11. SleepsAreTimed'
  BY <1>3, SleepsStayTimed, Zenon
<1>. QED
  BY <1>6, <1>8, <1>10, <1>11, Zenon DEF IInv

\* What wake does, called by Me.
LEMMA WakeFields ==
    ASSUME TypeOK, CanRun, NEW q, IsTaskRec(q), DOMAIN q = DOMAIN k,
           q.state = [k.state EXCEPT ![Me] = "Running"], q.event = k.event,
           q.wait_list = k.wait_list, NEW a \in Addrs, NEW num, NEW mask,
           NEW r, r = wake(q, a, num, mask), NEW W, W = to_wake(q, a, num, mask)
    PROVE  /\ IsTaskRec(r) /\ DOMAIN r = DOMAIN k /\ r.state[Me] = "Running"
           /\ r.pc = q.pc /\ r.load = q.load /\ r.fate = q.fate /\ r.now = q.now
           /\ r.timers = q.timers /\ r.next_timer_id = q.next_timer_id /\ r.word = q.word
           /\ r.event \in [Tasks -> {NoEvent, FutexEvent, SignalEvent, Timeout}]
           /\ r.wait_list \in [Addrs -> Seq(Items)]
           /\ \A c \in Addrs : Len(r.wait_list[c]) <= Load.entries
           /\ W \in SUBSET (1..Len(k.wait_list[a]))
           /\ Removed(k.wait_list, r.wait_list, a, W)
           /\ Readied(a, W, r.state, r.event)
<1>1. DOMAIN q = {"load", "state", "event", "queue", "pc", "fate", "now", "timers",
                  "next_timer_id", "word", "wait_list"}
  BY KernelIsTaskRec, Zenon
<1>2. Me \in Tasks
  BY FetchedFields, Zenon
<1>3. AreLists(q.wait_list, Load.bitsets)
  BY Zenon DEF TypeOK, AreLists, Items
<1>4. W \in SUBSET (1..Len(q.wait_list[a])) /\ WakesEntries(q, a, W, r)
  <2>1. "wait_list" \in DOMAIN q
    BY <1>1, Zenon
  <2>. QED
    BY <1>3, <2>1, WakeEntries, Zenon
<1>5. IsTaskRec(r) /\ DOMAIN r = DOMAIN k
      /\ r.pc = q.pc /\ r.load = q.load /\ r.fate = q.fate /\ r.now = q.now
      /\ r.timers = q.timers /\ r.next_timer_id = q.next_timer_id /\ r.word = q.word
  <2>1. r = [q EXCEPT !.state = r.state, !.event = r.event, !.queue = r.queue,
                      !.wait_list = r.wait_list]
    BY <1>4, Zenon DEF WakesEntries
  <2>2. IsTaskRec(r)
    BY <1>4, Zenon DEF WakesEntries
  <2>. QED
    BY <1>1, <2>1, <2>2, ZenonT(30)
<1>6. /\ \A t \in Tasks : q.state[t] = "Blocked" /\ (\E i \in W : k.wait_list[a][i].tcb = t) =>
             r.state[t] = "Ready" /\ r.event[t] = FutexEvent
      /\ \A t \in Tasks : q.state[t] # "Blocked" \/ ~(\E i \in W : k.wait_list[a][i].tcb = t) =>
             r.state[t] = q.state[t] /\ r.event[t] = k.event[t]
  BY <1>4 DEF WakesEntries
<1>7. q.state[Me] = "Running" /\ \A t \in Tasks : t # Me => q.state[t] = k.state[t]
  BY <1>2, Zenon DEF TypeOK
<1>8. r.state[Me] = "Running"
  BY <1>2, <1>6, <1>7, Zenon
<1>9. r.event \in [Tasks -> {NoEvent, FutexEvent, SignalEvent, Timeout}]
  <2>1. \A t \in Tasks : r.event[t] \in {NoEvent, FutexEvent, SignalEvent, Timeout}
    BY <1>6, Zenon DEF TypeOK
  <2>2. r.event = [t \in Tasks |-> r.event[t]]
    BY <1>5, Zenon DEF IsTaskRec
  <2>. QED
    BY <2>1, <2>2, Zenon
<1>10. r.wait_list = Without(k.wait_list, a, W)
  BY <1>4, Zenon DEF WakesEntries
<1>11. /\ AreLists(r.wait_list, Load.bitsets)
       /\ Len(r.wait_list[a]) <= Len(k.wait_list[a])
       /\ Removed(k.wait_list, r.wait_list, a, W)
  BY <1>3, <1>4, <1>10, PickedRemoves, SMTT(30)
<1>12. r.wait_list \in [Addrs -> Seq(Items)]
  BY <1>11, Zenon DEF AreLists, Items
<1>13. \A c \in Addrs : Len(r.wait_list[c]) <= Load.entries
  <2>1. \A c \in Addrs : Len(k.wait_list[c]) <= Load.entries /\ Len(k.wait_list[c]) \in Nat
    BY DEF TypeOK
  <2>2. Load.entries \in Nat
    BY FutexAssumption, Zenon DEF TypeOK, Load, IsWorkload
  <2>3. Len(r.wait_list[a]) \in Nat
    BY <1>12
  <2>4. \A c \in Addrs : c # a => r.wait_list[c] = k.wait_list[c]
    BY <1>11, Zenon DEF Removed
  <2>5. Len(r.wait_list[a]) <= Load.entries
    BY <1>11, <2>1, <2>2, <2>3, SMTT(30)
  <2>. QED
    BY <2>1, <2>4, <2>5, Zenon
<1>14. Readied(a, W, r.state, r.event)
  BY <1>6, <1>7 DEF Readied
<1>. QED
  BY <1>4, <1>5, <1>8, <1>9, <1>11, <1>12, <1>13, <1>14, Zenon

LEMMA FutexWakeIInv ==
    ASSUME IInv, FutexWake \/ FutexWakeBitset
    PROVE  IInv'
<1>1. PICK a \in Addrs, n \in Nums : k' = Return(wake(Fetched, a, n, MatchAny))
  BY Zenon DEF FutexWake, FutexWakeBitset
<1>2. TypeOK /\ CanRun
  BY Zenon DEF IInv, FutexWake, FutexWakeBitset, UserCall
<1>3. /\ Me \in Tasks /\ IsTaskRec(Fetched) /\ DOMAIN Fetched = DOMAIN k
      /\ Fetched = [k EXCEPT !.state = [k.state EXCEPT ![Me] = "Running"],
                             !.queue = Tail(k.queue)]
      /\ Fetched.state = [k.state EXCEPT ![Me] = "Running"]
      /\ Fetched.event = k.event
      /\ Fetched.wait_list = k.wait_list
  BY <1>2, FetchedFields, Zenon
<1>4. /\ Fetched.pc = k.pc /\ Fetched.load = k.load /\ Fetched.fate = k.fate
      /\ Fetched.now = k.now /\ Fetched.timers = k.timers
      /\ Fetched.next_timer_id = k.next_timer_id /\ Fetched.word = k.word
  BY <1>2, <1>3, KernelIsTaskRec, Zenon
<1>5. /\ Me \in Tasks /\ IsTaskRec(Fetched) /\ DOMAIN Fetched = DOMAIN k
      /\ Fetched.state = [k.state EXCEPT ![Me] = "Running"]
      /\ Fetched.event = k.event
      /\ Fetched.wait_list = k.wait_list
  BY <1>3, Zenon
<1>6. PICK r, W : r = wake(Fetched, a, n, MatchAny) /\ W = to_wake(Fetched, a, n, MatchAny)
  BY Zenon
<1>7. /\ IsTaskRec(r) /\ DOMAIN r = DOMAIN k /\ r.state[Me] = "Running"
      /\ r.pc = Fetched.pc /\ r.load = Fetched.load /\ r.fate = Fetched.fate
      /\ r.now = Fetched.now /\ r.timers = Fetched.timers
      /\ r.next_timer_id = Fetched.next_timer_id /\ r.word = Fetched.word
      /\ r.event \in [Tasks -> {NoEvent, FutexEvent, SignalEvent, Timeout}]
      /\ r.wait_list \in [Addrs -> Seq(Items)]
      /\ \A c \in Addrs : Len(r.wait_list[c]) <= Load.entries
      /\ W \in SUBSET (1..Len(k.wait_list[a]))
      /\ Removed(k.wait_list, r.wait_list, a, W)
      /\ Readied(a, W, r.state, r.event)
  BY ONLY <1>2, <1>5, <1>6, WakeFields, a \in Addrs, SMTT(30)
<1>8. /\ r.pc = k.pc /\ r.load = k.load /\ r.fate = k.fate /\ r.now = k.now
      /\ r.timers = k.timers /\ r.next_timer_id = k.next_timer_id /\ r.word = k.word
  BY <1>4, <1>7, Zenon
<1>9. k' = Return(r)
  BY <1>1, <1>6, Zenon
<1>10. /\ k'.state = [r.state EXCEPT ![Me] = "Ready"]
       /\ k'.pc = [k.pc EXCEPT ![Me] = User]
       /\ k'.load = r.load /\ k'.event = r.event /\ k'.fate = r.fate /\ k'.now = r.now
       /\ k'.timers = r.timers /\ k'.wait_list = r.wait_list
  BY <1>2, <1>8, <1>7, <1>9, ReturnFields, Zenon
<1>11. TypeOK'
  <2>1. r.word \in [Addrs -> Vals]
    BY <1>2, <1>8, Zenon DEF TypeOK
  <2>. QED
    BY <1>2, <1>8, <1>7, <1>9, <2>1, ReturnTypeOK, Zenon
<1>12. /\ \A t \in Tasks : t # Me => k'.state[t] = r.state[t] /\ k'.pc[t] = k.pc[t]
       /\ k'.state[Me] = "Ready" /\ k'.pc[Me] = User
  <2>1. r.state \in [Tasks -> TaskState]
    BY <1>7, Zenon DEF IsTaskRec
  <2>. QED
    BY <1>2, <1>3, <1>10, <2>1, Zenon DEF TypeOK
<1>13. k.state[Me] = "Ready"
  BY <1>2, Zenon DEF CanRun
<1>14. Readied(a, W, k'.state, k'.event)
  BY <1>7, <1>10, <1>12, SMTT(30) DEF Readied
<1>15. /\ k'.load = k.load /\ k'.fate = k.fate /\ k'.now = k.now /\ k'.timers = k.timers
       /\ Removed(k.wait_list, k'.wait_list, a, W) /\ W \in SUBSET (1..Len(k.wait_list[a]))
       /\ k'.state[Me] # "Blocked"
  BY <1>8, <1>7, <1>10, <1>12, Zenon
<1>. QED
  BY <1>3, <1>11, <1>12, <1>13, <1>14, <1>15, WakeStep, Zenon

\* TCB::exit readies the one thread it wakes, and its own is gone.
LEMMA ExitIInv ==
    ASSUME IInv, Exit
    PROVE  IInv'
<1>1. PICK a \in Addrs :
          LET woken == {k.wait_list[a][i].tcb : i \in to_wake(k, a, 1, MatchAny)}
          IN  k' = IF Me \in woken
                   THEN Panic(Fetched)
                   ELSE mark_exited(wake([Fetched EXCEPT !.word[a] = 0], a, 1, MatchAny), {Me})
  BY Zenon DEF Exit
<1>2. TypeOK /\ CanRun /\ k.pc[Me] = User /\ k.state[Me] = "Ready" /\ k.fate = "up"
  BY Zenon DEF IInv, Exit, UserCall, CanRun
<1>3. /\ Me \in Tasks /\ IsTaskRec(Fetched) /\ DOMAIN Fetched = DOMAIN k
      /\ Fetched = [k EXCEPT !.state = [k.state EXCEPT ![Me] = "Running"],
                             !.queue = Tail(k.queue)]
      /\ Fetched.state = [k.state EXCEPT ![Me] = "Running"]
      /\ Fetched.queue = Tail(k.queue)
      /\ Fetched.event = k.event
      /\ Fetched.wait_list = k.wait_list
  BY <1>2, FetchedFields, Zenon
<1>4. /\ Fetched.pc = k.pc /\ Fetched.load = k.load /\ Fetched.fate = k.fate
      /\ Fetched.now = k.now /\ Fetched.timers = k.timers
      /\ Fetched.next_timer_id = k.next_timer_id /\ Fetched.word = k.word
  BY <1>2, <1>3, KernelIsTaskRec, Zenon
<1>5. DOMAIN k = {"load", "state", "event", "queue", "pc", "fate", "now", "timers",
                  "next_timer_id", "word", "wait_list"}
  BY <1>2, KernelIsTaskRec, Zenon
<1>6. CASE \E i \in to_wake(k, a, 1, MatchAny) : k.wait_list[a][i].tcb = Me
  <2>1. k' = Panic(Fetched)
    BY <1>1, <1>6, Zenon
  <2>2. /\ IsKernel(k') /\ k'.state = Fetched.state /\ k'.queue = Fetched.queue
        /\ k'.event = k.event /\ k'.pc = k.pc /\ k'.load = k.load /\ k'.fate = "panic"
        /\ k'.now = k.now /\ k'.timers = k.timers /\ k'.next_timer_id = k.next_timer_id
        /\ k'.word = k.word /\ k'.wait_list = k.wait_list
    BY <1>3, <1>4, <1>5, <2>1, Zenon DEF Panic, IsTaskRec, IsKernel
  <2>3. TypeOK'
    <3>1. k'.state \in [Tasks -> TaskState] /\ k'.queue \in Seq(Tasks)
      BY <1>3, <2>2, Zenon DEF IsTaskRec
    <3>. QED
      BY <1>2, <2>2, <3>1, StepTypeOK, Zenon DEF TypeOK
  <2>4. ~Never({"wait_timeout", "kill"})
    <3>1. PICK i \in 1..Len(k.wait_list[a]) : k.wait_list[a][i].tcb = Me
      BY <1>6, Zenon DEF to_wake
    <3>. QED
      BY <1>2, <3>1, Zenon DEF IInv, EachWaitsOnce, Asleep
  <2>5. k'.state[Me] = "Running" /\ \A t \in Tasks : t # Me => k'.state[t] = k.state[t]
    BY <1>2, <1>3, <2>2 DEF TypeOK
  <2>. QED
    BY <1>2, <1>3, <2>2, <2>3, <2>4, <2>5, QuietStep, Zenon
<1>7. CASE ~\E i \in to_wake(k, a, 1, MatchAny) : k.wait_list[a][i].tcb = Me
  <2>. DEFINE q == [Fetched EXCEPT !.word[a] = 0]
  <2>1. k' = mark_exited(wake(q, a, 1, MatchAny), {Me})
    BY <1>1, <1>7, Zenon
  <2>2. /\ IsTaskRec(q) /\ DOMAIN q = DOMAIN k
        /\ q.state = [k.state EXCEPT ![Me] = "Running"] /\ q.queue = Tail(k.queue)
        /\ q.pc = k.pc /\ q.load = k.load /\ q.event = k.event /\ q.fate = k.fate
        /\ q.now = k.now /\ q.timers = k.timers /\ q.next_timer_id = k.next_timer_id
        /\ q.word = [k.word EXCEPT ![a] = 0] /\ q.wait_list = k.wait_list
    <3>1. q = [Fetched EXCEPT !.word = [Fetched.word EXCEPT ![a] = 0]]
      BY <1>3, Zenon DEF IsTaskRec
    <3>2. q = [k EXCEPT !.state = [k.state EXCEPT ![Me] = "Running"],
                        !.queue = Tail(k.queue), !.word = [k.word EXCEPT ![a] = 0]]
      BY <1>2, <1>3, <3>1, KernelIsTaskRec, Zenon DEF IsTaskRec
    <3>. HIDE DEF q
    <3>3. /\ q = [x \in DOMAIN k |-> q[x]]
          /\ q.state = [k.state EXCEPT ![Me] = "Running"] /\ q.queue = Tail(k.queue)
          /\ q.pc = k.pc /\ q.load = k.load /\ q.event = k.event /\ q.fate = k.fate
          /\ q.now = k.now /\ q.timers = k.timers /\ q.next_timer_id = k.next_timer_id
          /\ q.word = [k.word EXCEPT ![a] = 0] /\ q.wait_list = k.wait_list
      BY <1>2, <3>2, KernelIsTaskRec, Zenon DEF IsTaskRec
    <3>4. IsTaskRec(q)
      BY <1>3, <3>3, SameTaskRec, Zenon
    <3>. QED
      BY <3>3, <3>4, Zenon
  <2>. HIDE DEF q
  <2>3. PICK r, W : r = wake(q, a, 1, MatchAny) /\ W = to_wake(q, a, 1, MatchAny)
    BY Zenon
  <2>4. /\ IsTaskRec(r) /\ DOMAIN r = DOMAIN k /\ r.state[Me] = "Running"
        /\ r.pc = q.pc /\ r.load = q.load /\ r.fate = q.fate /\ r.now = q.now
        /\ r.timers = q.timers /\ r.next_timer_id = q.next_timer_id /\ r.word = q.word
        /\ r.event \in [Tasks -> {NoEvent, FutexEvent, SignalEvent, Timeout}]
        /\ r.wait_list \in [Addrs -> Seq(Items)]
        /\ \A c \in Addrs : Len(r.wait_list[c]) <= Load.entries
        /\ W \in SUBSET (1..Len(k.wait_list[a]))
        /\ Removed(k.wait_list, r.wait_list, a, W)
        /\ Readied(a, W, r.state, r.event)
    BY ONLY <1>2, <2>2, <2>3, WakeFields, a \in Addrs, SMTT(30)
  <2>5. /\ IsKernel(k')
        /\ k'.state = [t \in Tasks |-> IF t \in {Me} THEN "Exited" ELSE r.state[t]]
        /\ k'.queue = r.queue /\ k'.event = r.event /\ k'.pc = k.pc /\ k'.load = k.load
        /\ k'.fate = k.fate /\ k'.now = k.now /\ k'.timers = k.timers
        /\ k'.next_timer_id = k.next_timer_id /\ k'.word = [k.word EXCEPT ![a] = 0]
        /\ k'.wait_list = r.wait_list
    <3>1. k' = [r EXCEPT !.state = [t \in Tasks |-> IF t \in {Me} THEN "Exited" ELSE r.state[t]]]
      BY <2>1, <2>3, <2>4, Zenon DEF mark_exited, IsTaskRec
    <3>. QED
      BY <1>5, <2>2, <2>4, <3>1, Zenon DEF IsTaskRec, IsKernel
  <2>6. TypeOK'
    <3>1. k'.state \in [Tasks -> TaskState] /\ k'.queue \in Seq(Tasks)
      BY <2>4, <2>5, SMTT(30) DEF IsTaskRec, TaskState
    <3>2. k'.word \in [Addrs -> Vals]
      BY <1>2, <2>5 DEF TypeOK, Vals
    <3>. QED
      BY <1>2, <2>4, <2>5, <3>1, <3>2, StepTypeOK, ZenonT(30) DEF TypeOK
  <2>7. /\ \A t \in Tasks : t # Me => k'.state[t] = r.state[t]
        /\ k'.state[Me] = "Exited"
    BY <1>3, <2>5, Zenon
  <2>8. Readied(a, W, k'.state, k'.event)
    BY <2>4, <2>5, <2>7, SMTT(30) DEF Readied
  <2>. QED
    BY <1>2, <1>3, <2>4, <2>5, <2>6, <2>7, <2>8, WakeStep, Zenon
<1>. QED
  BY <1>6, <1>7, Zenon

\* A signal readies its thread, whatever list or timer it leaves behind.
LEMMA KillIInv ==
    ASSUME IInv, Kill
    PROVE  IInv'
<1>1. PICK t \in Tasks : k' = Return(wakeup_task(Fetched, t, SignalEvent))
  BY Zenon DEF Kill
<1>2. TypeOK /\ CanRun /\ ~Never({"wait_timeout", "kill"})
  BY Zenon DEF IInv, Kill, UserCall, Never
<1>3. /\ Me \in Tasks /\ IsTaskRec(Fetched) /\ DOMAIN Fetched = DOMAIN k
      /\ Fetched = [k EXCEPT !.state = [k.state EXCEPT ![Me] = "Running"],
                             !.queue = Tail(k.queue)]
      /\ Fetched.state = [k.state EXCEPT ![Me] = "Running"]
      /\ Fetched.event = k.event
      /\ Fetched.wait_list = k.wait_list
  BY <1>2, FetchedFields, Zenon
<1>4. /\ Fetched.pc = k.pc /\ Fetched.load = k.load /\ Fetched.fate = k.fate
      /\ Fetched.now = k.now /\ Fetched.timers = k.timers
      /\ Fetched.next_timer_id = k.next_timer_id /\ Fetched.word = k.word
  BY <1>2, <1>3, KernelIsTaskRec, Zenon
<1>5. PICK r : r = wakeup_task(Fetched, t, SignalEvent)
  BY Zenon
<1>6. /\ IsTaskRec(r)
      /\ OnlyTasks(Fetched, r)
      /\ Fetched.state[t] # "Blocked" => r = Fetched
      /\ Fetched.state[t] = "Blocked" =>
            /\ r.state = [Fetched.state EXCEPT ![t] = "Ready"]
            /\ r.event = [Fetched.event EXCEPT ![t] = SignalEvent]
            /\ r.queue = Append(Fetched.queue, t)
  <2>1. IsTaskRec(Fetched)
    BY <1>3, Zenon
  <2>. QED
    BY ONLY <1>5, <2>1, WakeupTask, t \in Tasks
<1>7. /\ DOMAIN r = DOMAIN k
      /\ r.pc = k.pc /\ r.load = k.load /\ r.fate = k.fate /\ r.now = k.now
      /\ r.timers = k.timers /\ r.next_timer_id = k.next_timer_id /\ r.word = k.word
      /\ r.wait_list = k.wait_list
  BY <1>2, <1>3, <1>4, <1>6, KernelIsTaskRec, ZenonT(30) DEF OnlyTasks
<1>8. r.event \in [Tasks -> {NoEvent, FutexEvent, SignalEvent, Timeout}]
  <2>1. k.event \in [Tasks -> {NoEvent, FutexEvent, SignalEvent, Timeout}]
    BY <1>2, Zenon DEF TypeOK
  <2>2. r.event = k.event \/ r.event = [k.event EXCEPT ![t] = SignalEvent]
    BY <1>3, <1>6, Zenon
  <2>. QED
    BY <2>1, <2>2, Zenon
<1>9. r.state[Me] = "Running" /\ \A u \in Tasks : r.state[u] = "Blocked" => k.state[u] = "Blocked"
  <2>1. k.state \in [Tasks -> TaskState] /\ Fetched.state \in [Tasks -> TaskState]
    BY <1>2, <1>3, Zenon DEF TypeOK, IsTaskRec
  <2>2. r.state = Fetched.state
        \/ (Fetched.state[t] = "Blocked" /\ r.state = [Fetched.state EXCEPT ![t] = "Ready"])
    BY <1>6, Zenon
  <2>3. Fetched.state[Me] = "Running" /\ \A u \in Tasks : u # Me => Fetched.state[u] = k.state[u]
    BY <1>3, <2>1, Zenon
  <2>. QED
    BY <1>3, <2>1, <2>2, <2>3
<1>10. k' = Return(r)
  BY <1>1, <1>5, Zenon
<1>11. /\ k'.state = [r.state EXCEPT ![Me] = "Ready"]
       /\ k'.pc = [k.pc EXCEPT ![Me] = User]
       /\ k'.load = r.load /\ k'.event = r.event /\ k'.fate = r.fate /\ k'.now = r.now
       /\ k'.timers = r.timers /\ k'.wait_list = r.wait_list
  BY <1>2, <1>6, <1>7, <1>9, <1>10, ReturnFields, Zenon
<1>12. TypeOK'
  <2>1. /\ r.word \in [Addrs -> Vals]
        /\ r.wait_list \in [Addrs -> Seq(Items)]
        /\ \A b \in Addrs : Len(r.wait_list[b]) <= Load.entries
    BY <1>2, <1>7, Zenon DEF TypeOK
  <2>. QED
    BY <1>2, <1>6, <1>7, <1>8, <1>9, <1>10, <2>1, ReturnTypeOK, Zenon
<1>13. SleepsStay
  <2>1. r.state \in [Tasks -> TaskState] /\ k.pc \in [Tasks -> Places]
    BY <1>2, <1>6, Zenon DEF IsTaskRec, TypeOK
  <2>2. ASSUME NEW u \in Tasks, k'.state[u] = "Blocked"
        PROVE  k.state[u] = "Blocked" /\ k'.pc[u] = k.pc[u]
    <3>1. u # Me
      BY <1>3, <1>11, <2>1, <2>2, Zenon
    <3>. QED
      BY <1>3, <1>9, <1>11, <2>1, <2>2, <3>1, SMTT(30)
  <2>. QED
    BY <2>2, Zenon DEF SleepsStay
<1>14. SleepsAreTimed' /\ WaiterIsListed'
  BY <1>7, <1>11, <1>12, <1>13, SleepsStayTimed, WaitersStayListed, Zenon
<1>15. ~Never({"wait_timeout", "kill"})'
  BY <1>2, <1>7, <1>11, Zenon DEF Never, Load
<1>. QED
  BY <1>12, <1>14, <1>15, Zenon DEF IInv, EachWaitsOnce, NoPanic

\* The lists after requeue: those of a and a2 with the first n entries of the one
\* at the end of the other.
Requeued(L, a, a2, n) ==
    LET rest == [L EXCEPT ![a] = SubSeq(L[a], n + 1, Len(L[a]))]
    IN  [rest EXCEPT ![a2] = @ \o SubSeq(L[a], 1, n)]

\* Every entry is still there, none is new, and none was copied.
Rearranged(L, M) ==
    /\ \A c \in Addrs : \A i \in 1..Len(L[c]) :
          \E d \in Addrs : \E j \in 1..Len(M[d]) : M[d][j] = L[c][i]
    /\ \A d \in Addrs : \A j \in 1..Len(M[d]) :
          \E c \in Addrs : \E i \in 1..Len(L[c]) : M[d][j] = L[c][i]
    /\ (\A c, d \in Addrs : \A i \in 1..Len(L[c]), j \in 1..Len(L[d]) :
           L[c][i].tcb = L[d][j].tcb => c = d /\ i = j)
       => \A c, d \in Addrs : \A i \in 1..Len(M[c]), j \in 1..Len(M[d]) :
             M[c][i].tcb = M[d][j].tcb => c = d /\ i = j

\* Futex::requeue moves entries: it neither loses nor duplicates one.
LEMMA RequeueRearranges ==
    ASSUME NEW X, NEW L \in [Addrs -> Seq(X)], NEW a \in Addrs, NEW a2 \in Addrs,
           NEW n \in Nat, n <= Len(L[a]), NEW M, M = Requeued(L, a, a2, n)
    PROVE  /\ M \in [Addrs -> Seq(X)]
           /\ \A c \in Addrs : c # a2 => Len(M[c]) <= Len(L[c])
           /\ Rearranged(L, M)
<1>. DEFINE l == L[a]
            h == SubSeq(l, 1, n)
            s == SubSeq(l, n + 1, Len(l))
<1>1. l \in Seq(X) /\ Len(l) \in Nat
  OBVIOUS
<1>2. h \in Seq(X) /\ Len(h) = n /\ \A i \in 1..n : h[i] = l[i]
  <2>1. \A i \in 1..n : l[i] \in X
    BY <1>1
  <2>. HIDE DEF l
  <2>2. /\ SubSeq(l, 1, n) \in Seq(X)
        /\ Len(SubSeq(l, 1, n)) = IF 1 <= n THEN n - 1 + 1 ELSE 0
        /\ \A i \in 1..(n - 1 + 1) : SubSeq(l, 1, n)[i] = l[1 + i - 1]
    BY <1>1, <2>1
  <2>. QED
    BY <2>2
<1>3. s \in Seq(X) /\ Len(s) = Len(l) - n /\ \A i \in 1..(Len(l) - n) : s[i] = l[i + n]
  <2>1. \A i \in (n + 1)..Len(l) : l[i] \in X
    BY <1>1
  <2>. HIDE DEF l
  <2>2. /\ SubSeq(l, n + 1, Len(l)) \in Seq(X)
        /\ Len(SubSeq(l, n + 1, Len(l)))
             = IF n + 1 <= Len(l) THEN Len(l) - (n + 1) + 1 ELSE 0
        /\ \A i \in 1..(Len(l) - (n + 1) + 1) :
              SubSeq(l, n + 1, Len(l))[i] = l[n + 1 + i - 1]
    BY <1>1, <2>1
  <2>3. n <= Len(l)
    BY Zenon DEF l
  <2>4. Len(s) = Len(l) - n
    BY <1>1, <2>2, <2>3
  <2>5. ASSUME NEW i \in 1..(Len(l) - n)
        PROVE  s[i] = l[i + n]
    <3>1. i \in 1..(Len(l) - (n + 1) + 1) /\ n + 1 + i - 1 = i + n
      BY <1>1, <2>3
    <3>. QED
      BY <2>2, <3>1, Zenon
  <2>. QED
    BY <2>2, <2>4, <2>5, Zenon
<1>. DEFINE b == IF a = a2 THEN s ELSE L[a2]
<1>4. b \in Seq(X) /\ Len(b) \in Nat
  BY <1>3
<1>5. M = [[L EXCEPT ![a] = s] EXCEPT ![a2] = b \o h]
  BY Zenon DEF Requeued
<1>6. /\ b \o h \in Seq(X)
      /\ Len(b \o h) = Len(b) + n
      /\ \A i \in 1..(Len(b) + n) : (b \o h)[i] = IF i <= Len(b) THEN b[i] ELSE h[i - Len(b)]
  <2>1. h \in Seq(X) /\ Len(h) = n
    BY <1>2, Zenon
  <2>. HIDE DEF b, h
  <2>2. /\ b \o h \in Seq(X)
        /\ Len(b \o h) = Len(b) + Len(h)
        /\ \A i \in 1..Len(b) : (b \o h)[i] = b[i]
        /\ \A i \in 1..Len(h) : (b \o h)[Len(b) + i] = h[i]
    <3>1. PICK u, v, m : u = b /\ v = h /\ m = Len(b)
      BY Zenon
    <3>2. u \in Seq(X) /\ v \in Seq(X)
      BY <1>4, <2>1, <3>1, Zenon
    <3>3. /\ u \o v \in Seq(X)
          /\ Len(u \o v) = Len(u) + Len(v)
          /\ \A i \in 1..Len(u) : (u \o v)[i] = u[i]
      BY ONLY <3>2
    <3>4. \A i \in 1..Len(v) : (u \o v)[m + i] = v[i]
      BY <3>1, <3>2
    <3>. QED
      BY <3>1, <3>3, <3>4, Zenon
  <2>3. ASSUME NEW i \in 1..(Len(b) + n), ~(i <= Len(b))
        PROVE  (b \o h)[i] = h[i - Len(b)]
    <3>1. i - Len(b) \in 1..Len(h) /\ Len(b) + (i - Len(b)) = i
      BY <1>4, <2>1, <2>3
    <3>. QED
      BY <2>2, <3>1, Zenon
  <2>4. \A i \in 1..(Len(b) + n) : i <= Len(b) => (b \o h)[i] = b[i]
    BY <1>4, <2>2
  <2>. QED
    BY <2>1, <2>2, <2>3, <2>4, Zenon
<1>7. /\ M[a2] = b \o h
      /\ a # a2 => M[a] = s
      /\ \A c \in Addrs : c # a /\ c # a2 => M[c] = L[c]
  BY <1>5, Zenon
<1>8. M \in [Addrs -> Seq(X)]
  BY <1>3, <1>5, <1>6, Zenon
<1>9. /\ a = a2 => b = s
      /\ a # a2 => b = L[a2]
  BY Zenon
<1>. HIDE DEF b, h, s
\* Where the entry now at j of c was.
<1>. DEFINE from(c, j) == IF c = a2 /\ j > Len(b) THEN <<a, j - Len(b)>>
                          ELSE IF c = a THEN <<a, j + n>>
                          ELSE <<c, j>>
<1>10. ASSUME NEW c \in Addrs, NEW j \in 1..Len(M[c])
       PROVE  \E i \in 1..Len(L[from(c, j)[1]]) :
                 /\ from(c, j)[1] \in Addrs /\ from(c, j)[2] = i
                 /\ M[c][j] = L[from(c, j)[1]][i]
  <2>1. CASE c = a2 /\ j > Len(b)
    <3>1. from(c, j) = <<a, j - Len(b)>>
      BY <2>1, Zenon
    <3>2. j - Len(b) \in 1..n /\ j \in 1..(Len(b) + n)
      BY <1>4, <1>6, <1>7, <2>1, SMTT(30)
    <3>3. M[c][j] = l[j - Len(b)]
      BY <1>2, <1>4, <1>6, <1>7, <2>1, <3>2, SMTT(30)
    <3>4. j - Len(b) \in 1..Len(L[a])
      BY <1>1, <3>2
    <3>. QED
      BY <3>1, <3>3, <3>4, Zenon
  <2>2. CASE ~(c = a2 /\ j > Len(b)) /\ c = a
    <3>1. from(c, j) = <<a, j + n>>
      BY <2>2, Zenon
    <3>2. j \in 1..(Len(l) - n) /\ M[c][j] = s[j]
      <4>1. CASE a = a2
        <5>1. j <= Len(b) /\ b = s /\ j \in 1..(Len(b) + n)
          BY <1>4, <1>6, <1>7, <1>9, <2>2, <4>1, SMTT(30)
        <5>. QED
          BY <1>1, <1>3, <1>6, <1>7, <2>2, <4>1, <5>1, SMTT(30)
      <4>2. CASE a # a2
        BY <1>3, <1>7, <2>2, <4>2, ZenonT(30)
      <4>. QED
        BY <4>1, <4>2, Zenon
    <3>3. M[c][j] = l[j + n] /\ j + n \in 1..Len(l)
      BY <1>1, <1>3, <3>2
    <3>. QED
      BY <3>1, <3>3, Zenon
  <2>3. CASE ~(c = a2 /\ j > Len(b)) /\ c # a
    <3>1. from(c, j) = <<c, j>>
      BY <2>3, Zenon
    <3>2. j \in 1..Len(L[c]) /\ M[c][j] = L[c][j]
      <4>1. CASE c = a2
        <5>1. j <= Len(b) /\ b = L[c] /\ j \in 1..(Len(b) + n)
          BY <1>4, <1>6, <1>7, <1>9, <2>3, <4>1, SMTT(30)
        <5>. QED
          BY <1>4, <1>6, <1>7, <4>1, <5>1, SMTT(30)
      <4>2. CASE c # a2
        BY <1>7, <2>3, <4>2, Zenon
      <4>. QED
        BY <4>1, <4>2, Zenon
    <3>. QED
      BY <3>1, <3>2, Zenon
  <2>. QED
    BY <2>1, <2>2, <2>3, Zenon
<1>11. ASSUME NEW c \in Addrs, NEW i \in 1..Len(L[c])
       PROVE  \E d \in Addrs : \E j \in 1..Len(M[d]) : M[d][j] = L[c][i]
  <2>1. CASE c = a /\ i <= n
    <3>1. Len(b) + i \in 1..Len(M[a2]) /\ Len(b) + i \in 1..(Len(b) + n) /\ i \in 1..n
      BY <1>4, <1>6, <1>7, <2>1, SMTT(30)
    <3>2. (b \o h)[Len(b) + i] = h[Len(b) + i - Len(b)]
      BY <1>4, <1>6, <3>1
    <3>3. M[a2][Len(b) + i] = L[c][i]
      BY <1>2, <1>4, <1>7, <2>1, <3>1, <3>2, SMTT(30)
    <3>. QED
      BY <3>1, <3>3, Zenon
  <2>2. CASE c = a /\ i > n
    <3>1. i - n \in 1..(Len(l) - n) /\ s[i - n] = L[c][i]
      BY <1>1, <1>3, <2>2
    <3>2. i - n \in 1..Len(M[a]) /\ M[a][i - n] = s[i - n]
      <4>1. CASE a = a2
        <5>1. i - n \in 1..(Len(b) + n) /\ i - n <= Len(b)
          BY <1>1, <1>3, <1>9, <3>1, <4>1, SMTT(30)
        <5>. QED
          BY <1>6, <1>7, <1>9, <4>1, <5>1, Zenon
      <4>2. CASE a # a2
        BY <1>3, <1>7, <3>1, <4>2, Zenon
      <4>. QED
        BY <4>1, <4>2, Zenon
    <3>. QED
      BY <2>2, <3>1, <3>2, Zenon
  <2>3. CASE c # a
    <3>1. i \in 1..Len(M[c]) /\ M[c][i] = L[c][i]
      <4>1. CASE c = a2
        <5>1. b = L[c] /\ i \in 1..(Len(b) + n) /\ i <= Len(b)
          BY <1>4, <1>9, <2>3, <4>1, SMTT(30)
        <5>. QED
          BY <1>6, <1>7, <4>1, <5>1, Zenon
      <4>2. CASE c # a2
        BY <1>7, <2>3, <4>2, Zenon
      <4>. QED
        BY <4>1, <4>2, Zenon
    <3>. QED
      BY <3>1, Zenon
  <2>4. n \in Nat /\ i \in Nat
    OBVIOUS
  <2>. QED
    <3>1. i <= n \/ i > n
      BY <2>4
    <3>. QED
      BY <2>1, <2>2, <2>3, <3>1, ZenonT(30)
<1>12. ASSUME NEW c \in Addrs, NEW d \in Addrs, NEW i \in 1..Len(M[c]), NEW j \in 1..Len(M[d]),
              from(c, i)[1] = from(d, j)[1], from(c, i)[2] = from(d, j)[2]
       PROVE  c = d /\ i = j
  <2>1. a = a2 => Len(b) = Len(l) - n
    BY <1>3, <1>9, Zenon
  <2>2. from(c, i) = from(d, j)
    BY <1>12, Zenon
  <2>3. /\ c = a2 /\ a # a2 /\ i > Len(b) => i - Len(b) <= n
        /\ d = a2 /\ a # a2 /\ j > Len(b) => j - Len(b) <= n
    BY <1>4, <1>6, <1>7, SMTT(30)
  <2>4. /\ c = a2 => i <= Len(b) + n
        /\ d = a2 => j <= Len(b) + n
    BY <1>4, <1>6, <1>7, SMTT(30)
  <2>5. i \in Nat /\ j \in Nat /\ n \in Nat /\ Len(b) \in Nat /\ i > 0 /\ j > 0
    BY <1>4
  <2>. QED
    BY <2>2, <2>4, <2>5
<1>. HIDE DEF from
<1>13. Rearranged(L, M)
  <2>1. \A d \in Addrs : \A j \in 1..Len(M[d]) :
            \E c \in Addrs : \E i \in 1..Len(L[c]) : M[d][j] = L[c][i]
    BY <1>10, ZenonT(30)
  <2>2. ASSUME \A c, d \in Addrs : \A i \in 1..Len(L[c]), j \in 1..Len(L[d]) :
                  L[c][i].tcb = L[d][j].tcb => c = d /\ i = j,
               NEW c \in Addrs, NEW d \in Addrs, NEW i \in 1..Len(M[c]), NEW j \in 1..Len(M[d]),
               M[c][i].tcb = M[d][j].tcb
        PROVE  c = d /\ i = j
    <3>1. PICK x \in 1..Len(L[from(c, i)[1]]) :
              /\ from(c, i)[1] \in Addrs /\ from(c, i)[2] = x
              /\ M[c][i] = L[from(c, i)[1]][x]
      BY <1>10, Zenon
    <3>2. PICK y \in 1..Len(L[from(d, j)[1]]) :
              /\ from(d, j)[1] \in Addrs /\ from(d, j)[2] = y
              /\ M[d][j] = L[from(d, j)[1]][y]
      BY <1>10, Zenon
    <3>3. from(c, i)[1] = from(d, j)[1] /\ x = y
      <4>1. L[from(c, i)[1]][x].tcb = L[from(d, j)[1]][y].tcb
        BY <2>2, <3>1, <3>2, Zenon
      <4>2. PICK e \in Addrs, f \in Addrs : e = from(c, i)[1] /\ f = from(d, j)[1]
        BY <3>1, <3>2, Zenon
      <4>3. x \in 1..Len(L[e]) /\ y \in 1..Len(L[f]) /\ L[e][x].tcb = L[f][y].tcb
        BY <3>1, <3>2, <4>1, <4>2, ZenonT(30)
      <4>4. \A m \in 1..Len(L[e]), r \in 1..Len(L[f]) :
                L[e][m].tcb = L[f][r].tcb => e = f /\ m = r
        BY <2>2, Zenon
      <4>5. e = f /\ x = y
        BY <4>3, <4>4, Zenon
      <4>. QED
        BY <4>2, <4>5, Zenon
    <3>. QED
      BY <1>12, <3>1, <3>2, <3>3, SMTT(30)
  <2>. QED
    BY <1>11, <2>1, <2>2, Zenon DEF Rearranged
<1>14. ASSUME NEW c \in Addrs, c # a2
       PROVE  Len(M[c]) <= Len(L[c])
  <2>1. CASE c = a
    BY <1>1, <1>3, <1>7, <1>14, <2>1
  <2>2. CASE c # a
    BY <1>7, <1>14, <2>2
  <2>. QED
    BY <2>1, <2>2, Zenon
<1>. QED
  BY <1>8, <1>13, <1>14, Zenon

\* futex_requeue keeps every sleeper on a list, and on one.
LEMMA FutexRequeueIInv ==
    ASSUME IInv, FutexRequeue
    PROVE  IInv'
<1>1. PICK a \in Addrs, a2 \in Addrs, num \in Nums :
          /\ k' = Return(requeue(Fetched, a, a2, num))
          /\ Len(k'.wait_list[a2]) <= Load.entries
  BY Zenon DEF FutexRequeue
<1>2. TypeOK /\ CanRun
  BY Zenon DEF IInv, FutexRequeue, UserCall
<1>3. /\ Me \in Tasks /\ IsTaskRec(Fetched) /\ DOMAIN Fetched = DOMAIN k
      /\ Fetched = [k EXCEPT !.state = [k.state EXCEPT ![Me] = "Running"],
                             !.queue = Tail(k.queue)]
      /\ Fetched.state = [k.state EXCEPT ![Me] = "Running"]
      /\ Fetched.event = k.event
      /\ Fetched.wait_list = k.wait_list
  BY <1>2, FetchedFields, Zenon
<1>4. /\ Fetched.pc = k.pc /\ Fetched.load = k.load /\ Fetched.fate = k.fate
      /\ Fetched.now = k.now /\ Fetched.timers = k.timers
      /\ Fetched.next_timer_id = k.next_timer_id /\ Fetched.word = k.word
  BY <1>2, <1>3, KernelIsTaskRec, Zenon
<1>5. k.wait_list \in [Addrs -> Seq(Items)] /\ Len(k.wait_list[a]) \in Nat
  BY <1>2 DEF TypeOK
<1>6. PICK n \in Nat : n <= Len(k.wait_list[a])
                       /\ n = Min({Len(k.wait_list[a]), IF num = 0 THEN 1 ELSE num})
  <2>. DEFINE x == Len(k.wait_list[a])
              y == IF num = 0 THEN 1 ELSE num
  <2>1. x \in Nat /\ y \in Nat
    BY <1>5 DEF Nums
  <2>. HIDE DEF x, y
  <2>2. \E m \in {x, y} : \A o \in {x, y} : m <= o
    BY <2>1
  <2>3. Min({x, y}) \in {x, y} /\ \A o \in {x, y} : Min({x, y}) <= o
    BY <2>2, Zenon DEF Min
  <2>. QED
    BY <2>1, <2>3, Zenon DEF x, y
<1>7. PICK M : M = Requeued(k.wait_list, a, a2, n)
  BY Zenon
<1>8. /\ M \in [Addrs -> Seq(Items)]
      /\ \A c \in Addrs : c # a2 => Len(M[c]) <= Len(k.wait_list[c])
      /\ Rearranged(k.wait_list, M)
  <2>1. PICK L : L = k.wait_list
    BY Zenon
  <2>2. L \in [Addrs -> Seq(Items)] /\ n <= Len(L[a]) /\ M = Requeued(L, a, a2, n)
    BY <1>5, <1>6, <1>7, <2>1, Zenon
  <2>3. /\ M \in [Addrs -> Seq(Items)]
        /\ \A c \in Addrs : c # a2 => Len(M[c]) <= Len(L[c])
        /\ Rearranged(L, M)
    BY ONLY <2>2, RequeueRearranges, a \in Addrs, a2 \in Addrs, n \in Nat, Zenon
  <2>. QED
    BY <2>1, <2>3, Zenon
<1>9. PICK q : q = requeue(Fetched, a, a2, num)
  BY Zenon
<1>10. q = [Fetched EXCEPT !.wait_list = M]
  BY <1>3, <1>6, <1>7, <1>9, Zenon DEF requeue, Requeued
<1>11. /\ IsTaskRec(q) /\ DOMAIN q = DOMAIN k
       /\ q.state = [k.state EXCEPT ![Me] = "Running"] /\ q.wait_list = M
       /\ q.pc = k.pc /\ q.load = k.load /\ q.fate = k.fate /\ q.now = k.now
       /\ q.timers = k.timers /\ q.next_timer_id = k.next_timer_id /\ q.word = k.word
       /\ q.event = k.event
  <2>1. /\ q = [x \in DOMAIN k |-> q[x]]
        /\ q.state = Fetched.state /\ q.queue = Fetched.queue /\ q.event = Fetched.event
        /\ q.wait_list = M /\ q.pc = Fetched.pc /\ q.load = Fetched.load /\ q.fate = Fetched.fate
        /\ q.now = Fetched.now /\ q.timers = Fetched.timers
        /\ q.next_timer_id = Fetched.next_timer_id /\ q.word = Fetched.word
    <3>1. DOMAIN Fetched = {"load", "state", "event", "queue", "pc", "fate", "now", "timers",
                            "next_timer_id", "word", "wait_list"}
      BY <1>2, <1>3, KernelIsTaskRec, Zenon
    <3>2. Fetched = [x \in DOMAIN Fetched |-> Fetched[x]]
      BY <1>3, Zenon DEF IsTaskRec
    <3>. QED
      BY ONLY <1>3, <1>10, <3>1, <3>2, Zenon
  <2>2. IsTaskRec(q)
    BY <1>3, <2>1, SameTaskRec, Zenon
  <2>. QED
    BY <1>3, <1>4, <2>1, <2>2, Zenon
<1>12. k.state \in [Tasks -> TaskState] /\ k.pc \in [Tasks -> Places]
       /\ q.state[Me] = "Running"
  BY <1>2, <1>3, <1>11, Zenon DEF TypeOK
<1>13. k' = Return(q)
  BY <1>1, <1>9, Zenon
<1>14. /\ k'.state = [q.state EXCEPT ![Me] = "Ready"]
       /\ k'.pc = [k.pc EXCEPT ![Me] = User]
       /\ k'.load = q.load /\ k'.event = q.event /\ k'.fate = q.fate /\ k'.now = q.now
       /\ k'.timers = q.timers /\ k'.wait_list = q.wait_list
  BY <1>2, <1>11, <1>12, <1>13, ReturnFields, Zenon
<1>15. \A c \in Addrs : Len(M[c]) <= Load.entries
  <2>. SUFFICES ASSUME NEW c \in Addrs
                PROVE  Len(M[c]) <= Load.entries
    BY Zenon
  <2>1. CASE c = a2
    BY <1>1, <1>11, <1>14, <2>1, Zenon
  <2>2. CASE c # a2
    <3>1. Load.entries \in Nat
      BY <1>2, FutexAssumption, Zenon DEF TypeOK, Load, IsWorkload
    <3>2. Len(M[c]) \in Nat /\ Len(k.wait_list[c]) \in Nat
      BY <1>5, <1>8
    <3>3. Len(M[c]) <= Len(k.wait_list[c]) /\ Len(k.wait_list[c]) <= Load.entries
      BY <1>2, <1>8, <2>2, Zenon DEF TypeOK
    <3>. QED
      BY <3>1, <3>2, <3>3
  <2>. QED
    BY <2>1, <2>2, Zenon
<1>16. TypeOK'
  <2>1. /\ q.event \in [Tasks -> {NoEvent, FutexEvent, SignalEvent, Timeout}]
        /\ q.word \in [Addrs -> Vals]
        /\ q.wait_list \in [Addrs -> Seq(Items)]
        /\ \A b \in Addrs : Len(q.wait_list[b]) <= Load.entries
    BY <1>2, <1>8, <1>11, <1>15, Zenon DEF TypeOK
  <2>. QED
    BY <1>2, <1>11, <1>12, <1>13, <2>1, ReturnTypeOK, Zenon
<1>17. \A t \in Tasks : t # Me => k'.state[t] = k.state[t] /\ k'.pc[t] = k.pc[t]
  BY <1>3, <1>11, <1>12, <1>14
<1>18. k'.state[Me] = "Ready" /\ k'.pc[Me] = User
  BY <1>3, <1>11, <1>12, <1>14, Zenon
<1>19. SleepsStay
  BY <1>17, <1>18, Zenon DEF SleepsStay
<1>20. SleepsAreTimed'
  BY <1>11, <1>14, <1>16, <1>19, SleepsStayTimed, Zenon
<1>21. WaiterIsListed'
  <2>. SUFFICES ASSUME NEW t \in Tasks, Asleep(t, "futex")'
                PROVE  (Listed(t) # {})'
    BY Zenon DEF WaiterIsListed
  <2>1. Asleep(t, "futex")
    BY <1>17, <1>18, Zenon DEF Asleep
  <2>2. PICK c \in Addrs : \E i \in Nat : EntryOf(t, c, i)
    <3>1. Listed(t) # {}
      BY <2>1, Zenon DEF IInv, WaiterIsListed
    <3>. QED
      BY <1>2, <3>1, ListedIsEntry, Zenon
  <2>3. PICK i \in 1..Len(k.wait_list[c]) : k.wait_list[c][i].tcb = t
    BY <2>2, Zenon DEF EntryOf
  <2>4. PICK d \in Addrs : \E j \in 1..Len(M[d]) : M[d][j] = k.wait_list[c][i]
    BY <1>8, Zenon DEF Rearranged
  <2>5. PICK j \in 1..Len(M[d]) : M[d][j] = k.wait_list[c][i]
    BY <2>4, Zenon
  <2>6. j \in Nat
    BY <1>8
  <2>7. EntryOf(t, d, j)'
    BY <1>11, <1>14, <2>3, <2>5, Zenon DEF EntryOf
  <2>. QED
    BY <1>16, <2>6, <2>7, ListedIsEntry, Zenon
<1>22. EachWaitsOnce'
  <2>. SUFFICES ASSUME Never({"wait_timeout", "kill"})'
                PROVE  /\ \A c, d \in Addrs : \A i \in 1..Len(M[c]), j \in 1..Len(M[d]) :
                             M[c][i].tcb = M[d][j].tcb => c = d /\ i = j
                       /\ \A d \in Addrs : \A j \in 1..Len(M[d]) : Asleep(M[d][j].tcb, "futex")'
                       /\ \A e \in k.timers : Asleep(e.task, "nanosleep")'
                       /\ \A e, f \in k.timers : e.task = f.task => e = f
                       /\ \A t \in Tasks : k'.state[t] = "Ready" =>
                             /\ k'.pc[t].at = "futex" => k'.event[t] = FutexEvent
                             /\ k'.pc[t].at = "nanosleep" => k'.event[t] = Timeout
    <3>1. k'.wait_list = M /\ k'.timers = k.timers
      BY <1>11, <1>14, Zenon
    <3>. QED
      BY <3>1 DEF EachWaitsOnce, Asleep
  <2>1. Never({"wait_timeout", "kill"})
    BY <1>11, <1>14, Zenon DEF Never, Load
  <2>2. \A t \in Tasks : \A w \in {"futex", "nanosleep"} : Asleep(t, w) => Asleep(t, w)'
    <3>1. k.state[Me] # "Blocked"
      BY <1>2, Zenon DEF CanRun
    <3>. QED
      BY <1>17, <3>1, Zenon DEF Asleep
  <2>3. \A c, d \in Addrs : \A i \in 1..Len(M[c]), j \in 1..Len(M[d]) :
            M[c][i].tcb = M[d][j].tcb => c = d /\ i = j
    BY <1>8, <2>1, Zenon DEF IInv, EachWaitsOnce, Rearranged
  <2>4. ASSUME NEW d \in Addrs, NEW j \in 1..Len(M[d])
        PROVE  Asleep(M[d][j].tcb, "futex")'
    <3>0. PICK c \in Addrs : \E i \in 1..Len(k.wait_list[c]) : M[d][j] = k.wait_list[c][i]
      <4>1. \A x \in Addrs : \A y \in 1..Len(M[x]) :
                \E c \in Addrs : \E i \in 1..Len(k.wait_list[c]) : M[x][y] = k.wait_list[c][i]
        BY ONLY <1>8, Zenon DEF Rearranged
      <4>. QED
        BY ONLY <4>1, d \in Addrs, j \in 1..Len(M[d]), Zenon
    <3>1. PICK i \in 1..Len(k.wait_list[c]) : M[d][j] = k.wait_list[c][i]
      BY <3>0, Zenon
    <3>2. PICK t : t = k.wait_list[c][i].tcb
      BY Zenon
    <3>3. Asleep(t, "futex") /\ t \in Tasks
      BY <1>2, <2>1, <3>2, EntriesHaveTasks, ZenonT(30) DEF IInv, EachWaitsOnce
    <3>4. Asleep(t, "futex")'
      BY <2>2, <3>3, Zenon
    <3>5. t = M[d][j].tcb
      BY <3>1, <3>2, Zenon
    <3>. QED
      BY <3>4, <3>5, Zenon DEF Asleep
  <2>5. ASSUME NEW e \in k.timers
        PROVE  Asleep(e.task, "nanosleep")'
    BY <1>2, <2>1, <2>2, ZenonT(30) DEF IInv, EachWaitsOnce, TypeOK
  <2>6. \A e, f \in k.timers : e.task = f.task => e = f
    BY <2>1, ZenonT(30) DEF IInv, EachWaitsOnce
  <2>7. ASSUME NEW t \in Tasks, k'.state[t] = "Ready"
        PROVE  /\ k'.pc[t].at = "futex" => k'.event[t] = FutexEvent
               /\ k'.pc[t].at = "nanosleep" => k'.event[t] = Timeout
    BY <1>11, <1>14, <1>17, <1>18, <2>1, <2>7, SMTT(30) DEF IInv, EachWaitsOnce, User
  <2>. QED
    BY <2>3, <2>4, <2>5, <2>6, <2>7, ZenonT(30)
<1>23. NoPanic'
  BY <1>11, <1>14, Zenon DEF IInv, NoPanic, Never, Load
<1>. QED
  BY <1>16, <1>20, <1>21, <1>22, <1>23, Zenon DEF IInv

\* What timer::interrupt does to the tasks: those with an expired timer are ready
\* if they slept, with Timeout, and the others are left alone.
Expired(t, time) == \E e \in expired(k, time) : e.task = t

LEMMA WakeupExpired ==
    ASSUME TypeOK, NEW time, NEW order \in pop_orders(k, time),
           k' = wakeup_expired(k, time, order)
    PROVE  /\ IsKernel(k') /\ k'.load = k.load /\ k'.pc = k.pc /\ k'.fate = k.fate
           /\ k'.now = time /\ k'.timers = k.timers \ expired(k, time)
           /\ k'.next_timer_id = k.next_timer_id /\ k'.word = k.word
           /\ k'.wait_list = k.wait_list
           /\ k'.state \in [Tasks -> TaskState] /\ k'.queue \in Seq(Tasks)
           /\ k'.event = [t \in Tasks |-> k'.event[t]]
           /\ \A t \in Tasks : k.state[t] = "Blocked" /\ Expired(t, time) =>
                 k'.state[t] = "Ready" /\ k'.event[t] = Timeout
           /\ \A t \in Tasks : k.state[t] # "Blocked" \/ ~Expired(t, time) =>
                 k'.state[t] = k.state[t] /\ k'.event[t] = k.event[t]
<1>. DEFINE X == expired(k, time)
            q == [k EXCEPT !.now = time, !.timers = k.timers \ X]
            w == [i \in 1..Len(order) |-> Waiter(order[i].task, Timeout)]
<1>1. X \subseteq k.timers /\ IsFiniteSet(X) /\ order \in Orders(X)
  <2>1. X \subseteq k.timers /\ order \in Orders(X)
    BY Zenon DEF expired, pop_orders
  <2>. QED
    BY <2>1, FS_Subset, Zenon DEF TypeOK
<1>2. \A e \in k.timers : e.task \in Tasks
  BY Zenon DEF TypeOK
<1>3. /\ order \in Seq(X)
      /\ \A e \in X : \E i \in 1..Len(order) : order[i] = e
  BY <1>1, OrderIsSeq
<1>4. k' = wake_all(q, w)
  <2>1. [k EXCEPT !.now = time, !.timers = @ \ expired(k, time)] = q
    BY Zenon
  <2>. QED
    BY <2>1, Zenon DEF wakeup_expired
<1>5. IsTaskRec(k) /\ DOMAIN k = {"load", "state", "event", "queue", "pc", "fate", "now", "timers",
                                  "next_timer_id", "word", "wait_list"}
  BY KernelIsTaskRec, Zenon
<1>6. /\ q = [x \in DOMAIN k |-> q[x]]
      /\ q.load = k.load /\ q.state = k.state /\ q.event = k.event /\ q.queue = k.queue
      /\ q.pc = k.pc /\ q.fate = k.fate /\ q.now = time /\ q.timers = k.timers \ X
      /\ q.next_timer_id = k.next_timer_id /\ q.word = k.word /\ q.wait_list = k.wait_list
  BY <1>5, Zenon DEF IsTaskRec
<1>7. Len(order) \in Nat /\ \A i \in 1..Len(order) : order[i] \in X
  BY <1>3
<1>8. Len(w) = Len(order)
  BY <1>7
<1>9. \A i \in 1..Len(w) : w[i].task = order[i].task /\ w[i].arg = Timeout
  BY <1>8, Zenon DEF Waiter
<1>. HIDE DEF X, q, w
<1>10. IsTaskRec(q)
  BY <1>5, <1>6, SameTaskRec, Zenon
<1>11. \A i \in 1..Len(w) : w[i].task \in Tasks
  BY <1>1, <1>2, <1>7, <1>8, <1>9, Zenon
<1>12. Len(w) \in Nat
  BY <1>7, <1>8, Zenon
<1>13. Woken(q, w, Len(w), wake_all(q, w))
  BY ONLY <1>10, <1>11, <1>12, WakeAll, Zenon
<1>14. PICK r : r = k' /\ Woken(q, w, Len(w), r)
  BY <1>4, <1>13, Zenon
<1>15. \A t : Target(w, Len(w), t) <=> Expired(t, time)
  <2>1. ASSUME NEW t, Target(w, Len(w), t)
        PROVE  Expired(t, time)
    <3>1. PICK i \in 1..Len(w) : w[i].task = t
      BY <2>1, Zenon DEF Target
    <3>. QED
      BY <1>7, <1>8, <1>9, <3>1, Zenon DEF Expired, X
  <2>2. ASSUME NEW t, Expired(t, time)
        PROVE  Target(w, Len(w), t)
    <3>1. PICK e \in X : e.task = t
      BY <2>2, Zenon DEF Expired, X
    <3>2. PICK i \in 1..Len(order) : order[i] = e
      BY <1>3, Zenon
    <3>. QED
      BY <1>8, <1>9, <3>1, <3>2, Zenon DEF Target
  <2>. QED
    BY <2>1, <2>2, Zenon
<1>16. IsTaskRec(r) /\ OnlyTasks(q, r)
  BY <1>14, Zenon DEF Woken
<1>17. /\ IsKernel(r) /\ r.load = k.load /\ r.pc = k.pc /\ r.fate = k.fate
       /\ r.now = time /\ r.timers = k.timers \ X
       /\ r.next_timer_id = k.next_timer_id /\ r.word = k.word /\ r.wait_list = k.wait_list
  <2>1. DOMAIN q = {"load", "state", "event", "queue", "pc", "fate", "now", "timers",
                    "next_timer_id", "word", "wait_list"}
    BY <1>5, <1>6, Zenon
  <2>. QED
    BY <1>6, <1>16, <2>1, ZenonT(30) DEF IsTaskRec, OnlyTasks, IsKernel
<1>18. ASSUME NEW t \in Tasks, k.state[t] = "Blocked", Expired(t, time)
       PROVE  r.state[t] = "Ready" /\ r.event[t] = Timeout
  <2>1. q.state[t] = "Blocked" /\ Target(w, Len(w), t)
    BY <1>6, <1>15, <1>18, Zenon
  <2>2. r.state[t] = "Ready" /\ \E i \in 1..Len(w) : w[i].task = t /\ r.event[t] = w[i].arg
    BY <1>14, <2>1, Zenon DEF Woken
  <2>. QED
    BY <1>9, <2>2, Zenon
<1>19. ASSUME NEW t \in Tasks, k.state[t] # "Blocked" \/ ~Expired(t, time)
       PROVE  r.state[t] = k.state[t] /\ r.event[t] = k.event[t]
  <2>1. q.state[t] # "Blocked" \/ ~Target(w, Len(w), t)
    BY <1>6, <1>15, <1>19, Zenon
  <2>2. r.state[t] = q.state[t] /\ r.event[t] = q.event[t]
    BY <1>14, <2>1, Zenon DEF Woken
  <2>. QED
    BY <1>6, <2>2, Zenon
<1>20. r.state \in [Tasks -> TaskState] /\ r.queue \in Seq(Tasks)
       /\ r.event = [t \in Tasks |-> r.event[t]]
  BY <1>16, Zenon DEF IsTaskRec
<1>. QED
  BY <1>14, <1>17, <1>18, <1>19, <1>20, Zenon DEF X

\* timer::interrupt leaves a sleeper only if none of its timers is due.
LEMMA TimerInterruptIInv ==
    ASSUME IInv, TimerInterrupt
    PROVE  IInv'
<1>1. PICK time \in (k.now + 1)..Load.time :
          \E order \in pop_orders(k, time) : k' = wakeup_expired(k, time, order)
  BY Zenon DEF TimerInterrupt
<1>2. PICK order \in pop_orders(k, time) : k' = wakeup_expired(k, time, order)
  BY <1>1, Zenon
<1>3. TypeOK /\ Load.time \in Nat /\ k.now \in Nat /\ time \in Nat
      /\ k.now < time /\ time <= Load.time
  <2>1. TypeOK /\ Load.time \in Nat
    BY FutexAssumption, Zenon DEF IInv, TypeOK, Load, IsWorkload
  <2>2. k.now \in Nat
    BY <2>1, SMTT(30) DEF TypeOK
  <2>. QED
    BY <2>1, <2>2
<1>4. /\ IsKernel(k') /\ k'.load = k.load /\ k'.pc = k.pc /\ k'.fate = k.fate
      /\ k'.now = time /\ k'.timers = k.timers \ expired(k, time)
      /\ k'.next_timer_id = k.next_timer_id /\ k'.word = k.word
      /\ k'.wait_list = k.wait_list
      /\ k'.state \in [Tasks -> TaskState] /\ k'.queue \in Seq(Tasks)
      /\ k'.event = [t \in Tasks |-> k'.event[t]]
      /\ \A t \in Tasks : k.state[t] = "Blocked" /\ Expired(t, time) =>
            k'.state[t] = "Ready" /\ k'.event[t] = Timeout
      /\ \A t \in Tasks : k.state[t] # "Blocked" \/ ~Expired(t, time) =>
            k'.state[t] = k.state[t] /\ k'.event[t] = k.event[t]
  BY <1>2, <1>3, WakeupExpired, Zenon
<1>5. \A e \in k.timers : e.time \in Nat /\ e.task \in Tasks
  BY <1>3 DEF TypeOK
<1>6. \A e \in k'.timers : e \in k.timers /\ time < e.time
  BY <1>3, <1>4, <1>5 DEF expired
<1>7. TypeOK'
  <2>1. k'.event \in [Tasks -> {NoEvent, FutexEvent, SignalEvent, Timeout}]
    <3>1. ASSUME NEW t \in Tasks
          PROVE  k'.event[t] \in {NoEvent, FutexEvent, SignalEvent, Timeout}
      <4>1. k.event[t] \in {NoEvent, FutexEvent, SignalEvent, Timeout}
        BY <1>3, Zenon DEF TypeOK
      <4>2. k'.event[t] = Timeout \/ k'.event[t] = k.event[t]
        BY <1>4, Zenon
      <4>. QED
        BY <4>1, <4>2, Zenon
    <3>. QED
      BY ONLY <1>4, <3>1, Zenon
  <2>2. /\ k'.timers \subseteq [id : 1..Load.timers, time : 1..Load.time, task : Tasks]
        /\ IsFiniteSet(k'.timers)
    <3>1. k'.timers \subseteq k.timers
      BY <1>4, Zenon
    <3>. QED
      BY <1>3, <3>1, FS_Subset, Zenon DEF TypeOK
  <2>3. k'.now \in 0..Load.time
    BY <1>3, <1>4, SMTT(30)
  <2>. QED
    BY <1>3, <1>4, <2>1, <2>2, <2>3, StepTypeOK, ZenonT(30) DEF TypeOK
<1>8. \A t \in Tasks : k'.state[t] = "Blocked" => k.state[t] = "Blocked" /\ ~Expired(t, time)
  BY <1>4, Zenon
<1>9. SleepsStay
  BY <1>4, <1>8, Zenon DEF SleepsStay
<1>10. WaiterIsListed'
  BY <1>4, <1>7, <1>9, WaitersStayListed, Zenon
<1>11. SleepsAreTimed'
  <2>1. ASSUME NEW t \in Tasks,
               Asleep(t, "nanosleep")' \/ (Asleep(t, "futex")' /\ Until(t)' > 0)
        PROVE  \E e \in k'.timers : e.task = t /\ e.time = Until(t)'
    <3>1. k'.state[t] = "Blocked"
      BY <2>1, Zenon DEF Asleep
    <3>2. k.state[t] = "Blocked" /\ ~Expired(t, time) /\ Until(t)' = Until(t)
      BY <1>4, <1>8, <3>1, Zenon DEF Until
    <3>3. Asleep(t, "nanosleep") \/ (Asleep(t, "futex") /\ Until(t) > 0)
      BY <1>4, <2>1, <3>2, Zenon DEF Asleep
    <3>4. PICK e \in k.timers : e.task = t /\ e.time = Until(t)
      BY <3>3, Zenon DEF IInv, SleepsAreTimed
    <3>5. e \in k'.timers
      BY <1>4, <3>2, <3>4, Zenon DEF Expired
    <3>. QED
      BY <3>2, <3>4, <3>5, Zenon
  <2>. QED
    BY <1>4, <1>6, <2>1, Zenon DEF SleepsAreTimed
<1>12. EachWaitsOnce'
  <2>. SUFFICES ASSUME Never({"wait_timeout", "kill"})'
                PROVE  /\ \A c, d \in Addrs : \A i \in 1..Len(k'.wait_list[c]), j \in 1..Len(k'.wait_list[d]) :
                             k'.wait_list[c][i].tcb = k'.wait_list[d][j].tcb => c = d /\ i = j
                       /\ \A d \in Addrs : \A j \in 1..Len(k'.wait_list[d]) :
                             /\ k'.state[k'.wait_list[d][j].tcb] = "Blocked"
                             /\ k'.pc[k'.wait_list[d][j].tcb].at = "futex"
                       /\ \A e \in k'.timers : k'.state[e.task] = "Blocked" /\ k'.pc[e.task].at = "nanosleep"
                       /\ \A e, f \in k'.timers : e.task = f.task => e = f
                       /\ \A t \in Tasks : k'.state[t] = "Ready" =>
                             /\ k'.pc[t].at = "futex" => k'.event[t] = FutexEvent
                             /\ k'.pc[t].at = "nanosleep" => k'.event[t] = Timeout
    BY Zenon DEF EachWaitsOnce, Asleep
  <2>1. Never({"wait_timeout", "kill"})
    BY <1>4, Zenon DEF Never, Load
  <2>2. /\ \A c, d \in Addrs : \A i \in 1..Len(k.wait_list[c]), j \in 1..Len(k.wait_list[d]) :
              k.wait_list[c][i].tcb = k.wait_list[d][j].tcb => c = d /\ i = j
        /\ \A d \in Addrs : \A j \in 1..Len(k.wait_list[d]) :
              k.state[k.wait_list[d][j].tcb] = "Blocked" /\ k.pc[k.wait_list[d][j].tcb].at = "futex"
        /\ \A e \in k.timers : k.state[e.task] = "Blocked" /\ k.pc[e.task].at = "nanosleep"
        /\ \A e, f \in k.timers : e.task = f.task => e = f
        /\ \A t \in Tasks : k.state[t] = "Ready" =>
              /\ k.pc[t].at = "futex" => k.event[t] = FutexEvent
              /\ k.pc[t].at = "nanosleep" => k.event[t] = Timeout
    BY <2>1, Zenon DEF IInv, EachWaitsOnce, Asleep
  <2>3. \A t \in Tasks : Expired(t, time) => k.pc[t].at = "nanosleep"
    BY <2>2, Zenon DEF Expired, expired
  <2>4. ASSUME NEW d \in Addrs, NEW j \in 1..Len(k.wait_list[d])
        PROVE  k'.state[k.wait_list[d][j].tcb] = "Blocked" /\ k.pc[k.wait_list[d][j].tcb].at = "futex"
    <3>1. PICK t \in Tasks : t = k.wait_list[d][j].tcb
      BY <1>3, EntriesHaveTasks, Zenon
    <3>2. k.state[t] = "Blocked" /\ k.pc[t].at = "futex"
      BY <2>2, <3>1, Zenon
    <3>3. ~Expired(t, time)
      BY <2>3, <3>2, ZenonT(30)
    <3>. QED
      BY <1>4, <3>1, <3>2, <3>3, Zenon
  <2>5. ASSUME NEW e \in k'.timers
        PROVE  k'.state[e.task] = "Blocked" /\ k.pc[e.task].at = "nanosleep"
    <3>1. e \in k.timers /\ e \notin expired(k, time) /\ e.task \in Tasks
      BY <1>4, <1>5, Zenon
    <3>2. ~Expired(e.task, time)
      <4>. SUFFICES ASSUME NEW f \in expired(k, time), f.task = e.task
                    PROVE  FALSE
        BY Zenon DEF Expired
      <4>1. f \in k.timers
        BY Zenon DEF expired
      <4>. QED
        BY <2>2, <3>1, <4>1, Zenon
    <3>. QED
      BY <1>4, <2>2, <3>1, <3>2, ZenonT(30)
  <2>6. \A e, f \in k'.timers : e.task = f.task => e = f
    BY <1>6, <2>2, Zenon
  <2>7. ASSUME NEW t \in Tasks, k'.state[t] = "Ready"
        PROVE  /\ k.pc[t].at = "futex" => k'.event[t] = FutexEvent
               /\ k.pc[t].at = "nanosleep" => k'.event[t] = Timeout
    <3>1. CASE k.state[t] = "Blocked" /\ Expired(t, time)
      BY <1>4, <2>3, <3>1, Zenon
    <3>2. CASE k.state[t] # "Blocked" \/ ~Expired(t, time)
      <4>1. k'.state[t] = k.state[t] /\ k'.event[t] = k.event[t]
        BY <1>4, <3>2, Zenon
      <4>. QED
        BY <2>2, <2>7, <4>1, Zenon
    <3>. QED
      BY <3>1, <3>2, Zenon
  <2>8. k'.wait_list = k.wait_list /\ k'.pc = k.pc
    BY <1>4, Zenon
  <2>9. \A c, d \in Addrs : \A i \in 1..Len(k'.wait_list[c]), j \in 1..Len(k'.wait_list[d]) :
           k'.wait_list[c][i].tcb = k'.wait_list[d][j].tcb => c = d /\ i = j
    BY <2>2, <2>8, SMTT(30)
  <2>10. \A d \in Addrs : \A j \in 1..Len(k'.wait_list[d]) :
            /\ k'.state[k'.wait_list[d][j].tcb] = "Blocked"
            /\ k'.pc[k'.wait_list[d][j].tcb].at = "futex"
    BY <2>4, <2>8, ZenonT(30)
  <2>11. \A e \in k'.timers : k'.state[e.task] = "Blocked" /\ k'.pc[e.task].at = "nanosleep"
    BY <2>5, <2>8
  <2>12. \A t \in Tasks : k'.state[t] = "Ready" =>
            /\ k'.pc[t].at = "futex" => k'.event[t] = FutexEvent
            /\ k'.pc[t].at = "nanosleep" => k'.event[t] = Timeout
    BY <2>7, <2>8
  <2>. QED
    BY <2>6, <2>9, <2>10, <2>11, <2>12, Zenon
<1>13. NoPanic'
  BY <1>4, Zenon DEF IInv, NoPanic, Never, Load
<1>. QED
  BY <1>7, <1>10, <1>11, <1>12, <1>13, Zenon DEF IInv

-----------------------------------------------------------------------------
(* The theorems.                                                            *)

LEMMA InitIInv ==
    ASSUME Init
    PROVE  IInv
<1>1. PICK name \in DOMAIN Workloads : \E order \in Orders(Tasks) : k =
        [load |-> name,
         state |-> [t \in Tasks |-> "Ready"],
         event |-> [t \in Tasks |-> NoEvent],
         queue |-> order,
         pc |-> [t \in Tasks |-> User],
         fate |-> "up",
         now |-> 0, timers |-> {}, next_timer_id |-> 0,
         word |-> [a \in Addrs |-> 0],
         wait_list |-> [a \in Addrs |-> <<>>]]
  BY Zenon DEF Init
<1>2. PICK order \in Orders(Tasks) : k =
        [load |-> name,
         state |-> [t \in Tasks |-> "Ready"],
         event |-> [t \in Tasks |-> NoEvent],
         queue |-> order,
         pc |-> [t \in Tasks |-> User],
         fate |-> "up",
         now |-> 0, timers |-> {}, next_timer_id |-> 0,
         word |-> [a \in Addrs |-> 0],
         wait_list |-> [a \in Addrs |-> <<>>]]
  BY <1>1, Zenon
<1>3. order \in Seq(Tasks)
  BY FutexAssumption, OrderIsSeq, Zenon
<1>4. {Load.time, Load.timers, Load.entries} \subseteq Nat
  BY <1>2, FutexAssumption, Zenon DEF Load, IsWorkload
<1>5. /\ IsKernel(k)
      /\ k.load = name
      /\ k.state = [t \in Tasks |-> "Ready"]
      /\ k.event = [t \in Tasks |-> NoEvent]
      /\ k.queue = order
      /\ k.pc = [t \in Tasks |-> User]
      /\ k.fate = "up"
      /\ k.now = 0 /\ k.timers = {} /\ k.next_timer_id = 0
      /\ k.word = [a \in Addrs |-> 0]
      /\ k.wait_list = [a \in Addrs |-> <<>>]
  BY <1>2, Zenon DEF IsKernel
<1>6. TypeOK
  <2>1. k.state \in [Tasks -> TaskState] /\ k.pc \in [Tasks -> Places]
    BY <1>5, SMTT(30) DEF TaskState, Places
  <2>2. k.event \in [Tasks -> {NoEvent, FutexEvent, SignalEvent, Timeout}]
    BY <1>5, Zenon
  <2>3. IsFiniteSet(k.timers)
    BY <1>5, FS_EmptySet, Zenon
  <2>4. k.wait_list \in [Addrs -> Seq(Items)] /\ \A a \in Addrs : Len(k.wait_list[a]) <= Load.entries
    BY <1>4, <1>5, SMTT(30)
  <2>5. k.word \in [Addrs -> Vals] /\ k.now \in 0..Load.time /\ k.next_timer_id \in 0..Load.timers
    BY <1>4, <1>5, SMTT(30) DEF Vals
  <2>. QED
    BY <1>3, <1>5, <2>1, <2>2, <2>3, <2>4, <2>5, ZenonT(30) DEF TypeOK
<1>7. \A t \in Tasks : k.state[t] = "Ready" /\ k.pc[t] = User
  BY <1>5, Zenon
<1>8. WaiterIsListed /\ SleepsAreTimed
  BY <1>5, <1>7, Zenon DEF WaiterIsListed, SleepsAreTimed, Asleep
<1>9. EachWaitsOnce
  BY <1>5, <1>7, SMTT(30) DEF EachWaitsOnce, User
<1>10. NoPanic
  BY <1>5, Zenon DEF NoPanic
<1>. QED
  BY <1>6, <1>8, <1>9, <1>10, Zenon DEF IInv

LEMMA NextIInv ==
    ASSUME IInv, [Next]_k
    PROVE  IInv'
<1>1. CASE UNCHANGED k
  <2>1. TypeOK' = TypeOK
    BY ONLY <1>1, SMTT(30) DEF TypeOK, IsKernel, Load, Places, Items
  <2>2. WaiterIsListed' = WaiterIsListed
    BY ONLY <1>1 DEF WaiterIsListed, Listed, Asleep, Load
  <2>3. SleepsAreTimed' = SleepsAreTimed
    BY ONLY <1>1, SMTT(30) DEF SleepsAreTimed, Asleep, Until
  <2>4. EachWaitsOnce' = EachWaitsOnce /\ NoPanic' = NoPanic
    BY ONLY <1>1 DEF EachWaitsOnce, NoPanic, Never, Load, Asleep
  <2>. QED
    BY <2>1, <2>2, <2>3, <2>4, Zenon DEF IInv
<1>2. CASE DropFetched
  BY <1>2, DropFetchedIInv, Zenon
<1>3. CASE Store
  BY <1>3, StoreIInv, Zenon
<1>4. CASE FutexWait
  BY <1>4, FutexWaitIInv, Zenon
<1>5. CASE FutexWaitResume \/ NanosleepResume
  BY <1>5, ResumeIInv, Zenon
<1>6. CASE FutexWake \/ FutexWakeBitset
  BY <1>6, FutexWakeIInv, ZenonT(30)
<1>7. CASE FutexRequeue
  BY <1>7, FutexRequeueIInv, Zenon
<1>8. CASE Nanosleep
  BY <1>8, NanosleepIInv, Zenon
<1>9. CASE Kill
  BY <1>9, KillIInv, Zenon
<1>10. CASE Exit
  BY <1>10, ExitIInv, Zenon
<1>11. CASE TimerInterrupt
  BY <1>11, TimerInterruptIInv, Zenon
<1>12. CASE FutexWaitFault
  BY <1>12, FutexWaitFaultIInv, Zenon
<1>. QED
  BY <1>1, <1>2, <1>3, <1>4, <1>5, <1>6, <1>7, <1>8, <1>9, <1>10, <1>11, <1>12,
     ZenonT(30) DEF Next

\* For any threads, addresses and workloads: the inductive invariant of the
\* futexes, the sleeps and the timers holds in every state.
THEOREM FutexInvariant == Spec => []IInv
<1>1. Init => IInv
  BY InitIInv, Zenon
<1>2. IInv /\ [Next]_k => IInv'
  BY NextIInv, Zenon
<1>. QED
  BY <1>1, <1>2, PTL DEF Spec

\* A timer of the sleep that is still to come bounds it.
LEMMA TimedSleepsEnd ==
    ASSUME IInv
    PROVE  NoOversleep
<1>. SUFFICES ASSUME NEW t \in Tasks,
                     Asleep(t, "nanosleep") \/ (Asleep(t, "futex") /\ Until(t) > 0)
              PROVE  k.now < Until(t)
  BY Zenon DEF NoOversleep
<1>1. PICK e \in k.timers : e.task = t /\ e.time = Until(t)
  BY Zenon DEF IInv, SleepsAreTimed
<1>. QED
  BY <1>1, Zenon DEF IInv, SleepsAreTimed

\* No sleep in FUTEX_WAIT or nanosleep is lost: whatever is woken, requeued,
\* signalled or timed out, a thread asleep in sys_futex is on a wait_list, and a
\* timed sleeper's time has not passed.
THEOREM FutexSleepsCanEnd == Spec => []SleepsCanEnd
<1>1. IInv => SleepsCanEnd
  BY TimedSleepsEnd, Zenon DEF IInv, SleepsCanEnd
<1>. QED
  BY <1>1, FutexInvariant, PTL

\* The entries of a thread are one when no two of them are alike.
LEMMA OneEntryEach ==
    ASSUME IInv
    PROVE  EntriesAreWaiters
<1>. SUFFICES ASSUME Never({"wait_timeout", "kill"}), NEW t \in Tasks, Listed(t) # {}
              PROVE  Asleep(t, "futex") /\ Cardinality(Listed(t)) = 1
  BY Zenon DEF EntriesAreWaiters
<1>1. \A a, b \in Addrs : \A i \in 1..Len(k.wait_list[a]), j \in 1..Len(k.wait_list[b]) :
          k.wait_list[a][i].tcb = k.wait_list[b][j].tcb => a = b /\ i = j
  BY Zenon DEF IInv, EachWaitsOnce
<1>2. Load.entries \in Nat /\ \A a \in Addrs : Len(k.wait_list[a]) \in Nat
  BY FutexAssumption, SMTT(30) DEF IInv, TypeOK, Load, IsWorkload
<1>3. ASSUME NEW p \in Listed(t)
      PROVE  /\ p[1] \in Addrs /\ p[2] \in 1..Len(k.wait_list[p[1]])
             /\ k.wait_list[p[1]][p[2]].tcb = t
             /\ p = <<p[1], p[2]>>
  <2>1. /\ p \in Addrs \X (1..Load.entries)
        /\ p[2] <= Len(k.wait_list[p[1]]) /\ k.wait_list[p[1]][p[2]].tcb = t
    BY Zenon DEF Listed
  <2>. QED
    BY <1>2, <2>1
<1>4. PICK p : p \in Listed(t)
  BY Zenon
<1>5. ASSUME NEW o \in Listed(t)
      PROVE  o = p
  <2>1. PICK a, i, b, j : o = <<a, i>> /\ p = <<b, j>>
    BY <1>3, <1>4
  <2>2. /\ a \in Addrs /\ i \in 1..Len(k.wait_list[a]) /\ k.wait_list[a][i].tcb = t
        /\ b \in Addrs /\ j \in 1..Len(k.wait_list[b]) /\ k.wait_list[b][j].tcb = t
    BY <1>3, <1>4, <2>1, Zenon
  <2>3. a = b /\ i = j
    BY <1>1, <2>2
  <2>. QED
    BY <2>1, <2>3, Zenon
<1>6. Listed(t) = {p}
  BY <1>4, <1>5, Zenon
<1>7. Asleep(t, "futex")
  <2>1. \A a \in Addrs : \A i \in 1..Len(k.wait_list[a]) :
            Asleep(k.wait_list[a][i].tcb, "futex")
    BY Zenon DEF IInv, EachWaitsOnce
  <2>. QED
    BY <1>3, <1>4, <2>1, Zenon
<1>. QED
  BY <1>6, <1>7, FS_Singleton, Zenon

\* Where no thread times out or is signalled, a futex list has one entry for each
\* thread asleep on it and none for another, no sleep gets an event it does not
\* know, and an exit never meets its own thread on the list.
THEOREM FutexListsSound == Spec => []ListsSound
<1>1. IInv => ListsSound
  BY OneEntryEach, Zenon DEF IInv, ListsSound
<1>. QED
  BY <1>1, FutexInvariant, PTL

=============================================================================
