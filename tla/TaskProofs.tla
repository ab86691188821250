----------------------------- MODULE TaskProofs -----------------------------
(***************************************************************************)
(* Lemmas about the ready queue and the operations of TaskOps, for the     *)
(* proofs about the components that run over the scheduler.                *)
(*                                                                         *)
(* The loops of TaskOps are recursive functions over an interval.  What    *)
(* they compute is proved by the least counterexample: the set of the      *)
(* iterations at which a claim fails has a least element, or is empty.     *)
(***************************************************************************)
EXTENDS TaskOps, TLAPS, WellFoundedInduction

\* Every nonempty set of naturals has a least element.
LEMMA NatMin ==
    ASSUME NEW T \in SUBSET Nat, T # {}
    PROVE  \E m \in T : \A n \in T : m <= n
<1>. DEFINE R == {p \in Nat \X Nat : p[1] < p[2]}
<1>1. IsWellFoundedOn(R, Nat)
  BY NatLessThanWellFounded DEF OpToRel
<1>2. \E x \in T : \A y \in T : ~(<<y, x>> \in R)
  <2>. HIDE DEF R
  <2>. QED
    BY <1>1, WFMin
<1>3. PICK x \in T : \A y \in T : ~(<<y, x>> \in R)
  BY <1>2
<1>4. \A y \in T : x <= y
  <2>. TAKE y \in T
  <2>1. x \in Nat /\ y \in Nat
    OBVIOUS
  <2>2. <<y, x>> \notin R
    BY <1>3
  <2>3. ~(y < x)
    BY <2>1, <2>2
  <2>. QED
    BY <2>1, <2>3
<1>. QED
  BY <1>4

-----------------------------------------------------------------------------
(* Sequences: the subsequence at given positions.                           *)

\* f holds the lists between the iterations of Picked.
Picks(f, s, I) ==
    f = [n \in 0..Len(s) |->
            IF n = 0 THEN <<>>
            ELSE IF n \in I THEN Append(f[n - 1], s[n]) ELSE f[n - 1]]

LEMMA PicksExist ==
    ASSUME NEW s, NEW I, Len(s) \in Nat
    PROVE  \E f : Picks(f, s, I)
<1>. DEFINE N == Len(s)
            step(x, n) == IF n \in I THEN Append(x, s[n]) ELSE x
            Ok(f, m) == f = [n \in 0..m |-> IF n = 0 THEN <<>> ELSE step(f[n - 1], n)]
            Bad == {m \in 0..N : ~\E f : Ok(f, m)}
<1>. HIDE DEF step
<1>1. SUFFICES ASSUME Bad # {} PROVE FALSE
  <2>1. N \in 0..N
    OBVIOUS
  <2>2. PICK f : Ok(f, N)
    BY <1>1, <2>1
  <2>3. Picks(f, s, I)
    BY <2>2 DEF Picks, step
  <2>. QED
    BY <2>3
<1>2. PICK m \in Bad : \A n \in Bad : m <= n
  <2>1. Bad \in SUBSET Nat
    OBVIOUS
  <2>. HIDE DEF Bad
  <2>. QED
    BY <1>1, <2>1, NatMin
<1>3. m # 0
  <2>1. Ok([n \in 0..0 |-> <<>>], 0)
    OBVIOUS
  <2>. QED
    BY <2>1
<1>4. m - 1 \in 0..N /\ m - 1 \notin Bad
  BY <1>2, <1>3
<1>5. PICK f : Ok(f, m - 1)
  BY <1>4
<1>. DEFINE g == [n \in 0..m |-> IF n = m THEN step(f[m - 1], m) ELSE f[n]]
<1>6. ASSUME NEW n \in 0..m
      PROVE  g[n] = IF n = 0 THEN <<>> ELSE step(g[n - 1], n)
  <2>1. m \in Nat /\ m # 0
    BY <1>3
  <2>2. CASE n = m
    BY <2>1, <2>2
  <2>3. CASE n # m
    <3>1. n \in 0..(m - 1)
      BY <2>3
    <3>2. f[n] = IF n = 0 THEN <<>> ELSE step(f[n - 1], n)
      BY <3>1, <1>5
    <3>3. g[n] = f[n]
      BY <2>3
    <3>4. n # 0 => n - 1 \in 0..m /\ n - 1 # m
      BY <3>1
    <3>5. n # 0 => g[n - 1] = f[n - 1]
      BY <3>4
    <3>. QED
      BY <3>2, <3>3, <3>5
  <2>. QED
    BY <2>2, <2>3
<1>7. g = [n \in 0..m |-> g[n]]
  OBVIOUS
<1>8. Ok(g, m)
  <2>. HIDE DEF g
  <2>. QED
    BY <1>6, <1>7
<1>. QED
  BY <1>8

LEMMA PickedUnfolds ==
    ASSUME NEW s, NEW I, Len(s) \in Nat
    PROVE  \E f : /\ Picked(s, I) = f[Len(s)]
                  /\ f[0] = <<>>
                  /\ \A n \in 1..Len(s) :
                        f[n] = IF n \in I THEN Append(f[n - 1], s[n]) ELSE f[n - 1]
<1>. DEFINE g == CHOOSE f : Picks(f, s, I)
<1>1. Picks(g, s, I)
  BY PicksExist
<1>2. Picked(s, I) = g[Len(s)]
  BY DEF Picked, Picks
<1>. HIDE DEF g
<1>3. g[0] = <<>>
  BY <1>1 DEF Picks
<1>4. \A n \in 1..Len(s) : g[n] = IF n \in I THEN Append(g[n - 1], s[n]) ELSE g[n - 1]
  <2>. DEFINE step(x, n) == IF n \in I THEN Append(x, s[n]) ELSE x
  <2>1. g = [n \in 0..Len(s) |-> IF n = 0 THEN <<>> ELSE step(g[n - 1], n)]
    BY <1>1 DEF Picks
  <2>. HIDE DEF step
  <2>2. \A n \in 1..Len(s) : g[n] = step(g[n - 1], n)
    BY <2>1
  <2>. QED
    BY <2>2 DEF step
<1>. QED
  BY <1>2, <1>3, <1>4

\* The first n entries of g are the positions of I up to m, in their order.
Counts(g, n, m, I) ==
    /\ n \in 0..m
    /\ g \in [1..n -> I]
    /\ \A j \in 1..n : g[j] <= m
    /\ \A i, j \in 1..n : i < j => g[i] < g[j]
    /\ \A i \in I : i <= m => \E j \in 1..n : g[j] = i

LEMMA CountsStep ==
    ASSUME NEW I \in SUBSET Nat, NEW m \in Nat, m # 0, NEW n, NEW g, Counts(g, n, m - 1, I)
    PROVE  /\ n \in Nat
           /\ m \notin I => Counts(g, n, m, I)
           /\ m \in I => Counts([j \in 1..(n + 1) |-> IF j = n + 1 THEN m ELSE g[j]],
                                n + 1, m, I)
<1>1. n \in Nat /\ n <= m - 1 /\ \A j \in 1..n : g[j] \in I /\ g[j] \in Nat
  <2>1. n \in 0..(m - 1) /\ g \in [1..n -> I]
    BY DEF Counts
  <2>2. \A j \in 1..n : g[j] \in I
    BY <2>1
  <2>3. \A x \in I : x \in Nat
    OBVIOUS
  <2>4. n \in Nat /\ n <= m - 1
    BY <2>1
  <2>. QED
    BY <2>2, <2>3, <2>4
<1>2. ASSUME m \notin I PROVE Counts(g, n, m, I)
  <2>1. \A i \in I : i <= m => i <= m - 1
    BY <1>2
  <2>. QED
    BY <1>1, <2>1 DEF Counts
<1>3. ASSUME m \in I
      PROVE  Counts([j \in 1..(n + 1) |-> IF j = n + 1 THEN m ELSE g[j]], n + 1, m, I)
  <2>1. PICK h : h = [j \in 1..(n + 1) |-> IF j = n + 1 THEN m ELSE g[j]]
    OBVIOUS
  <2>2. /\ h[n + 1] = m
        /\ \A j \in 1..n : h[j] = g[j]
        /\ \A j \in 1..(n + 1) : j = n + 1 \/ j \in 1..n
        /\ \A j \in 1..n : j \in 1..(n + 1)
    BY <1>1, <2>1
  <2>3. h \in [1..(n + 1) -> I]
    BY <1>1, <1>3, <2>1, <2>2
  <2>4. \A j \in 1..n : g[j] <= m - 1
    BY DEF Counts
  <2>5. \A j \in 1..(n + 1) : h[j] <= m
    BY <1>1, <2>2, <2>4
  <2>6. ASSUME NEW i \in 1..(n + 1), NEW j \in 1..(n + 1), i < j
        PROVE  h[i] < h[j]
    <3>1. i \in 1..n
      BY <1>1, <2>6
    <3>2. CASE j = n + 1
      BY <1>1, <2>2, <2>4, <3>1, <3>2
    <3>3. CASE j \in 1..n
      BY <2>2, <2>6, <3>1, <3>3 DEF Counts
    <3>. QED
      BY <2>2, <3>2, <3>3
  <2>7. ASSUME NEW i \in I, i <= m PROVE \E j \in 1..(n + 1) : h[j] = i
    <3>1. CASE i = m
      BY <1>1, <2>2, <3>1
    <3>2. CASE i # m
      <4>1. PICK j \in 1..n : g[j] = i
        BY <2>7, <3>2 DEF Counts
      <4>. QED
        BY <2>2, <4>1
    <3>. QED
      BY <3>1, <3>2
  <2>8. n + 1 \in 0..m
    BY <1>1
  <2>. QED
    BY <2>1, <2>3, <2>5, <2>6, <2>7, <2>8 DEF Counts
<1>. QED
  BY <1>1, <1>2, <1>3

\* f numbers the positions I of s in their order, and Picked takes s there.
Numbers(f, s, I) ==
    LET C == Len(Picked(s, I))
    IN  /\ C \in 0..Len(s)
        /\ f \in [1..C -> I]
        /\ \A m, n \in 1..C : m < n => f[m] < f[n]
        /\ \A m, n \in 1..C : f[m] = f[n] => m = n
        /\ \A i \in I : \E n \in 1..C : f[n] = i
        /\ Picked(s, I) = [n \in 1..C |-> s[f[n]]]

LEMMA PickedNumbers ==
    ASSUME NEW S, NEW s \in Seq(S), NEW I \in SUBSET (1..Len(s))
    PROVE  \E f : Numbers(f, s, I)
<1>0. Len(s) \in Nat /\ \A i \in 1..Len(s) : s[i] \in S
  OBVIOUS
<1>1. PICK p : /\ Picked(s, I) = p[Len(s)]
               /\ p[0] = <<>>
               /\ \A n \in 1..Len(s) :
                     p[n] = IF n \in I THEN Append(p[n - 1], s[n]) ELSE p[n - 1]
  BY <1>0, PickedUnfolds
<1>. DEFINE Ok(g, n, m) == Counts(g, n, m, I) /\ p[m] = [j \in 1..n |-> s[g[j]]]
            Bad == {m \in 0..Len(s) : ~\E g, n : Ok(g, n, m)}
<1>2. Bad = {}
  <2>1. SUFFICES ASSUME Bad # {} PROVE FALSE
    OBVIOUS
  <2>2. PICK m \in Bad : \A n \in Bad : m <= n
    <3>1. Bad \in SUBSET Nat
      BY <1>0
    <3>. HIDE DEF Bad
    <3>. QED
      BY <2>1, <3>1, NatMin
  <2>3. m \in 0..Len(s) /\ ~\E g, n : Ok(g, n, m)
    OBVIOUS
  <2>4. m # 0
    <3>1. PICK e : e = [j \in 1..0 |-> j]
      OBVIOUS
    <3>2. Counts(e, 0, 0, I)
      BY <3>1 DEF Counts
    <3>3. p[0] = [j \in 1..0 |-> s[e[j]]]
      BY <1>1
    <3>. QED
      BY <2>3, <3>2, <3>3
  <2>5. m \in Nat /\ m - 1 \in 0..Len(s) /\ m - 1 \notin Bad /\ m \in 1..Len(s)
    <3>1. m \in Nat /\ m - 1 \in 0..Len(s) /\ m \in 1..Len(s) /\ ~(m <= m - 1)
      BY <1>0, <2>3, <2>4
    <3>. HIDE DEF Bad
    <3>. QED
      BY <2>2, <3>1
  <2>6. PICK g, n : Counts(g, n, m - 1, I) /\ p[m - 1] = [j \in 1..n |-> s[g[j]]]
    BY <2>5
  <2>. HIDE DEF Bad
  <2>7. I \in SUBSET Nat
    BY <1>0
  <2>8. /\ n \in Nat
        /\ m \notin I => Counts(g, n, m, I)
        /\ m \in I => Counts([j \in 1..(n + 1) |-> IF j = n + 1 THEN m ELSE g[j]],
                             n + 1, m, I)
    BY <2>4, <2>5, <2>6, <2>7, CountsStep
  <2>9. CASE m \notin I
    <3>1. p[m] = [j \in 1..n |-> s[g[j]]]
      BY <1>1, <2>5, <2>6, <2>9
    <3>. QED
      BY <2>3, <2>8, <2>9, <3>1
  <2>10. CASE m \in I
    <3>1. PICK h : h = [j \in 1..(n + 1) |-> IF j = n + 1 THEN m ELSE g[j]]
      OBVIOUS
    <3>2. Counts(h, n + 1, m, I)
      BY <2>8, <2>10, <3>1
    <3>3. PICK x : x = p[m - 1]
      OBVIOUS
    <3>4. \A j \in 1..n : g[j] \in 1..Len(s)
      BY <2>6 DEF Counts
    <3>5. x \in Seq(S) /\ Len(x) = n /\ \A j \in 1..n : x[j] = s[g[j]]
      <4>1. x = [j \in 1..n |-> s[g[j]]]
        BY <2>6, <3>3
      <4>2. \A j \in 1..n : s[g[j]] \in S
        BY <1>0, <3>4
      <4>. QED
        BY ONLY <2>8, <4>1, <4>2
    <3>6. p[m] = Append(x, s[m])
      BY <1>1, <2>5, <2>10, <3>3
    <3>7. s[m] \in S
      BY <1>0, <2>5
    <3>8. Append(x, s[m]) = [j \in 1..(n + 1) |-> s[h[j]]]
      <4>1. PICK y : y = s[m]
        OBVIOUS
      <4>2. /\ Append(x, y) = [j \in 1..(n + 1) |-> Append(x, y)[j]]
            /\ Append(x, y)[n + 1] = y
            /\ \A j \in 1..n : Append(x, y)[j] = x[j]
        BY ONLY <2>8, <3>5, <3>7, <4>1
      <4>3. \A j \in 1..(n + 1) : Append(x, y)[j] = s[h[j]]
        BY ONLY <2>8, <3>1, <3>5, <4>1, <4>2
      <4>. QED
        BY <4>1, <4>2, <4>3
    <3>. QED
      BY <2>3, <3>2, <3>6, <3>8
  <2>. QED
    BY <2>9, <2>10
<1>3. Len(s) \in 0..Len(s)
  BY <1>0
<1>4. PICK g, n : Counts(g, n, Len(s), I) /\ p[Len(s)] = [j \in 1..n |-> s[g[j]]]
  BY <1>2, <1>3
<1>5. PICK m : m = Picked(s, I)
  OBVIOUS
<1>6. n \in 0..Len(s) /\ m = [j \in 1..n |-> s[g[j]]] /\ g \in [1..n -> I]
  BY <1>1, <1>4, <1>5 DEF Counts
<1>7. Len(m) = n
  BY <1>0, <1>6
<1>8. \A i, j \in 1..n : g[i] = g[j] => i = j
  <2>1. \A i \in 1..n : i \in Nat /\ g[i] \in Nat
    <3>1. \A i \in 1..n : g[i] \in I
      BY <1>6
    <3>2. \A x \in I : x \in Nat
      BY <1>0
    <3>3. \A i \in 1..n : i \in Nat
      BY <1>0, <1>6
    <3>. QED
      BY <3>1, <3>2, <3>3
  <2>2. \A i, j \in 1..n : i < j => g[i] < g[j]
    BY <1>4 DEF Counts
  <2>. QED
    BY <2>1, <2>2
<1>9. \A i \in I : \E j \in 1..n : g[j] = i
  BY <1>0, <1>4 DEF Counts
<1>. QED
  <2>1. \A i, j \in 1..n : i < j => g[i] < g[j]
    BY <1>4 DEF Counts
  <2>2. Len(Picked(s, I)) = n /\ Picked(s, I) = [j \in 1..n |-> s[g[j]]]
    BY <1>5, <1>6, <1>7
  <2>3. Numbers(g, s, I)
    BY <1>6, <1>8, <1>9, <2>1, <2>2 DEF Numbers
  <2>. QED
    BY <2>3

-----------------------------------------------------------------------------
(* The ready queue as a sequence.                                           *)

\* push_task adds the task and keeps the others.
LEMMA PushEntries ==
    ASSUME NEW q \in Seq(Tasks), NEW t \in Tasks
    PROVE  /\ Append(q, t) \in Seq(Tasks)
           /\ Entries(Append(q, t)) = Entries(q) \cup {t}
<1>1. Append(q, t) \in Seq(Tasks)
  OBVIOUS
<1>2. /\ Len(Append(q, t)) = Len(q) + 1
      /\ \A i \in 1..Len(q) : Append(q, t)[i] = q[i]
      /\ Append(q, t)[Len(q) + 1] = t
  OBVIOUS
<1>3. Len(q) \in Nat
  OBVIOUS
<1>4. ASSUME NEW u \in Entries(Append(q, t))
      PROVE  u \in Entries(q) \cup {t}
  BY <1>2, <1>3 DEF Entries
<1>5. ASSUME NEW u \in Entries(q) \cup {t}
      PROVE  u \in Entries(Append(q, t))
  BY <1>2, <1>3 DEF Entries
<1>. QED
  BY <1>1, <1>4, <1>5

\* push_task of a task whose tid is not queued keeps the tids apart.
LEMMA PushTids ==
    ASSUME NEW q \in Seq(Tasks), NEW t \in Tasks, NEW f,
           TidsDiffer(q, f), \A u \in Entries(q) : f[u] # f[t]
    PROVE  TidsDiffer(Append(q, t), f)
<1>1. /\ Len(Append(q, t)) = Len(q) + 1
      /\ \A i \in 1..Len(q) : Append(q, t)[i] = q[i]
      /\ Append(q, t)[Len(q) + 1] = t
      /\ Len(q) \in Nat
  OBVIOUS
<1>2. \A i \in 1..Len(q) : f[q[i]] # f[t]
  BY DEF Entries
<1>. QED
  BY <1>1, <1>2 DEF TidsDiffer

LEMMA EntriesIn ==
    ASSUME NEW S, NEW s \in Seq(S)
    PROVE  /\ Entries(s) \subseteq S
           /\ Len(s) \in Nat
           /\ \A x : x \in Entries(s) <=> \E i \in 1..Len(s) : s[i] = x
BY DEF Entries

\* fetch_next_task removes the head and, the tids being distinct, nothing else.
LEMMA FetchEntries ==
    ASSUME NEW q \in Seq(Tasks), q # <<>>
    PROVE  /\ Head(q) \in Tasks
           /\ Tail(q) \in Seq(Tasks)
           /\ Entries(q) = Entries(Tail(q)) \cup {Head(q)}
<1>1. /\ Head(q) = q[1]
      /\ Head(q) \in Tasks
      /\ Tail(q) \in Seq(Tasks)
      /\ Len(q) \in Nat \ {0}
      /\ Len(Tail(q)) = Len(q) - 1
      /\ \A i \in 1..Len(Tail(q)) : Tail(q)[i] = q[i + 1]
  OBVIOUS
<1>2. ASSUME NEW u \in Entries(q)
      PROVE  u \in Entries(Tail(q)) \cup {Head(q)}
  <2>1. PICK i \in 1..Len(q) : u = q[i]
    BY DEF Entries
  <2>2. CASE i = 1
    BY <1>1, <2>1, <2>2
  <2>3. CASE i # 1
    <3>1. i - 1 \in 1..Len(Tail(q)) /\ Tail(q)[i - 1] = u
      BY <1>1, <2>1, <2>3
    <3>. QED
      BY <3>1 DEF Entries
  <2>. QED
    BY <2>2, <2>3
<1>3. ASSUME NEW u \in Entries(Tail(q)) \cup {Head(q)}
      PROVE  u \in Entries(q)
  BY <1>1 DEF Entries
<1>. QED
  BY <1>1, <1>2, <1>3

LEMMA FetchTids ==
    ASSUME NEW q \in Seq(Tasks), q # <<>>, NEW f, TidsDiffer(q, f)
    PROVE  /\ TidsDiffer(Tail(q), f)
           /\ Head(q) \notin Entries(Tail(q))
<1>1. /\ Head(q) = q[1]
      /\ Len(q) \in Nat \ {0}
      /\ Len(Tail(q)) = Len(q) - 1
      /\ \A i \in 1..Len(Tail(q)) : Tail(q)[i] = q[i + 1]
  OBVIOUS
<1>2. TidsDiffer(Tail(q), f)
  <2>1. SUFFICES ASSUME NEW i \in 1..Len(Tail(q)), NEW j \in 1..Len(Tail(q)),
                        f[Tail(q)[i]] = f[Tail(q)[j]]
                 PROVE  i = j
    BY DEF TidsDiffer
  <2>2. i + 1 \in 1..Len(q) /\ j + 1 \in 1..Len(q) /\ f[q[i + 1]] = f[q[j + 1]]
    BY <1>1, <2>1
  <2>. QED
    BY <2>2 DEF TidsDiffer
<1>3. ASSUME Head(q) \in Entries(Tail(q))
      PROVE  FALSE
  <2>1. PICK i \in 1..Len(Tail(q)) : Head(q) = Tail(q)[i]
    BY <1>3 DEF Entries
  <2>2. i + 1 \in 1..Len(q) /\ 1 \in 1..Len(q) /\ q[i + 1] = q[1]
    BY <1>1, <2>1
  <2>. QED
    BY <2>2 DEF TidsDiffer
<1>. QED
  BY <1>2, <1>3

\* TidsDiffer depends on the tids of the queued tasks only.
LEMMA SameTids ==
    ASSUME NEW q \in Seq(Tasks), NEW f, NEW g, TidsDiffer(q, f),
           \A u \in Entries(q) : g[u] = f[u]
    PROVE  TidsDiffer(q, g)
<1>1. \A i \in 1..Len(q) : g[q[i]] = f[q[i]]
  BY DEF Entries
<1>. QED
  BY <1>1 DEF TidsDiffer

-----------------------------------------------------------------------------
(* The scheduler record.                                                    *)

\* A kernel record whose fields of TaskOps have their types.
IsTaskRec(q) ==
    /\ q = [x \in DOMAIN q |-> q[x]]
    /\ {"state", "event", "queue"} \subseteq DOMAIN q
    /\ q.state \in [Tasks -> TaskState]
    /\ q.event = [t \in Tasks |-> q.event[t]]
    /\ q.queue \in Seq(Tasks)

\* r is q but for the fields of TaskOps.
OnlyTasks(q, r) ==
    r = [q EXCEPT !.state = r.state, !.event = r.event, !.queue = r.queue]

\* A change to other fields leaves a scheduler record one.
LEMMA SameTaskRec ==
    ASSUME NEW p, NEW q, IsTaskRec(p), q = [x \in DOMAIN p |-> q[x]],
           q.state = p.state, q.event = p.event, q.queue = p.queue
    PROVE  IsTaskRec(q)
<1>1. DOMAIN q = DOMAIN p
  OBVIOUS
<1>. QED
  BY <1>1 DEF IsTaskRec

\* wakeup_task readies a blocked task, with its event, and queues it; it leaves
\* every other task alone.
LEMMA WakeupTask ==
    ASSUME NEW q, IsTaskRec(q), NEW t \in Tasks, NEW e,
           NEW r, r = wakeup_task(q, t, e)
    PROVE  /\ IsTaskRec(r)
           /\ OnlyTasks(q, r)
           /\ q.state[t] # "Blocked" => r = q
           /\ q.state[t] = "Blocked" =>
                 /\ r.state = [q.state EXCEPT ![t] = "Ready"]
                 /\ r.event = [q.event EXCEPT ![t] = e]
                 /\ r.queue = Append(q.queue, t)
<1>1. CASE q.state[t] # "Blocked"
  <2>1. r = q
    BY <1>1 DEF wakeup_task
  <2>2. OnlyTasks(q, q)
    BY DEF IsTaskRec, OnlyTasks
  <2>. QED
    BY <1>1, <2>1, <2>2
<1>2. CASE q.state[t] = "Blocked"
  <2>1. r = [q EXCEPT !.state = [q.state EXCEPT ![t] = "Ready"],
                      !.event = [q.event EXCEPT ![t] = e],
                      !.queue = Append(q.queue, t)]
    BY <1>2 DEF wakeup_task, push_task, IsTaskRec
  <2>2. /\ r.state = [q.state EXCEPT ![t] = "Ready"]
        /\ r.event = [q.event EXCEPT ![t] = e]
        /\ r.queue = Append(q.queue, t)
        /\ DOMAIN r = DOMAIN q
        /\ r = [x \in DOMAIN r |-> r[x]]
    BY <2>1 DEF IsTaskRec
  <2>3. IsTaskRec(r)
    <3>1. r.state \in [Tasks -> TaskState]
      BY <2>2 DEF IsTaskRec, TaskState
    <3>2. r.event = [u \in Tasks |-> r.event[u]]
      BY <2>2 DEF IsTaskRec
    <3>3. r.queue \in Seq(Tasks)
      BY <2>2 DEF IsTaskRec
    <3>. QED
      BY <2>2, <3>1, <3>2, <3>3 DEF IsTaskRec
  <2>4. OnlyTasks(q, r)
    BY <2>1, <2>2 DEF OnlyTasks
  <2>. QED
    BY <1>2, <2>2, <2>3, <2>4
<1>. QED
  BY <1>1, <1>2

\* f holds the kernels between the iterations of wake_all.
Wakes(f, q, w) ==
    f = [n \in 0..Len(w) |-> IF n = 0 THEN q ELSE wakeup_task(f[n - 1], w[n].task, w[n].arg)]

LEMMA WakesExist ==
    ASSUME NEW q, NEW w, Len(w) \in Nat
    PROVE  \E f : Wakes(f, q, w)
<1>. DEFINE N == Len(w)
            step(x, n) == wakeup_task(x, w[n].task, w[n].arg)
            Ok(f, m) == f = [n \in 0..m |-> IF n = 0 THEN q ELSE step(f[n - 1], n)]
            Bad == {m \in 0..N : ~\E f : Ok(f, m)}
<1>. HIDE DEF step
<1>1. SUFFICES ASSUME Bad # {} PROVE FALSE
  <2>1. N \in 0..N
    OBVIOUS
  <2>2. PICK f : Ok(f, N)
    BY <1>1, <2>1
  <2>3. Wakes(f, q, w)
    BY <2>2 DEF Wakes, step
  <2>. QED
    BY <2>3
<1>2. PICK m \in Bad : \A n \in Bad : m <= n
  <2>1. Bad \in SUBSET Nat
    OBVIOUS
  <2>. HIDE DEF Bad
  <2>. QED
    BY <1>1, <2>1, NatMin
<1>3. m # 0
  <2>1. Ok([n \in 0..0 |-> q], 0)
    OBVIOUS
  <2>. QED
    BY <2>1
<1>4. m - 1 \in 0..N /\ m - 1 \notin Bad
  BY <1>2, <1>3
<1>5. PICK f : Ok(f, m - 1)
  BY <1>4
<1>. DEFINE g == [n \in 0..m |-> IF n = m THEN step(f[m - 1], m) ELSE f[n]]
<1>6. ASSUME NEW n \in 0..m
      PROVE  g[n] = IF n = 0 THEN q ELSE step(g[n - 1], n)
  <2>1. m \in Nat /\ m # 0
    BY <1>3
  <2>2. CASE n = m
    BY <2>1, <2>2
  <2>3. CASE n # m
    <3>1. n \in 0..(m - 1)
      BY <2>3
    <3>2. f[n] = IF n = 0 THEN q ELSE step(f[n - 1], n)
      BY <3>1, <1>5
    <3>3. g[n] = f[n]
      BY <2>3
    <3>4. n # 0 => n - 1 \in 0..m /\ n - 1 # m
      BY <3>1
    <3>5. n # 0 => g[n - 1] = f[n - 1]
      BY <3>4
    <3>. QED
      BY <3>2, <3>3, <3>5
  <2>. QED
    BY <2>2, <2>3
<1>7. g = [n \in 0..m |-> g[n]]
  OBVIOUS
<1>8. Ok(g, m)
  <2>. HIDE DEF g
  <2>. QED
    BY <1>6, <1>7
<1>. QED
  BY <1>8

LEMMA WakeAllUnfolds ==
    ASSUME NEW q, NEW w, Len(w) \in Nat
    PROVE  \E f : /\ wake_all(q, w) = f[Len(w)]
                  /\ f[0] = q
                  /\ \A n \in 1..Len(w) : f[n] = wakeup_task(f[n - 1], w[n].task, w[n].arg)
<1>. DEFINE g == CHOOSE f : Wakes(f, q, w)
<1>1. Wakes(g, q, w)
  BY WakesExist
<1>2. wake_all(q, w) = g[Len(w)]
  BY DEF wake_all, Wakes
<1>. HIDE DEF g
<1>3. g[0] = q
  BY <1>1 DEF Wakes
<1>4. \A n \in 1..Len(w) : g[n] = wakeup_task(g[n - 1], w[n].task, w[n].arg)
  BY <1>1 DEF Wakes
<1>. QED
  BY <1>2, <1>3, <1>4

\* The first n waiters of w are woken: those of them that were blocked are ready,
\* queued, and have the event of one of their entries; nothing else changed.
Target(w, n, t) == \E i \in 1..n : w[i].task = t

Woken(q, w, n, r) ==
    /\ IsTaskRec(r)
    /\ OnlyTasks(q, r)
    /\ \A t \in Tasks : q.state[t] = "Blocked" /\ Target(w, n, t) =>
          /\ r.state[t] = "Ready"
          /\ t \in Entries(r.queue)
          /\ \E i \in 1..n : w[i].task = t /\ r.event[t] = w[i].arg
    /\ \A t \in Tasks : q.state[t] # "Blocked" \/ ~Target(w, n, t) =>
          r.state[t] = q.state[t] /\ r.event[t] = q.event[t]
    /\ Entries(q.queue) \subseteq Entries(r.queue)
    /\ \A t \in Entries(r.queue) : t \in Entries(q.queue) \/ q.state[t] = "Blocked"

LEMMA WokenStep ==
    ASSUME NEW q, NEW w, NEW n \in Nat, n # 0, NEW p, Woken(q, w, n - 1, p),
           NEW r, r = wakeup_task(p, w[n].task, w[n].arg), w[n].task \in Tasks
    PROVE  Woken(q, w, n, r)
<1>. DEFINE u == w[n].task
            e == w[n].arg
<1>0. IsTaskRec(p) /\ u \in Tasks /\ r = wakeup_task(p, u, e)
  BY DEF Woken
<1>. HIDE DEF u, e
<1>1. /\ IsTaskRec(r)
      /\ OnlyTasks(p, r)
      /\ p.state[u] # "Blocked" => r = p
      /\ p.state[u] = "Blocked" =>
            /\ r.state = [p.state EXCEPT ![u] = "Ready"]
            /\ r.event = [p.event EXCEPT ![u] = e]
            /\ r.queue = Append(p.queue, u)
  BY ONLY <1>0, WakeupTask
<1>2. OnlyTasks(q, r)
  <2>1. OnlyTasks(q, p) /\ OnlyTasks(p, r)
    BY <1>1 DEF Woken
  <2>. QED
    BY <2>1 DEF OnlyTasks
<1>3. u \in Tasks /\ p.queue \in Seq(Tasks) /\ p.state \in [Tasks -> TaskState]
      /\ p.event = [t \in Tasks |-> p.event[t]]
  BY <1>0 DEF IsTaskRec
<1>4. \A t \in Tasks : Target(w, n, t) <=> Target(w, n - 1, t) \/ t = u
  BY DEF Target, u
<1>5. CASE p.state[u] # "Blocked"
  <2>1. r = p
    BY <1>1, <1>5
  <2>2. q.state[u] # "Blocked" \/ Target(w, n - 1, u)
    BY <1>3, <1>5 DEF Woken
  <2>3. \A t \in Tasks : q.state[t] = "Blocked" /\ Target(w, n, t) => Target(w, n - 1, t)
    BY <1>4, <2>2
  <2>4. \A t \in Tasks : q.state[t] # "Blocked" \/ ~Target(w, n, t)
                          => q.state[t] # "Blocked" \/ ~Target(w, n - 1, t)
    BY <1>4
  <2>5. \A i \in 1..(n - 1) : i \in 1..n
    OBVIOUS
  <2>6. ASSUME NEW t \in Tasks, q.state[t] = "Blocked", Target(w, n, t)
        PROVE  /\ r.state[t] = "Ready"
               /\ t \in Entries(r.queue)
               /\ \E i \in 1..n : w[i].task = t /\ r.event[t] = w[i].arg
    BY <2>1, <2>3, <2>5, <2>6 DEF Woken
  <2>. QED
    BY <1>1, <1>2, <2>1, <2>4, <2>6 DEF Woken
<1>6. CASE p.state[u] = "Blocked"
  <2>1. q.state[u] = "Blocked" /\ ~Target(w, n - 1, u)
    BY <1>3, <1>6 DEF Woken
  <2>2. Entries(r.queue) = Entries(p.queue) \cup {u}
    BY <1>1, <1>3, <1>6, PushEntries
  <2>3. r.state[u] = "Ready" /\ r.event[u] = e /\ n \in 1..n
    BY <1>1, <1>3, <1>6
  <2>4. \A t \in Tasks : t # u => r.state[t] = p.state[t] /\ r.event[t] = p.event[t]
    BY <1>1, <1>3, <1>6
  <2>5. ASSUME NEW t \in Tasks, q.state[t] = "Blocked", Target(w, n, t)
        PROVE  /\ r.state[t] = "Ready"
               /\ t \in Entries(r.queue)
               /\ \E i \in 1..n : w[i].task = t /\ r.event[t] = w[i].arg
    <3>1. CASE t = u
      BY <2>2, <2>3, <3>1 DEF u, e
    <3>2. CASE t # u
      <4>1. Target(w, n - 1, t)
        BY <1>4, <2>5, <3>2
      <4>2. /\ p.state[t] = "Ready" /\ t \in Entries(p.queue)
            /\ \E i \in 1..(n - 1) : w[i].task = t /\ p.event[t] = w[i].arg
        BY <4>1, <2>5 DEF Woken
      <4>3. \A i \in 1..(n - 1) : i \in 1..n
        OBVIOUS
      <4>. QED
        BY <2>2, <2>4, <3>2, <4>2, <4>3
    <3>. QED
      BY <3>1, <3>2
  <2>6. ASSUME NEW t \in Tasks, q.state[t] # "Blocked" \/ ~Target(w, n, t)
        PROVE  r.state[t] = q.state[t] /\ r.event[t] = q.event[t]
    <3>1. t # u
      BY <1>4, <2>1, <2>6
    <3>2. q.state[t] # "Blocked" \/ ~Target(w, n - 1, t)
      BY <1>4, <2>6
    <3>. QED
      BY <2>4, <3>1, <3>2 DEF Woken
  <2>7. Entries(q.queue) \subseteq Entries(r.queue)
    BY <2>2 DEF Woken
  <2>8. \A t \in Entries(r.queue) : t \in Entries(q.queue) \/ q.state[t] = "Blocked"
    BY <2>1, <2>2 DEF Woken
  <2>. QED
    BY <1>1, <1>2, <2>5, <2>6, <2>7, <2>8 DEF Woken
<1>. QED
  BY <1>5, <1>6

\* wake_all wakes every waiter.
LEMMA WakeAll ==
    ASSUME NEW q, IsTaskRec(q), NEW w, Len(w) \in Nat,
           \A i \in 1..Len(w) : w[i].task \in Tasks
    PROVE  Woken(q, w, Len(w), wake_all(q, w))
<1>1. PICK f : /\ wake_all(q, w) = f[Len(w)]
               /\ f[0] = q
               /\ \A n \in 1..Len(w) : f[n] = wakeup_task(f[n - 1], w[n].task, w[n].arg)
  BY WakeAllUnfolds
<1>. DEFINE Bad == {n \in 0..Len(w) : ~Woken(q, w, n, f[n])}
<1>2. SUFFICES ASSUME Bad # {} PROVE FALSE
  BY <1>1
<1>3. PICK n \in Bad : \A m \in Bad : n <= m
  <2>1. Bad \in SUBSET Nat
    OBVIOUS
  <2>. HIDE DEF Bad
  <2>. QED
    BY <1>2, <2>1, NatMin
<1>4. Woken(q, w, 0, q)
  <2>1. OnlyTasks(q, q)
    BY DEF IsTaskRec, OnlyTasks
  <2>2. \A t : ~Target(w, 0, t)
    BY DEF Target
  <2>. QED
    BY <2>1, <2>2 DEF Woken
<1>5. n # 0
  BY <1>1, <1>3, <1>4
<1>6. n \in Nat /\ n \in 1..Len(w) /\ n - 1 \in 0..Len(w) /\ n - 1 \notin Bad
  BY <1>3, <1>5
<1>7. Woken(q, w, n - 1, f[n - 1])
  BY <1>6
<1>8. f[n] = wakeup_task(f[n - 1], w[n].task, w[n].arg) /\ w[n].task \in Tasks
  BY <1>1, <1>6
<1>9. Woken(q, w, n, f[n])
  BY <1>5, <1>6, <1>7, <1>8, WokenStep
<1>. QED
  BY <1>3, <1>9

-----------------------------------------------------------------------------
(* The start of a segment.                                                  *)

\* run_tasks takes the head of the queue and runs it.
LEMMA FetchAndRun ==
    ASSUME NEW q, IsTaskRec(q), q.queue # <<>>, NEW t, t = Head(q.queue),
           NEW r, r = run_if_ready(fetch_next_task(q), t)
    PROVE  /\ t \in Tasks
           /\ IsTaskRec(r)
           /\ r = [q EXCEPT !.state = [q.state EXCEPT ![t] = "Running"],
                            !.queue = Tail(q.queue)]
<1>1. t \in Tasks /\ Tail(q.queue) \in Seq(Tasks)
  BY FetchEntries DEF IsTaskRec
<1>2. r = [q EXCEPT !.state = [q.state EXCEPT ![t] = "Running"], !.queue = Tail(q.queue)]
  BY DEF run_if_ready, fetch_next_task, IsTaskRec
<1>3. /\ DOMAIN r = DOMAIN q
      /\ r = [x \in DOMAIN r |-> r[x]]
      /\ r.state = [q.state EXCEPT ![t] = "Running"]
      /\ r.event = q.event
      /\ r.queue = Tail(q.queue)
  BY <1>2 DEF IsTaskRec
<1>4. r.state \in [Tasks -> TaskState]
  BY <1>3 DEF IsTaskRec, TaskState
<1>5. IsTaskRec(r)
  BY <1>1, <1>3, <1>4, SMTT(20) DEF IsTaskRec
<1>. QED
  BY <1>1, <1>2, <1>5

=============================================================================
