------------------------------- MODULE Memory -------------------------------
(***************************************************************************)
(* What the address spaces promise to the programs: each has a flat memory *)
(* of its own, in which nothing changes but by a store to that very page,  *)
(* or to a page of a shared mapping that is the same memory.  Demand       *)
(* paging, copy on write, splitting of areas and page tables do not show.  *)
(***************************************************************************)
EXTENDS Integers

CONSTANTS Spaces, Pages, Values, Unmapped

Places == Spaces \X Pages

VARIABLES view,     \* what a program finds at a place, or Unmapped
          same      \* a place of a shared mapping -> the places that are the same memory

vars == <<view, same>>

TypeOK == /\ view \in [Places -> Values \cup {Unmapped}]
          /\ \A x \in DOMAIN same : x \in same[x] /\ same[x] \subseteq DOMAIN same

Of(a) == {a} \X Pages
Cells(x) == IF x \in DOMAIN same THEN same[x] ELSE {x}
Empty(a) == \A x \in Of(a) : view[x] = Unmapped

\* Outside S no place changes its content or its partners.
OnlyIn(S) ==
    LET before == same
        after == same'
    IN  /\ \A x \in Places \ S : view'[x] = view[x]
        /\ DOMAIN after \ S = DOMAIN before \ S
        /\ \A x \in DOMAIN before \ S : after[x] \ S = before[x] \ S

-----------------------------------------------------------------------------

Init == TypeOK /\ same = <<>>

\* A load, a fault, a change of protection: nothing a program would notice.
Touch == UNCHANGED vars

Store(x, v) ==
    /\ view[x] # Unmapped /\ v \in Values
    /\ view' = [y \in Places |-> IF y \in Cells(x) THEN v ELSE view[y]]
    /\ UNCHANGED same

\* mmap, brk, shmat: new memory at the places S; munmap: none.
Remap(S) == /\ \/ \A x \in S : view'[x] # Unmapped
               \/ \A x \in S : view'[x] = Unmapped
            /\ OnlyIn(S)

\* Where a range that was mapped or unmapped begins and ends.
Changed(a) == {p \in Pages : \/ view'[<<a, p>>] # view[<<a, p>>]
                             \/ Cells(<<a, p>>)' # Cells(<<a, p>>)}

\* The child finds what its parent had, in memory of its own but for shared
\* mappings; those are the parent's, or new.
Fork(a, c) ==
    /\ Empty(c) /\ OnlyIn(Of(c))
    /\ \A p \in Pages :
          /\ view'[<<c, p>>] = view[<<a, p>>]
          /\ <<c, p>> \in DOMAIN same' <=> <<a, p>> \in DOMAIN same
          /\ <<a, p>> \in DOMAIN same => same'[<<c, p>>] \ Of(c) \in {{}, same[<<a, p>>]}

\* A new program in c, all its memory its own; that of a goes with its last task.
Exec(a, c) == /\ Empty(c)
              /\ \/ OnlyIn(Of(c))
                 \/ OnlyIn(Of(a) \cup Of(c)) /\ \A x \in Of(a) : view'[x] = Unmapped
              /\ Of(c) \cap DOMAIN same' = {}

Exit(a) == \A x \in Of(a) : view'[x] = Unmapped

\* v of a store is what is found afterwards.
Next == \/ Touch
        \/ \E x \in Places : view'[x] # view[x] /\ Store(x, view'[x])
        \/ \E a \in Spaces :
              /\ OnlyIn(Of(a))
              /\ \/ \E lo, hi \in Changed(a) : lo <= hi /\ Remap({a} \X (lo..hi))
                 \/ Exit(a)
        \/ \E a, c \in Spaces : Fork(a, c) \/ Exec(a, c)

Spec == Init /\ [][Next]_vars

=============================================================================
