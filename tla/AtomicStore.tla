---------------------------- MODULE AtomicStore ----------------------------
(***************************************************************************)
(* What a journal promises the file system over it: a durable image of the  *)
(* blocks, a visible image that a transaction changes block by block, and   *)
(* steps that make the two equal again.                                    *)
(*   store  the image the next mount finds, whenever the power fails        *)
(*   view   the image the running file system reads                        *)
(*   open   is a transaction open?                                         *)
(* A block is Free, or <<"meta", value>>, or <<"data", value>>.  File data   *)
(* is written in place, outside any transaction.                           *)
(***************************************************************************)
EXTENDS Naturals

CONSTANTS Block, Value

VARIABLES store, view, open

vars == <<store, view, open>>

Free == <<"free", 0>>

Content == {Free} \cup ({"meta", "data"} \X Value)

TypeOK == /\ store \in [Block -> Content]
          /\ view \in [Block -> Content]
          /\ open \in BOOLEAN

Init == TypeOK /\ view = store /\ ~open

Begin == ~open /\ open' = TRUE /\ UNCHANGED <<store, view>>

\* A block that holds no committed file data is changed in the transaction.
Write == /\ open
         /\ \E b \in Block, c \in Content : view' = [view EXCEPT ![b] = c]
         /\ UNCHANGED <<store, open>>

WriteData == \E b \in Block, v \in Value :
               /\ view[b][1] = "data" /\ store[b][1] = "data"
               /\ view'  = [view EXCEPT ![b] = <<"data", v>>]
               /\ store' = [store EXCEPT ![b] = <<"data", v>>]
               /\ UNCHANGED open

Commit == open /\ store' = view /\ open' = FALSE /\ UNCHANGED view

\* The transaction is aborted, or lost in a crash.
Abort == open /\ view' = store /\ open' = FALSE /\ UNCHANGED store

Next == Begin \/ Write \/ WriteData \/ Commit \/ Abort

Spec == Init /\ [][Next]_vars
=============================================================================
