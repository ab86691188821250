------------------------------ MODULE FileMap -------------------------------
(***************************************************************************)
(* What the files of a file system promise: each is a function from the    *)
(* offsets below its size to bytes.  A write puts the writer's bytes at    *)
(* its offsets and zeros in the gap it may leave before them; growing adds *)
(* zeros; nothing else changes, and no byte comes from anywhere else.      *)
(* When space runs out an operation stops half way: a part of the write is *)
(* done, or the file has grown by some zeros.                              *)
(***************************************************************************)
EXTENDS Integers, FiniteSets

CONSTANTS
  Ino,          \* inode numbers
  MaxSize,      \* the largest size
  Own(_, _)     \* the byte that is written to file i at offset o

VARIABLE files

Size(f) == Cardinality(DOMAIN f)

Empty == [o \in {} |-> 0]

\* File f with bytes from..to - 1 written and zeros up to size n.
Filled(i, f, from, to, n) ==
  [o \in 0..n - 1 |-> IF o \in from..to - 1 THEN Own(i, o) ELSE IF o < Size(f) THEN f[o] ELSE 0]

\* File f with size n.
Resized(f, n) == [o \in 0..n - 1 |-> IF o < Size(f) THEN f[o] ELSE 0]

Larger(m, n) == IF m > n THEN m ELSE n

\* Every byte is the file's own or 0.
IsFile(i, f) ==
  /\ \E n \in 0..MaxSize : DOMAIN f = 0..n - 1
  /\ \A o \in DOMAIN f : f[o] \in {0, Own(i, o)}

Init == DOMAIN files \subseteq Ino /\ \A i \in DOMAIN files : IsFile(i, files[i])

Create(i) == i \notin DOMAIN files /\ files' = [j \in DOMAIN files \cup {i} |->
                                                 IF j = i THEN Empty ELSE files[j]]

Link(i, n) == i \notin DOMAIN files /\ files' = [j \in DOMAIN files \cup {i} |->
                                                  IF j = i THEN Filled(i, Empty, 0, n, n) ELSE files[j]]

Write(i, pos, n) ==
  /\ i \in DOMAIN files
  /\ files' = [files EXCEPT ![i] = Filled(i, @, pos, pos + n, Larger(Size(@), pos + n))]

\* The write stopped after m of its bytes, the size somewhere past the old one.
WriteStops(i, pos, n) ==
  /\ i \in DOMAIN files
  /\ \E m \in 0..n, z \in Size(files[i])..Larger(Size(files[i]), pos + n) :
       files' = [files EXCEPT ![i] = Filled(i, @, pos, pos + m, z)]

SetLen(i, n) == i \in DOMAIN files /\ files' = [files EXCEPT ![i] = Resized(@, n)]

Remove(i) == i \in DOMAIN files /\ files' = [j \in DOMAIN files \ {i} |-> files[j]]

Next ==
  \E i \in Ino :
    \/ Create(i)
    \/ Remove(i)
    \/ \E n \in 0..MaxSize : Link(i, n) \/ SetLen(i, n)
    \/ \E pos \in 0..MaxSize - 1 : \E n \in 1..MaxSize - pos : Write(i, pos, n) \/ WriteStops(i, pos, n)

Spec == Init /\ [][Next]_files
=============================================================================
