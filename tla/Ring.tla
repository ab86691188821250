-------------------------------- MODULE Ring --------------------------------
(***************************************************************************)
(* The byte ring of a pipe (struct FIFO of ipc/pipe/inner.rs), as functions *)
(* on a record f = [data, head, tail]; data is a function on 0..RingSize-1. *)
(* head = tail means empty: the ring cannot tell full from empty.           *)
(***************************************************************************)
EXTENDS Integers, Sequences, TLAPS

CONSTANTS RingSize,   \* PIPE_CAPACITY of inner.rs: PGSIZE * PIPE_BUFFER_PAGES
          PageSize    \* PGSIZE: a user buffer comes in chunks of a page

ASSUME RingAssumption == RingSize \in Nat \ {0} /\ PageSize \in Nat \ {0}

Least(a, b) == IF a <= b THEN a ELSE b

new(byte) == [data |-> [i \in 0..(RingSize - 1) |-> byte], head |-> 0, tail |-> 0]

is_empty(f) == f.head = f.tail

\* Mutant: no wrap-around in the length.
len_no_wrap(f) == IF f.head <= f.tail THEN f.tail - f.head ELSE f.head - f.tail

len(f) == IF f.head <= f.tail THEN f.tail - f.head ELSE RingSize - (f.head - f.tail)

\* The bytes from head to tail, oldest first.
contents(f) == [i \in 1..len(f) |-> f.data[(f.head + i - 1) % RingSize]]

\* n times pop_front, and pop_front_ubuf: the bytes are the first n of contents.
pop(f, n) == [f EXCEPT !.head = (@ + n) % RingSize]

\* push_back of every byte of s; nothing looks at the head.
push(f, s) ==
    [f EXCEPT !.data = [i \in 0..(RingSize - 1) |->
                  LET hits == {j \in 1..Len(s) : (f.tail + j - 1) % RingSize = i}
                  IN  IF hits = {} THEN @[i]
                      ELSE s[CHOOSE j \in hits : \A h \in hits : h <= j]],
              !.tail = (@ + Len(s)) % RingSize]

\* UAddrSpaceBuffer::iter, for a page-aligned buffer.
chunks(s) ==
    [i \in 1..((Len(s) + PageSize - 1) \div PageSize) |->
        SubSeq(s, (i - 1) * PageSize + 1, Least(i * PageSize, Len(s)))]

\* Each chunk is cut to the room that len reports when its turn comes.  The chunks
\* end without a word at the first page that is not mapped: pages are mapped.
push_back_ubuf(f, s, pages) ==
    LET c == SubSeq(chunks(s), 1, pages)
        pushed[n \in 0..Len(c)] ==
            IF n = 0 THEN f
            ELSE push(pushed[n - 1],
                      SubSeq(c[n], 1, Least(Len(c[n]), RingSize - len(pushed[n - 1]))))
    IN  pushed[Len(c)]

(***************************************************************************)
(* The ring as a queue, for every size.                                    *)
(***************************************************************************)
IsRing(f, Byte) ==
    f \in [data : [0..(RingSize - 1) -> Byte], head : 0..(RingSize - 1), tail : 0..(RingSize - 1)]

\* A place at most one turn past the ring's end.
LEMMA Wrap ==
  ASSUME NEW x \in 0..(2 * RingSize - 1)
  PROVE  x % RingSize = IF x < RingSize THEN x ELSE x - RingSize
BY RingAssumption

\* Every place is within the ring.
LEMMA WithinRing ==
  ASSUME NEW x \in Nat
  PROVE  x % RingSize \in 0..(RingSize - 1)
BY RingAssumption

\* Bytes held lead from head to tail, once around at most.
LEMMA LenRange ==
  ASSUME NEW Byte, NEW f, IsRing(f, Byte)
  PROVE  /\ len(f) \in 0..(RingSize - 1) /\ (f.head + len(f)) % RingSize = f.tail
         /\ f.head + len(f) = f.tail \/ f.head + len(f) = f.tail + RingSize
<1>1. len(f) \in 0..(RingSize - 1) /\ f.head + len(f) \in 0..(2 * RingSize - 1)
  BY RingAssumption DEF len, IsRing
<1> DEFINE x == f.head + len(f)
<1>2. x % RingSize = IF x < RingSize THEN x ELSE x - RingSize
  BY <1>1, Wrap
<1>3. f.tail \in 0..(RingSize - 1) /\ (x = f.tail \/ x = f.tail + RingSize)
  BY RingAssumption DEF len, IsRing
<1> HIDE DEF x
<1>4. x % RingSize = f.tail
  BY <1>2, <1>3, RingAssumption
<1>5. QED
  BY <1>1, <1>3, <1>4 DEF x

\* pop_front n times takes the n oldest bytes and leaves the rest in order, across
\* the end of the storage too.
THEOREM PopDropsTheOldest ==
  ASSUME NEW Byte, NEW f, IsRing(f, Byte), NEW n \in 0..len(f)
  PROVE  /\ IsRing(pop(f, n), Byte) /\ len(pop(f, n)) = len(f) - n
         /\ \A i \in 1..(len(f) - n) : contents(pop(f, n))[i] = contents(f)[i + n]
<1> DEFINE g == pop(f, n)
<1>1. len(f) \in 0..(RingSize - 1) /\ RingSize \in Nat \ {0}
  BY LenRange, RingAssumption
<1>2. f.head \in 0..(RingSize - 1) /\ f.tail \in 0..(RingSize - 1) /\ n \in 0..(RingSize - 1)
  BY <1>1 DEF IsRing
<1>3. g.head = (f.head + n) % RingSize /\ g.tail = f.tail /\ g.data = f.data
  BY DEF pop, IsRing
<1>4. g.head = IF f.head + n < RingSize THEN f.head + n ELSE f.head + n - RingSize
  BY <1>1, <1>2, <1>3, Wrap
<1>5. IsRing(g, Byte)
  <2>1. g.head \in 0..(RingSize - 1)
    BY <1>1, <1>2, <1>4
  <2>2. g = [f EXCEPT !.head = g.head]
    BY <1>3 DEF pop, IsRing
  <2>3. QED
    BY <2>1, <2>2 DEF IsRing
<1>6. len(g) = len(f) - n
  BY <1>1, <1>2, <1>3, <1>4 DEF len
<1> HIDE DEF g
<1>7. ASSUME NEW i \in 1..(len(f) - n)
      PROVE  contents(g)[i] = contents(f)[i + n]
  <2>1. (g.head + i - 1) % RingSize = (f.head + (i + n) - 1) % RingSize
    <3> DEFINE x == g.head + i - 1
               y == f.head + (i + n) - 1
    <3>1. x \in 0..(2 * RingSize - 1) /\ y \in 0..(2 * RingSize - 1) /\ (x = y \/ x = y - RingSize)
      BY <1>1, <1>2, <1>4
    <3> HIDE DEF x, y
    <3>2. x % RingSize = IF x < RingSize THEN x ELSE x - RingSize
      BY <3>1, Wrap
    <3>3. y % RingSize = IF y < RingSize THEN y ELSE y - RingSize
      BY <3>1, Wrap
    <3>4. x % RingSize = y % RingSize
      BY <1>1, <3>1, <3>2, <3>3
    <3>5. QED
      BY <3>4 DEF x, y
  <2>2. i \in 1..len(g) /\ i + n \in 1..len(f)
    BY <1>1, <1>2, <1>6
  <2>3. QED
    BY <1>3, <2>1, <2>2 DEF contents
<1>8. QED
  BY <1>5, <1>6, <1>7 DEF g

\* The place of the k-th byte from p on.
Place(p, k) == (p + k - 1) % RingSize

LEMMA PlaceIs ==
  ASSUME NEW p \in 0..(RingSize - 1), NEW k \in 1..RingSize
  PROVE  /\ Place(p, k) \in 0..(RingSize - 1)
         /\ Place(p, k) = p + k - 1 \/ Place(p, k) = p + k - 1 - RingSize
<1> DEFINE x == p + k - 1
<1>1. x \in 0..(2 * RingSize - 1) /\ RingSize \in Nat \ {0}
  BY RingAssumption
<1>2. Place(p, k) = x % RingSize
  BY DEF Place
<1> HIDE DEF x
<1>3. x % RingSize = IF x < RingSize THEN x ELSE x - RingSize
  BY <1>1, Wrap
<1>4. Place(p, k) \in 0..(RingSize - 1) /\ (Place(p, k) = x \/ Place(p, k) = x - RingSize)
  BY <1>1, <1>2, <1>3
<1>5. QED
  BY <1>1, <1>4 DEF x

\* The bytes of one turn go to different places.
LEMMA PlacesDiffer ==
  ASSUME NEW p \in 0..(RingSize - 1), NEW j \in 1..RingSize, NEW k \in 1..RingSize,
         Place(p, j) = Place(p, k)
  PROVE  j = k
<1>1. Place(p, j) \in Int /\ (Place(p, j) = p + j - 1 \/ Place(p, j) = p + j - 1 - RingSize)
  BY PlaceIs
<1>2. Place(p, j) = p + k - 1 \/ Place(p, j) = p + k - 1 - RingSize
  BY PlaceIs
<1>3. QED
  BY <1>1, <1>2, RingAssumption

\* What push_back leaves in each place.
LEMMA PushPlaces ==
  ASSUME NEW Byte, NEW f, IsRing(f, Byte), NEW s \in Seq(Byte), Len(s) <= RingSize
  PROVE  /\ IsRing(push(f, s), Byte) /\ push(f, s).head = f.head
         /\ push(f, s).tail = (f.tail + Len(s)) % RingSize
         /\ \A j \in 1..Len(s) : push(f, s).data[Place(f.tail, j)] = s[j]
         /\ \A i \in 0..(RingSize - 1) :
               (\A j \in 1..Len(s) : Place(f.tail, j) # i) => push(f, s).data[i] = f.data[i]
<1> DEFINE g == push(f, s)
           Hits(i) == {j \in 1..Len(s) : (f.tail + j - 1) % RingSize = i}
           New(i) == IF Hits(i) = {} THEN f.data[i]
                     ELSE s[CHOOSE j \in Hits(i) : \A h \in Hits(i) : h <= j]
<1>1. /\ g.head = f.head /\ g.tail = (f.tail + Len(s)) % RingSize
      /\ g.data = [i \in 0..(RingSize - 1) |-> New(i)]
      /\ g = [f EXCEPT !.data = g.data, !.tail = g.tail]
  BY DEF push, IsRing
<1> HIDE DEF g
<1>2. RingSize \in Nat \ {0} /\ Len(s) \in Nat /\ f.tail \in 0..(RingSize - 1)
  BY RingAssumption DEF IsRing
<1>3. ASSUME NEW i \in 0..(RingSize - 1), NEW j \in Hits(i)
      PROVE  New(i) = s[j]
  <2>1. \A h \in Hits(i) : h = j
    BY <1>2, PlacesDiffer DEF Place
  <2>2. j \in Int /\ j <= j
    OBVIOUS
  <2>3. (CHOOSE k \in Hits(i) : \A h \in Hits(i) : h <= k) = j
    BY <2>1, <2>2
  <2>4. QED
    BY <2>3
<1>4. ASSUME NEW j \in 1..Len(s) PROVE Place(f.tail, j) \in 0..(RingSize - 1) /\ j \in Hits(Place(f.tail, j))
  <2>1. j \in 1..RingSize
    BY <1>2
  <2>2. Place(f.tail, j) \in 0..(RingSize - 1)
    BY <1>2, <2>1, PlaceIs
  <2>3. QED
    BY <2>2 DEF Place
<1>5. \A j \in 1..Len(s) : g.data[Place(f.tail, j)] = s[j]
  <2> HIDE DEF New, Hits
  <2> QED
    BY <1>1, <1>3, <1>4
<1>6. ASSUME NEW i \in 0..(RingSize - 1), \A j \in 1..Len(s) : Place(f.tail, j) # i
      PROVE  g.data[i] = f.data[i]
  <2>1. Hits(i) = {}
    BY <1>6 DEF Place
  <2>2. New(i) = f.data[i]
    BY <2>1
  <2> HIDE DEF New
  <2>3. QED
    BY <1>1, <2>2
<1>7. IsRing(g, Byte)
  <2>1. g.tail \in 0..(RingSize - 1)
    <3> DEFINE x == f.tail + Len(s)
    <3>1. x \in Nat
      BY <1>2
    <3>2. g.tail = x % RingSize
      BY <1>1
    <3> HIDE DEF x
    <3>3. QED
      BY <3>1, <3>2, WithinRing
  <2>2. ASSUME NEW i \in 0..(RingSize - 1) PROVE New(i) \in Byte
    <3>1. CASE Hits(i) = {}
      BY <3>1 DEF IsRing
    <3>2. CASE Hits(i) # {}
      <4>1. PICK j \in Hits(i) : TRUE
        BY <3>2
      <4>2. j \in 1..Len(s)
        OBVIOUS
      <4>3. s[j] \in Byte
        BY <4>2
      <4> HIDE DEF New, Hits
      <4>4. QED
        BY <1>3, <4>1, <4>3
    <3>3. QED
      BY <3>1, <3>2
  <2> HIDE DEF New
  <2>3. g.data \in [0..(RingSize - 1) -> Byte]
    BY <1>1, <2>2
  <2>4. QED
    BY <1>1, <2>1, <2>3 DEF IsRing
<1>8. QED
  BY <1>1, <1>5, <1>6, <1>7 DEF g

\* push_back of bytes that leave at least one place free appends them: nothing
\* unread is overwritten, and the length is the number of bytes held.
THEOREM PushAppends ==
  ASSUME NEW Byte, NEW f, IsRing(f, Byte), NEW s \in Seq(Byte), len(f) + Len(s) < RingSize
  PROVE  /\ IsRing(push(f, s), Byte) /\ len(push(f, s)) = len(f) + Len(s)
         /\ \A k \in 1..len(f) : contents(push(f, s))[k] = contents(f)[k]
         /\ \A j \in 1..Len(s) : contents(push(f, s))[len(f) + j] = s[j]
<1> DEFINE g == push(f, s)
           n == len(f)
           m == Len(s)
<1>1. RingSize \in Nat \ {0} /\ n \in 0..(RingSize - 1) /\ m \in Nat /\ n + m < RingSize
  BY LenRange, RingAssumption
<1>2. /\ IsRing(g, Byte) /\ g.head = f.head /\ g.tail = (f.tail + m) % RingSize
      /\ \A j \in 1..m : g.data[Place(f.tail, j)] = s[j]
      /\ \A i \in 0..(RingSize - 1) :
            (\A j \in 1..m : Place(f.tail, j) # i) => g.data[i] = f.data[i]
  <2>1. Len(s) <= RingSize
    BY <1>1
  <2>2. QED
    BY <2>1, PushPlaces
<1>3. f.head \in 0..(RingSize - 1) /\ f.tail \in 0..(RingSize - 1)
  BY DEF IsRing
<1> HIDE DEF g, n, m
<1>5. len(g) = n + m
  <2> DEFINE h == f.head
             t == f.tail
             u == g.tail
             x == t + m
  <2>1. /\ RingSize \in Nat \ {0} /\ n \in Nat /\ m \in Nat /\ n + m < RingSize
        /\ h \in 0..(RingSize - 1) /\ t \in 0..(RingSize - 1)
    BY <1>1, <1>3
  <2>2. h + n = t \/ h + n = t + RingSize
    BY LenRange DEF n
  <2>3. u = x % RingSize
    BY <1>2
  <2>4. len(g) = IF h <= u THEN u - h ELSE RingSize - (h - u)
    BY <1>2 DEF len
  <2> HIDE DEF h, t, u
  <2>5. x \in 0..(2 * RingSize - 1)
    BY <2>1
  <2> HIDE DEF x
  <2>6. u \in Int /\ ((x < RingSize /\ u = x) \/ (x >= RingSize /\ u = x - RingSize))
    <3>1. u = IF x < RingSize THEN x ELSE x - RingSize
      BY <2>3, <2>5, Wrap
    <3>2. x \in Int /\ RingSize \in Int
      BY <2>1, <2>5
    <3>3. QED
      BY <3>1, <3>2
  <2>7. (h <= u /\ u - h = n + m) \/ (h > u /\ RingSize - (h - u) = n + m)
    BY <2>1, <2>2, <2>6 DEF x
  <2>8. QED
    BY <2>1, <2>4, <2>6, <2>7
<1>6. ASSUME NEW j \in 1..m PROVE Place(f.head, n + j) = Place(f.tail, j)
  <2>1. n + j \in 1..RingSize /\ j \in 1..RingSize
    BY <1>1
  <2>2. /\ Place(f.head, n + j) \in 0..(RingSize - 1)
        /\ \/ Place(f.head, n + j) = f.head + (n + j) - 1
           \/ Place(f.head, n + j) = f.head + (n + j) - 1 - RingSize
    BY <1>3, <2>1, PlaceIs
  <2>3. /\ Place(f.tail, j) \in 0..(RingSize - 1)
        /\ Place(f.tail, j) = f.tail + j - 1 \/ Place(f.tail, j) = f.tail + j - 1 - RingSize
    BY <1>3, <2>1, PlaceIs
  <2>4. f.head + n = f.tail \/ f.head + n = f.tail + RingSize
    BY LenRange DEF n
  <2> DEFINE h == f.head
             t == f.tail
             a == Place(f.head, n + j)
             b == Place(f.tail, j)
  <2>5. /\ h \in Int /\ t \in Int /\ n \in Int /\ j \in Int /\ RingSize \in Nat \ {0}
        /\ h + n = t \/ h + n = t + RingSize
        /\ a \in 0..(RingSize - 1) /\ b \in 0..(RingSize - 1)
        /\ a = h + (n + j) - 1 \/ a = h + (n + j) - 1 - RingSize
        /\ b = t + j - 1 \/ b = t + j - 1 - RingSize
    BY <1>1, <1>3, <2>2, <2>3, <2>4
  <2> HIDE DEF h, t, a, b
  <2>6. a = b
    BY <2>5
  <2>7. QED
    BY <2>6 DEF a, b
<1>7. ASSUME NEW k \in 1..n PROVE contents(g)[k] = contents(f)[k]
  <2>1. k \in 1..RingSize /\ k \in 1..len(g)
    BY <1>1, <1>5
  <2>2. ASSUME NEW j \in 1..m PROVE Place(f.tail, j) # Place(f.head, k)
    <3>1. n + j \in 1..RingSize /\ n + j # k
      BY <1>1
    <3>2. Place(f.head, n + j) # Place(f.head, k)
      BY <1>3, <2>1, <3>1, PlacesDiffer
    <3>3. QED
      BY <1>6, <3>2
  <2>3. Place(f.head, k) \in 0..(RingSize - 1)
    BY <1>3, <2>1, PlaceIs
  <2>4. g.data[Place(f.head, k)] = f.data[Place(f.head, k)]
    BY <1>2, <2>2, <2>3
  <2>5. QED
    BY <1>2, <2>1, <2>4 DEF contents, Place, n
<1>8. ASSUME NEW j \in 1..m PROVE contents(g)[n + j] = s[j]
  <2>1. n + j \in 1..len(g)
    BY <1>1, <1>5
  <2>2. contents(g)[n + j] = g.data[Place(f.head, n + j)]
    BY <1>2, <2>1 DEF contents, Place
  <2>3. QED
    BY <1>2, <1>6, <2>2
<1>9. QED
  BY <1>2, <1>5, <1>7, <1>8 DEF g, n, m

\* push_back of as many bytes as there are free places leaves a ring that reads as
\* empty, whatever its size and contents: head and tail meet.  push_back_ubuf cuts a
\* write to exactly that many.
THEOREM FilledReadsAsEmpty ==
  ASSUME NEW Byte, NEW f, IsRing(f, Byte), NEW s \in Seq(Byte), len(f) + Len(s) = RingSize
  PROVE  is_empty(push(f, s)) /\ len(push(f, s)) = 0
<1> DEFINE x == f.tail + Len(s)
<1>1. /\ RingSize \in Nat \ {0} /\ len(f) \in 0..(RingSize - 1) /\ Len(s) \in 1..RingSize
      /\ f.head \in 0..(RingSize - 1) /\ f.tail \in 0..(RingSize - 1)
  <2>1. f.head \in 0..(RingSize - 1) /\ f.tail \in 0..(RingSize - 1)
    BY DEF IsRing
  <2>2. RingSize \in Nat \ {0} /\ len(f) \in 0..(RingSize - 1) /\ Len(s) \in Nat
    BY LenRange, RingAssumption
  <2>3. QED
    BY <2>1, <2>2
<1>2. push(f, s).head = f.head /\ push(f, s).tail = x % RingSize
  BY <1>1, PushPlaces
<1>3. x \in 0..(2 * RingSize - 1) /\ (x = f.head \/ x = f.head + RingSize)
  <2>1. f.head + len(f) = f.tail \/ f.head + len(f) = f.tail + RingSize
    BY LenRange
  <2> DEFINE h == f.head
             t == f.tail
             n == len(f)
             m == Len(s)
  <2>2. /\ RingSize \in Nat \ {0} /\ n \in Nat /\ m \in 1..RingSize /\ n + m = RingSize
        /\ h \in 0..(RingSize - 1) /\ t \in 0..(RingSize - 1)
        /\ h + n = t \/ h + n = t + RingSize
    BY <1>1, <2>1
  <2> HIDE DEF h, t, n, m
  <2>3. t + m \in 0..(2 * RingSize - 1) /\ (t + m = h \/ t + m = h + RingSize)
    BY <2>2
  <2>4. QED
    BY <2>3 DEF h, t, m
<1> HIDE DEF x
<1>4. x % RingSize = IF x < RingSize THEN x ELSE x - RingSize
  BY <1>3, Wrap
<1>5. x % RingSize = f.head
  <2> DEFINE h == f.head
             y == x % RingSize
  <2>1. /\ h \in 0..(RingSize - 1) /\ RingSize \in Nat \ {0} /\ x \in Nat
        /\ x = h \/ x = h + RingSize
        /\ (x < RingSize /\ y = x) \/ (x >= RingSize /\ y = x - RingSize)
    BY <1>1, <1>3, <1>4
  <2> HIDE DEF h, y
  <2>2. y = h
    BY <2>1
  <2>3. QED
    BY <2>2 DEF h, y
<1>6. QED
  BY <1>1, <1>2, <1>5 DEF is_empty, len

=============================================================================
