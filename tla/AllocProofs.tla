---------------------------- MODULE AllocProofs -----------------------------
(***************************************************************************)
(* What the block allocator of Alloc promises, for every geometry of the   *)
(* file system: a block it hands out was free, a request fails only when   *)
(* no block is free, and the free counts stay exact.                       *)
(***************************************************************************)
EXTENDS Alloc, FiniteSetTheorems, TLAPS

(***************************************************************************)
(* Least elements.                                                         *)
(***************************************************************************)

\* A set of naturals with an element has a least one: its intervals 0..m are
\* ordered by inclusion, which is well founded on finite sets.
LEMMA LeastElement ==
  ASSUME NEW T \in SUBSET Nat, T # {}
  PROVE  \E m \in T : \A y \in T : m <= y
<1> DEFINE I == {0..m : m \in T}
<1>1. \A m \in Nat : IsFiniteSet(0..m)
  BY FS_Interval
<1>2. I \subseteq FiniteSubsetsOf(Nat)
  BY <1>1 DEF FiniteSubsetsOf
<1>3. I # {}
  OBVIOUS
<1>4. IsWellFoundedOn(StrictSubsetOrdering(Nat), FiniteSubsetsOf(Nat))
  BY FS_StrictSubsetOrderingWellFounded
<1>5. PICK x \in I : \A y \in I : ~(<<y, x>> \in StrictSubsetOrdering(Nat))
  <2> HIDE DEF I
  <2> QED
    BY <1>2, <1>3, <1>4, WFMin
<1>6. PICK m \in T : x = 0..m
  OBVIOUS
<1>7. ASSUME NEW y \in T, y < m
      PROVE  FALSE
  <2>1. 0..y \subseteq 0..m /\ 0..y # 0..m
    BY <1>7
  <2>2. <<0..y, 0..m>> \in StrictSubsetOrdering(Nat)
    BY <2>1 DEF StrictSubsetOrdering
  <2>3. QED
    BY <1>5, <1>6, <2>2
<1>8. QED
  BY <1>7

\* The least element of a set of naturals is an element and not above any other.
LEMMA MinIsLeast ==
  ASSUME NEW T \in SUBSET Nat, T # {}
  PROVE  Min(T) \in T /\ \A y \in T : Min(T) <= y
BY LeastElement DEF Min

(***************************************************************************)
(* Division.                                                               *)
(***************************************************************************)

\* Quotient and remainder.
LEMMA DivMod ==
  ASSUME NEW a \in Nat, NEW n \in Nat \ {0}
  PROVE  /\ a \div n \in Nat /\ a % n \in 0..n - 1
         /\ a = n * (a \div n) + (a % n)
OBVIOUS

\* Products grow with their factors.
LEMMA MulMono ==
  ASSUME NEW n \in Nat, NEW x \in Int, NEW y \in Int, x <= y
  PROVE  n * x <= n * y
OBVIOUS

\* They are determined by the sum they make.
LEMMA DivModUnique ==
  ASSUME NEW q \in Nat, NEW n \in Nat \ {0}, NEW r \in 0..n - 1
  PROVE  (n * q + r) \div n = q /\ (n * q + r) % n = r
<1> DEFINE a == n * q + r
           d == a \div n
<1>a. a \in Nat /\ n * q \in Nat
  OBVIOUS
<1>1. d \in Nat /\ a % n \in 0..n - 1 /\ a = n * d + (a % n)
  <2> HIDE DEF a
  <2> QED
    BY <1>a, DivMod
<1>2. ASSUME d < q
      PROVE  FALSE
  <2>1. n * (d + 1) <= n * q
    BY <1>1, <1>2, MulMono
  <2>2. QED
    BY <1>a, <1>1, <2>1
<1>3. ASSUME q < d
      PROVE  FALSE
  <2>1. n * (q + 1) <= n * d
    BY <1>1, <1>3, MulMono
  <2>2. QED
    BY <1>a, <1>1, <2>1
<1>4. d = q
  BY <1>1, <1>2, <1>3
<1>5. QED
  BY <1>a, <1>1, <1>4

(***************************************************************************)
(* Blocks, groups and bits.                                                *)
(***************************************************************************)

\* The groups cover the blocks, and a bitmap has a bit for every block of its
\* group.
LEMMA Geometry ==
  /\ BlocksPerGroup \in Nat \ {0} /\ ext4_block_group_cnt \in Nat \ {0}
  /\ BlocksPerGroup * (ext4_block_group_cnt - 1) < TotalBlocks
  /\ TotalBlocks <= BlocksPerGroup * ext4_block_group_cnt
  /\ \A g \in Group : ext4_blocks_in_group_cnt(g) \in 1..BlocksPerGroup
<1> DEFINE N == BlocksPerGroup
           C == ext4_block_group_cnt
           a == TotalBlocks + N - 1
<1>1. N \in Nat \ {0} /\ TotalBlocks \in Nat \ {0} /\ FirstData \in {0, 1} /\ a \in Nat
  BY AllocAssumption
<1>2. C \in Nat /\ a % N \in 0..N - 1 /\ a = N * C + (a % N)
  <2>1. C = a \div N
    BY DEF ext4_block_group_cnt, CeilDiv
  <2>2. QED
    BY <1>1, <2>1, DivMod
<1> HIDE DEF C
<1>3. N * (C - 1) < TotalBlocks /\ TotalBlocks <= N * C
  <2>1. N * (C - 1) = N * C - N
    BY <1>1, <1>2
  <2>2. QED
    BY <1>1, <1>2, <2>1
<1>4. C # 0
  BY <1>1, <1>3
<1>5. ASSUME NEW g \in Group
      PROVE  ext4_blocks_in_group_cnt(g) \in 1..N
  <2>1. (C - 1) * N = N * (C - 1) /\ N * (C - 1) = N * C - N /\ N * C \in Nat
    BY <1>1, <1>2
  <2>2. TotalBlocks - (C - 1) * N \in 1..N
    BY <1>1, <1>2, <1>3, <2>1
  <2>3. QED
    BY <1>1, <2>2 DEF ext4_blocks_in_group_cnt, C
<1>6. QED
  BY <1>1, <1>2, <1>3, <1>4, <1>5 DEF C

\* A block below the end has a group, and a bit there that is not past the end.
LEMMA IndexOfBlock ==
  ASSUME NEW b \in FirstData..TotalBlocks - 1
  PROVE  LET g == ext4_balloc_get_bgid_of_block(b)
             idx == ext4_fs_addr_to_idx_bg(b)
         IN  /\ g \in Group /\ idx \in 0..ext4_blocks_in_group_cnt(g) - 1
             /\ ext4_fs_bg_idx_to_addr(idx, g) = b
             /\ idx \notin ext4_fs_mark_bitmap_end(g)
<1> DEFINE N == BlocksPerGroup
           C == ext4_block_group_cnt
           g == ext4_balloc_get_bgid_of_block(b)
           idx == ext4_fs_addr_to_idx_bg(b)
<1>1. FirstData \in {0, 1} /\ TotalBlocks \in Nat
  BY AllocAssumption
<1>2. Rel(b) = b - FirstData /\ Rel(b) \in Nat
  BY <1>1 DEF Rel
<1>3. g \in Nat /\ idx \in 0..N - 1 /\ Rel(b) = N * g + idx
  BY <1>2, Geometry, DivMod DEF ext4_balloc_get_bgid_of_block, ext4_fs_addr_to_idx_bg
<1>4. N \in Nat \ {0} /\ C \in Nat \ {0} /\ TotalBlocks <= N * C
  BY Geometry
<1> HIDE DEF g, idx, C
<1>5. g < C
  <2>1. SUFFICES ASSUME C <= g PROVE FALSE
    BY <1>3, <1>4
  <2>2. N * C <= N * g
    BY <1>3, <1>4, <2>1, MulMono
  <2>3. N * C \in Nat /\ N * g \in Nat
    BY <1>3, <1>4
  <2>4. QED
    BY <1>1, <1>2, <1>3, <1>4, <2>2, <2>3
<1>6. g \in Group
  BY <1>3, <1>4, <1>5 DEF Group, C
<1>7. ext4_fs_bg_idx_to_addr(idx, g) = b
  BY <1>1, <1>2, <1>3, <1>4 DEF ext4_fs_bg_idx_to_addr
<1>8. idx < ext4_blocks_in_group_cnt(g)
  <2>1. CASE g < C - 1
    BY <1>3, <1>4, <2>1 DEF ext4_blocks_in_group_cnt, C
  <2>2. CASE g = C - 1
    <3>1. N * g = (C - 1) * N /\ (C - 1) * N \in Nat
      BY <1>3, <1>4, <2>2
    <3>2. idx < TotalBlocks - (C - 1) * N
      BY <1>1, <1>2, <1>3, <3>1
    <3>3. QED
      BY <2>2, <3>2 DEF ext4_blocks_in_group_cnt, C
  <2>3. QED
    BY <1>3, <1>4, <1>5, <2>1, <2>2
<1>9. idx \notin ext4_fs_mark_bitmap_end(g)
  BY <1>1, <1>7 DEF ext4_fs_mark_bitmap_end
<1>10. QED
  BY <1>3, <1>6, <1>7, <1>8, <1>9, Geometry DEF g, idx

\* The free blocks: not marked used, nor about to be when their group's bitmap
\* is initialised; and those of a group.
AllFree(s) ==
  {b \in FirstData..TotalBlocks - 1 :
     b \notin s.used /\ ~(b \in Meta /\ ext4_balloc_get_bgid_of_block(b) \in s.uninit)}

FreeIn(s, g) == {b \in AllFree(s) : ext4_balloc_get_bgid_of_block(b) = g}

\* A clear bit is a free block.
LEMMA ClearIsFree ==
  ASSUME NEW s, NEW g \in Group, NEW idx \in 0..ext4_blocks_in_group_cnt(g) - 1,
         idx \notin BitmapOf(s, g)
  PROVE  ext4_fs_bg_idx_to_addr(idx, g) \in FreeIn(s, g)
<1> DEFINE N == BlocksPerGroup
           b == ext4_fs_bg_idx_to_addr(idx, g)
<1>1. FirstData \in {0, 1} /\ TotalBlocks \in Nat /\ BitmapBits \in Nat /\ N <= BitmapBits
  BY AllocAssumption
<1>2. N \in Nat \ {0} /\ g \in Nat /\ idx \in 0..N - 1
  BY Geometry DEF Group
<1>3. N * g + idx \in Nat /\ b = N * g + idx + FirstData
  BY <1>1, <1>2 DEF ext4_fs_bg_idx_to_addr
<1> HIDE DEF b
<1>4. Rel(b) = N * g + idx
  BY <1>1, <1>2, <1>3 DEF Rel
<1>5. ext4_balloc_get_bgid_of_block(b) = g /\ ext4_fs_addr_to_idx_bg(b) = idx
  BY <1>2, <1>4, DivModUnique DEF ext4_balloc_get_bgid_of_block, ext4_fs_addr_to_idx_bg
<1>6. b < TotalBlocks
  BY <1>1, <1>2, <1>3 DEF BitmapOf, ext4_fs_mark_bitmap_end, b
<1>7. b \in FirstData..TotalBlocks - 1
  BY <1>1, <1>2, <1>3, <1>6
<1>8. b \in GroupBlocks(g)
  BY <1>5, <1>7 DEF GroupBlocks
<1>9. b \notin s.used \cup IF g \in s.uninit THEN Meta ELSE {}
  BY <1>5, <1>8 DEF BitmapOf
<1>10. QED
  BY <1>5, <1>7, <1>9 DEF FreeIn, AllFree, b

\* A free block is a clear bit.
LEMMA FreeIsClear ==
  ASSUME NEW s, NEW g, NEW b \in FreeIn(s, g)
  PROVE  /\ g \in Group /\ ext4_fs_addr_to_idx_bg(b) \in 0..ext4_blocks_in_group_cnt(g) - 1
         /\ ext4_fs_addr_to_idx_bg(b) \notin BitmapOf(s, g)
<1> DEFINE idx == ext4_fs_addr_to_idx_bg(b)
<1>1. b \in FirstData..TotalBlocks - 1 /\ ext4_balloc_get_bgid_of_block(b) = g
  BY DEF FreeIn, AllFree
<1>2. /\ g \in Group /\ idx \in 0..ext4_blocks_in_group_cnt(g) - 1
      /\ ext4_fs_bg_idx_to_addr(idx, g) = b /\ idx \notin ext4_fs_mark_bitmap_end(g)
  BY <1>1, IndexOfBlock
<1>3. ASSUME NEW c \in GroupBlocks(g), ext4_fs_addr_to_idx_bg(c) = idx
      PROVE  c = b
  <2>1. c \in FirstData..TotalBlocks - 1 /\ ext4_balloc_get_bgid_of_block(c) = g
    BY DEF GroupBlocks
  <2>2. ext4_fs_bg_idx_to_addr(idx, g) = c
    BY <1>3, <2>1, IndexOfBlock
  <2>3. QED
    BY <1>2, <2>2
<1>4. b \notin s.used \cup IF g \in s.uninit THEN Meta ELSE {}
  BY <1>1 DEF FreeIn, AllFree
<1>5. QED
  BY <1>2, <1>3, <1>4 DEF BitmapOf

(***************************************************************************)
(* The search.                                                             *)
(***************************************************************************)

\* Rounding up to a multiple.
LEMMA CeilMultiple ==
  ASSUME NEW x \in Nat, NEW n \in Nat \ {0}
  PROVE  /\ CeilDiv(x, n) \in Nat
         /\ x <= n * CeilDiv(x, n) /\ n * CeilDiv(x, n) < x + n
<1> DEFINE a == x + n - 1
<1>1. a \in Nat
  OBVIOUS
<1>2. a \div n \in Nat /\ a % n \in 0..n - 1 /\ a = n * (a \div n) + (a % n)
  <2> HIDE DEF a
  <2> QED
    BY <1>1, DivMod
<1>3. QED
  BY <1>2 DEF CeilDiv

\* The next byte boundary is not past the end of the bits scanned near the goal.
LEMMA ByteBeforeNear ==
  ASSUME NEW x \in Nat
  PROVE  CeilDiv(x, ByteBits) * ByteBits <= CeilDiv(x, NearGoal) * NearGoal
<1> DEFINE q == CeilDiv(x, ByteBits)
           c == CeilDiv(x, NearGoal)
           m == NearGoal \div ByteBits
           p == m * c
<1>1. ByteBits \in Nat \ {0} /\ NearGoal \in Nat \ {0} /\ NearGoal % ByteBits = 0
  BY AllocAssumption
<1>2. m \in Nat /\ NearGoal = ByteBits * m
  BY <1>1, DivMod
<1>3. /\ q \in Nat /\ c \in Nat /\ ByteBits * q < x + ByteBits
      /\ x <= NearGoal * c
  BY <1>1, CeilMultiple
<1> HIDE DEF q, c, m
<1>4. p \in Nat /\ NearGoal * c = ByteBits * p
  BY <1>1, <1>2, <1>3
<1> HIDE DEF p
<1>5. q <= p
  <2>1. SUFFICES ASSUME p + 1 <= q PROVE FALSE
    BY <1>3, <1>4
  <2>2. ByteBits * (p + 1) <= ByteBits * q
    BY <1>1, <1>3, <1>4, <2>1, MulMono
  <2>3. ByteBits * (p + 1) = ByteBits * p + ByteBits
    BY <1>1, <1>4
  <2>4. QED
    BY <1>1, <1>3, <1>4, <2>2, <2>3
<1>6. ByteBits * q <= ByteBits * p
  BY <1>1, <1>3, <1>4, <1>5, MulMono
<1>7. ByteBits * q = q * ByteBits /\ NearGoal * c = c * NearGoal
  BY <1>1, <1>3
<1>8. QED
  BY <1>4, <1>6, <1>7 DEF q, c

\* A search from the first bit finds a clear bit if there is one.
LEMMA FindFromZero ==
  ASSUME NEW bits, NEW n \in Nat
  PROVE  LET r == ext4_bmap_bit_find_clr(bits, 0, n)
         IN  \/ r = NoBit /\ 0..n - 1 \subseteq bits
             \/ r \in (0..n - 1) \ bits
<1> DEFINE clear == (0..n - 1) \ bits
<1>1. ByteBits \in Nat \ {0}
  BY AllocAssumption
<1>2. CeilDiv(0, ByteBits) * ByteBits = 0
  <2>1. /\ CeilDiv(0, ByteBits) \in Nat
        /\ ByteBits * CeilDiv(0, ByteBits) < 0 + ByteBits
    BY <1>1, CeilMultiple
  <2>2. CeilDiv(0, ByteBits) = 0
    <3>1. SUFFICES ASSUME 1 <= CeilDiv(0, ByteBits) PROVE FALSE
      BY <2>1
    <3>2. ByteBits * 1 <= ByteBits * CeilDiv(0, ByteBits)
      BY <1>1, <2>1, <3>1, MulMono
    <3>3. QED
      BY <1>1, <2>1, <3>2
  <2>3. QED
    BY <1>1, <2>2
<1>3. {i \in 0..n - 1 : i < CeilDiv(0, ByteBits) * ByteBits} = {}
  BY <1>2
<1>4. clear # {} => Min(clear) \in clear
  BY MinIsLeast
<1>5. QED
  BY <1>3, <1>4 DEF ext4_bmap_bit_find_clr

\* The search of the goal's group returns no used bit, although the search of
\* ext4_bmap_bit_find_clr by bytes takes its start for clear when a bit before
\* the first byte boundary is: those bits have been looked at before.
LEMMA FindNearGoal ==
  ASSUME NEW bits, NEW idx \in Nat, NEW n \in Nat
  PROVE  LET r == InGoalGroup(bits, idx, n)
         IN  r = NoBit \/ (r \in Nat /\ r \notin bits /\ (r = idx \/ r < n))
<1> DEFINE lim == CeilDiv(idx, NearGoal) * NearGoal
           near == Near(idx, n)
           head == {i \in idx..n - 1 : i < CeilDiv(idx, ByteBits) * ByteBits}
           clear == (idx..n - 1) \ bits
<1>1. NearGoal \in Nat \ {0} /\ ByteBits \in Nat \ {0}
  BY AllocAssumption
<1>2. CeilDiv(idx, NearGoal) \in Nat /\ CeilDiv(idx, ByteBits) \in Nat
  BY <1>1, CeilMultiple
<1>3. lim \in Nat /\ CeilDiv(idx, ByteBits) * ByteBits \in Nat
  BY <1>1, <1>2
<1>4. CeilDiv(idx, ByteBits) * ByteBits <= lim
  BY ByteBeforeNear
<1> HIDE DEF lim
<1>5. Min({lim, n}) \in {lim, n} /\ Min({lim, n}) <= lim /\ Min({lim, n}) <= n
  BY <1>3, MinIsLeast
<1>6. near = idx + 1..Min({lim, n}) - 1
  BY DEF Near, lim
<1>7. near \subseteq Nat /\ \A i \in near : i < n
  <2>1. Min({lim, n}) \in Nat
    BY <1>3, <1>5
  <2>2. ASSUME NEW i \in near
        PROVE  i \in Nat /\ i < n
    BY <1>5, <1>6, <2>1
  <2>3. QED
    BY <2>2
<1>8. \A i \in head : i = idx \/ i \in near
  BY <1>3, <1>4, <1>5, <1>6
<1> HIDE DEF near
<1>9. CASE idx \notin bits
  BY <1>9 DEF InGoalGroup
<1>10. CASE idx \in bits /\ near \ bits # {}
  <2>1. Min(near \ bits) \in near \ bits
    BY <1>7, <1>10, MinIsLeast
  <2>2. QED
    BY <1>7, <1>10, <2>1 DEF InGoalGroup, near
<1>11. CASE idx \in bits /\ near \ bits = {}
  <2>1. head \ bits = {}
    BY <1>8, <1>11
  <2>2. clear # {} => Min(clear) \in clear
    BY MinIsLeast
  <2>3. \/ ext4_bmap_bit_find_clr(bits, idx, n) = NoBit
        \/ ext4_bmap_bit_find_clr(bits, idx, n) \in clear
    BY <2>1, <2>2 DEF ext4_bmap_bit_find_clr
  <2>4. InGoalGroup(bits, idx, n) = ext4_bmap_bit_find_clr(bits, idx, n)
    BY <1>11 DEF InGoalGroup, near
  <2>5. QED
    BY <2>3, <2>4
<1>12. QED
  BY <1>9, <1>10, <1>11

\* After the goal's group, the rounds of the search visit every group.
LEMMA EveryGroupVisited ==
  ASSUME NEW goal \in Nat, NEW g \in Group
  PROVE  \E k \in 1..ext4_block_group_cnt : VisitedAs(goal, k) = g
<1> DEFINE C == ext4_block_group_cnt
           g0 == ext4_balloc_get_bgid_of_block(goal)
           q == g0 \div C
           r == g0 % C
           k == IF g > r THEN g - r ELSE g - r + C
<1>1. C \in Nat \ {0} /\ g \in 0..C - 1 /\ FirstData \in {0, 1}
  BY Geometry, AllocAssumption DEF Group
<1>2. g0 \in Nat
  <2>1. Rel(goal) \in Nat
    BY <1>1 DEF Rel
  <2>2. QED
    BY <2>1, Geometry, DivMod DEF ext4_balloc_get_bgid_of_block
<1> HIDE DEF C, g0
<1>3. q \in Nat /\ r \in 0..C - 1 /\ g0 = C * q + r
  BY <1>1, <1>2, DivMod
<1> HIDE DEF q, r
<1>4. k \in 1..C
  BY <1>1, <1>3
<1>5. (g0 + k) % C = g
  <2>1. CASE g > r
    <3>1. g0 + k = C * q + g
      BY <1>1, <1>3, <2>1
    <3>2. QED
      BY <1>1, <1>3, <3>1, DivModUnique
  <2>2. CASE ~(g > r)
    <3>1. C * (q + 1) = C * q + C /\ C * q \in Nat
      BY <1>1, <1>3
    <3>2. g0 + k = C * (q + 1) + g
      BY <1>1, <1>3, <2>2, <3>1
    <3>3. (C * (q + 1) + g) % C = g
      BY <1>1, <1>3, DivModUnique
    <3>4. QED
      BY <3>2, <3>3
  <2>3. QED
    BY <2>1, <2>2
<1> HIDE DEF k
<1>6. VisitedAs(goal, k) = g
  BY <1>4, <1>5 DEF VisitedAs, C, g0
<1>7. QED
  BY <1>4, <1>6 DEF C

\* What the search finds is a free block of the group.
LEMMA FoundIsFree ==
  ASSUME NEW s, NEW goal \in Nat, NEW k \in 0..ext4_block_group_cnt,
         NEW h, h = VisitedAs(goal, k), FoundIn(s, goal, k, h) # NoBit
  PROVE  h \in Group /\ ext4_fs_bg_idx_to_addr(FoundIn(s, goal, k, h), h) \in FreeIn(s, h)
<1> DEFINE n == ext4_blocks_in_group_cnt(h)
           r == FoundIn(s, goal, k, h)
<1>1. FreeOf(s, h) # 0
  BY DEF FoundIn
<1>2. h \in Group
  BY <1>1 DEF FreeOf
<1>3. n \in 1..BlocksPerGroup /\ BlocksPerGroup \in Nat \ {0}
  BY <1>2, Geometry
<1>4. CASE k > 0
  <2>1. r = ext4_bmap_bit_find_clr(BitmapOf(s, h), 0, n)
    BY <1>1, <1>4 DEF FoundIn
  <2>2. r \in 0..n - 1 /\ r \notin BitmapOf(s, h)
    BY <1>3, <2>1, FindFromZero
  <2>3. QED
    BY <1>2, <2>2, ClearIsFree
<1>5. CASE k = 0
  <2> DEFINE idx == ext4_fs_addr_to_idx_bg(goal)
  <2>1. ~FarGoal(goal) /\ r = InGoalGroup(BitmapOf(s, h), idx, n)
    BY <1>1, <1>5 DEF FoundIn
  <2>2. h = ext4_balloc_get_bgid_of_block(goal)
    BY <1>5 DEF VisitedAs
  <2>3. FirstData \in {0, 1} /\ Rel(goal) \in Nat
    BY AllocAssumption DEF Rel
  <2>4. idx \in 0..BlocksPerGroup - 1 /\ idx <= n
    <3>1. idx \in 0..BlocksPerGroup - 1
      BY <1>3, <2>3, DivMod DEF ext4_fs_addr_to_idx_bg
    <3>2. ~(idx > n)
      BY <2>1, <2>2 DEF FarGoal
    <3>3. QED
      BY <1>3, <3>1, <3>2
  <2> HIDE DEF idx
  <2>5. r \in Nat /\ r \notin BitmapOf(s, h) /\ (r = idx \/ r < n)
    BY <1>3, <2>1, <2>4, FindNearGoal
  <2>6. ASSUME r = n
        PROVE  FALSE
    <3>1. r = idx /\ n < BlocksPerGroup
      BY <1>3, <2>4, <2>5, <2>6
    <3>2. h = ext4_block_group_cnt - 1 /\ n = TotalBlocks - (ext4_block_group_cnt - 1) * BlocksPerGroup
      <4>1. ~(h < ext4_block_group_cnt - 1)
        BY <1>3, <3>1 DEF ext4_blocks_in_group_cnt
      <4>2. QED
        BY <1>2, <4>1, Geometry DEF ext4_blocks_in_group_cnt, Group
    <3>3. ext4_fs_bg_idx_to_addr(n, h) = TotalBlocks + FirstData
      <4>1. (ext4_block_group_cnt - 1) * BlocksPerGroup = BlocksPerGroup * h /\ BlocksPerGroup * h \in Nat
        BY <1>3, <3>2, Geometry
      <4>2. TotalBlocks \in Nat
        BY AllocAssumption
      <4>3. QED
        BY <1>3, <2>3, <3>2, <4>1, <4>2 DEF ext4_fs_bg_idx_to_addr
    <3>4. TotalBlocks \in Nat /\ BitmapBits \in Nat /\ BlocksPerGroup <= BitmapBits
      BY AllocAssumption
    <3>5. n \in ext4_fs_mark_bitmap_end(h)
      BY <1>3, <2>3, <3>1, <3>3, <3>4, SMTT(20) DEF ext4_fs_mark_bitmap_end
    <3>6. QED
      BY <2>5, <2>6, <3>5 DEF BitmapOf
  <2>7. r \in 0..n - 1
    BY <1>3, <2>4, <2>5, <2>6
  <2>8. QED
    BY <1>2, <2>5, <2>7, ClearIsFree
<1>6. QED
  BY <1>4, <1>5

\* Later rounds miss no free block of a group whose count is not 0.
LEMMA NotFoundIsFull ==
  ASSUME NEW s, NEW goal \in Nat, NEW k \in 1..ext4_block_group_cnt, NEW h \in Group,
         s.bgfree[h] # 0, FoundIn(s, goal, k, h) = NoBit
  PROVE  FreeIn(s, h) = {}
<1> DEFINE n == ext4_blocks_in_group_cnt(h)
<1>1. n \in Nat
  BY Geometry
<1>2. FoundIn(s, goal, k, h) = ext4_bmap_bit_find_clr(BitmapOf(s, h), 0, n)
  BY Geometry DEF FoundIn, FreeOf
<1>3. 0..n - 1 \subseteq BitmapOf(s, h)
  <2>1. NoBit \notin 0..n - 1
    BY DEF NoBit
  <2>2. QED
    BY <1>1, <1>2, <2>1, FindFromZero
<1>4. QED
  BY <1>3, FreeIsClear

(***************************************************************************)
(* The state and its free counts.                                          *)
(***************************************************************************)
Fields == {"used", "uninit", "bgfree", "sbfree", "iused", "iuninit", "ino", "disk", "r", "b", "odd"}

IsState(s) ==
  /\ Fields \subseteq DOMAIN s /\ s = [f \in DOMAIN s |-> s[f]]
  /\ s.bgfree \in [Group -> Int] /\ s.sbfree \in Int

\* The free counts of the groups and of the superblock are those of the bitmaps.
CountsExact(s) ==
  /\ \A g \in Group : s.bgfree[g] = Cardinality(FreeIn(s, g))
  /\ s.sbfree = Cardinality(AllFree(s))

\* t has the counts and the free blocks of s.
SameFree(s, t) == IsState(t) /\ t.bgfree = s.bgfree /\ t.sbfree = s.sbfree /\ AllFree(t) = AllFree(s)

LEMMA SameFreeCounts ==
  ASSUME NEW s, NEW t, SameFree(s, t), CountsExact(s)
  PROVE  CountsExact(t) /\ \A g : FreeIn(t, g) = FreeIn(s, g)
BY DEF SameFree, CountsExact, FreeIn

\* There are finitely many blocks.
LEMMA FreeIsFinite ==
  ASSUME NEW s, NEW g
  PROVE  IsFiniteSet(AllFree(s)) /\ IsFiniteSet(FreeIn(s, g))
<1>1. IsFiniteSet(FirstData..TotalBlocks - 1)
  BY FS_Interval, AllocAssumption
<1>2. AllFree(s) \in SUBSET (FirstData..TotalBlocks - 1) /\ FreeIn(s, g) \in SUBSET (FirstData..TotalBlocks - 1)
  BY DEF AllFree, FreeIn
<1>3. QED
  BY <1>1, <1>2, FS_Subset

\* Initialising the bitmaps of a group marks the blocks that were not free.
LEMMA InitKeepsFree ==
  ASSUME NEW s, NEW t, NEW gs,
         t.used = s.used \cup (Meta \cap UNION {GroupBlocks(g) : g \in gs \cap s.uninit}),
         t.uninit = s.uninit \ gs
  PROVE  AllFree(t) = AllFree(s)
<1>1. ASSUME NEW b \in FirstData..TotalBlocks - 1
      PROVE  b \in AllFree(t) <=> b \in AllFree(s)
  <2> DEFINE g == ext4_balloc_get_bgid_of_block(b)
  <2>1. \A h : b \in GroupBlocks(h) <=> h = g
    BY DEF GroupBlocks
  <2>2. b \in UNION {GroupBlocks(h) : h \in gs \cap s.uninit} <=> g \in gs \cap s.uninit
    BY <2>1
  <2>3. QED
    BY <2>2 DEF AllFree
<1>2. QED
  BY <1>1 DEF AllFree

LEMMA LoadKeepsFree ==
  ASSUME NEW s, IsState(s), NEW gs
  PROVE  SameFree(s, LoadGroups(s, gs))
<1> DEFINE t == LoadGroups(s, gs)
<1>1. /\ DOMAIN t = DOMAIN s /\ t = [f \in DOMAIN t |-> t[f]]
      /\ t.used = s.used \cup (Meta \cap UNION {GroupBlocks(g) : g \in gs \cap s.uninit})
      /\ t.uninit = s.uninit \ gs /\ t.bgfree = s.bgfree /\ t.sbfree = s.sbfree
  BY ZenonT(30) DEF IsState, Fields, LoadGroups
<1>2. AllFree(t) = AllFree(s)
  <2> HIDE DEF t
  <2> QED
    BY <1>1, InitKeepsFree
<1>3. QED
  BY <1>1, <1>2, SMTT(30) DEF SameFree, IsState

LEMMA RefKeepsFree ==
  ASSUME NEW s, IsState(s), NEW g
  PROVE  LET t == ext4_fs_get_block_group_ref(s, g)
         IN  SameFree(s, t) /\ t.uninit = s.uninit \ {g} /\ s.used \subseteq t.used
<1> DEFINE u == ClearBlockUninit(s, g)
           t == ClearInodeUninit(u, g)
<1>1. IsState(u) /\ u.bgfree = s.bgfree /\ u.sbfree = s.sbfree
  BY DEF IsState, Fields, ClearBlockUninit, ext4_fs_init_block_bitmap
<1>2. /\ u.used = s.used \cup (Meta \cap UNION {GroupBlocks(h) : h \in {g} \cap s.uninit})
      /\ u.uninit = s.uninit \ {g}
  <2>1. CASE g \in s.uninit
    <3>1. {g} \cap s.uninit = {g}
      BY <2>1
    <3>2. UNION {GroupBlocks(h) : h \in {g}} = GroupBlocks(g)
      OBVIOUS
    <3>3. u.used = s.used \cup (Meta \cap GroupBlocks(g)) /\ u.uninit = s.uninit \ {g}
      BY <2>1 DEF IsState, Fields, ClearBlockUninit, ext4_fs_init_block_bitmap
    <3>4. QED
      BY <3>1, <3>2, <3>3
  <2>2. CASE g \notin s.uninit
    <3>1. u = s
      BY <2>2 DEF ClearBlockUninit
    <3>2. QED
      BY <2>2, <3>1
  <2>3. QED
    BY <2>1, <2>2
<1>3. AllFree(u) = AllFree(s)
  <2> HIDE DEF u
  <2> QED
    BY <1>2, InitKeepsFree
<1> HIDE DEF u
<1>4. /\ IsState(t) /\ t.bgfree = u.bgfree /\ t.sbfree = u.sbfree
      /\ t.used = u.used /\ t.uninit = u.uninit
  BY <1>1, ZenonT(30) DEF IsState, Fields, ClearInodeUninit, ext4_fs_init_inode_bitmap
<1>5. AllFree(t) = AllFree(u)
  BY <1>4 DEF AllFree
<1>6. QED
  BY <1>1, <1>2, <1>3, <1>4, <1>5 DEF SameFree, ext4_fs_get_block_group_ref, u

(***************************************************************************)
(* Taking and freeing.                                                     *)
(***************************************************************************)
LEMMA GroupOfBlock ==
  ASSUME NEW b \in FirstData..TotalBlocks - 1
  PROVE  ext4_balloc_get_bgid_of_block(b) \in Group
BY IndexOfBlock

\* A free block counted as taken leaves the counts exact.
LEMMA TakenKeepsCounts ==
  ASSUME NEW s, IsState(s), CountsExact(s), NEW i, NEW g \in Group, NEW b \in FreeIn(s, g)
  PROVE  LET t == CountTaken(s, i, b, g)
         IN  /\ IsState(t) /\ CountsExact(t)
             /\ t.r = "EOK" /\ t.b = b /\ AllFree(t) = AllFree(s) \ {b}
<1> DEFINE t == CountTaken(s, i, b, g)
<1>1. /\ DOMAIN t = DOMAIN s /\ t = [f \in DOMAIN t |-> t[f]]
      /\ t.used = s.used \cup {b} /\ t.uninit = s.uninit
      /\ t.sbfree = s.sbfree - 1 /\ t.bgfree = [s.bgfree EXCEPT ![g] = @ - 1]
      /\ t.r = "EOK" /\ t.b = b
  BY DEF IsState, Fields, CountTaken
<1> HIDE DEF t
<1>2. b \in AllFree(s) /\ ext4_balloc_get_bgid_of_block(b) = g
  BY DEF FreeIn
<1>3. AllFree(t) = AllFree(s) \ {b}
  BY <1>1 DEF AllFree
<1>4. t.sbfree = Cardinality(AllFree(t))
  BY <1>1, <1>2, <1>3, FreeIsFinite, FS_RemoveElement, ZenonT(30) DEF CountsExact
<1>5. ASSUME NEW h \in Group PROVE t.bgfree[h] = Cardinality(FreeIn(t, h))
  <2>1. CASE h = g
    <3>1. FreeIn(t, h) = FreeIn(s, h) \ {b}
      BY <1>3 DEF FreeIn
    <3>2. t.bgfree[h] = s.bgfree[h] - 1
      BY <1>1, <2>1 DEF IsState
    <3>3. QED
      BY <2>1, <3>1, <3>2, FreeIsFinite, FS_RemoveElement DEF CountsExact
  <2>2. CASE h # g
    <3>1. FreeIn(t, h) = FreeIn(s, h)
      BY <1>2, <1>3, <2>2 DEF FreeIn
    <3>2. t.bgfree[h] = s.bgfree[h]
      BY <1>1, <2>2 DEF IsState
    <3>3. QED
      BY <3>1, <3>2 DEF CountsExact
  <2>3. QED
    BY <2>1, <2>2
<1>6. IsState(t)
  BY <1>1 DEF IsState
<1>7. QED
  BY <1>1, <1>3, <1>4, <1>5, <1>6, SMTT(20) DEF CountsExact, t

\* Used blocks of one group, counted as freed, leave the counts exact.
LEMMA FreedKeepsCounts ==
  ASSUME NEW s, IsState(s), CountsExact(s), NEW i, NEW g \in Group, g \notin s.uninit,
         NEW bs, bs \subseteq s.used \cap GroupBlocks(g), NEW n, n = Cardinality(bs)
  PROVE  LET t == CountFreed(s, i, bs, g, n)
         IN  /\ IsState(t) /\ CountsExact(t)
             /\ t.r = "EOK" /\ AllFree(t) = AllFree(s) \cup bs
<1> DEFINE t == CountFreed(s, i, bs, g, n)
<1>1. /\ DOMAIN t = DOMAIN s /\ t = [f \in DOMAIN t |-> t[f]]
      /\ t.used = s.used \ bs /\ t.uninit = s.uninit
      /\ t.sbfree = s.sbfree + n /\ t.bgfree = [s.bgfree EXCEPT ![g] = @ + n]
      /\ t.r = "EOK"
  BY ZenonT(30) DEF IsState, Fields, CountFreed
<1> HIDE DEF t
<1>2. /\ bs \in SUBSET (FirstData..TotalBlocks - 1) /\ bs \subseteq s.used
      /\ \A b \in bs : ext4_balloc_get_bgid_of_block(b) = g
  BY DEF GroupBlocks
<1>3. IsFiniteSet(bs) /\ n \in Nat
  <2>1. IsFiniteSet(FirstData..TotalBlocks - 1)
    BY FS_Interval, AllocAssumption
  <2>2. IsFiniteSet(bs)
    BY <1>2, <2>1, FS_Subset, ZenonT(30)
  <2>3. QED
    BY <2>2, FS_CardinalityType
<1>4. AllFree(t) = AllFree(s) \cup bs
  BY <1>1, <1>2 DEF AllFree
<1>5. ASSUME NEW F, IsFiniteSet(F), F \cap bs = {}
      PROVE  Cardinality(F \cup bs) = Cardinality(F) + n
  <2>1. Cardinality(F \cup bs) = Cardinality(F) + Cardinality(bs) - Cardinality(F \cap bs)
    BY <1>3, <1>5, FS_Union
  <2>2. Cardinality(F \cap bs) = 0
    BY <1>5, FS_EmptySet
  <2>3. Cardinality(F) \in Nat /\ Cardinality(bs) = n /\ n \in Nat
    BY <1>3, <1>5, FS_CardinalityType
  <2>4. QED
    BY <2>1, <2>2, <2>3
<1>6. t.sbfree = Cardinality(AllFree(t))
  <2>1. AllFree(s) \cap bs = {}
    BY <1>2 DEF AllFree
  <2>2. QED
    BY <1>1, <1>4, <1>5, <2>1, FreeIsFinite DEF CountsExact
<1>7. ASSUME NEW h \in Group PROVE t.bgfree[h] = Cardinality(FreeIn(t, h))
  <2>1. CASE h = g
    <3>1. FreeIn(t, h) = FreeIn(s, h) \cup bs /\ FreeIn(s, h) \cap bs = {}
      BY <1>2, <1>4, <2>1 DEF FreeIn, AllFree
    <3>2. t.bgfree[h] = s.bgfree[h] + n
      BY <1>1, <2>1 DEF IsState
    <3>3. QED
      BY <1>5, <3>1, <3>2, FreeIsFinite DEF CountsExact
  <2>2. CASE h # g
    <3>1. FreeIn(t, h) = FreeIn(s, h)
      BY <1>2, <1>4, <2>2 DEF FreeIn
    <3>2. t.bgfree[h] = s.bgfree[h]
      BY <1>1, <2>2 DEF IsState
    <3>3. QED
      BY <3>1, <3>2 DEF CountsExact
  <2>3. QED
    BY <2>1, <2>2
<1>8. IsState(t)
  BY <1>1, <1>3 DEF IsState
<1>9. QED
  BY <1>1, <1>4, <1>6, <1>7, <1>8, SMTT(30) DEF CountsExact, t

(***************************************************************************)
(* What the allocator promises.                                            *)
(***************************************************************************)

\* The groups tried that hold a free block, as TakeOrFail gets them.
Hits(s, goal) ==
  {x \in {<<k, VisitedAs(goal, k), FoundIn(s, goal, k, VisitedAs(goal, k))>> :
            k \in GroupsTried(goal)} : x[3] # NoBit}

\* With exact counts, no group is hit only when no block is free: a group whose
\* count is 0 has none, and every group is searched from its first bit in the end.
LEMMA NoHitIsFull ==
  ASSUME NEW s, IsState(s), CountsExact(s), NEW goal \in Nat, Hits(s, goal) = {}
  PROVE  AllFree(s) = {}
<1> SUFFICES ASSUME NEW b \in AllFree(s) PROVE FALSE
  OBVIOUS
<1> DEFINE h == ext4_balloc_get_bgid_of_block(b)
<1>1. b \in FirstData..TotalBlocks - 1
  BY DEF AllFree
<1>2. h \in Group /\ b \in FreeIn(s, h)
  BY <1>1, GroupOfBlock DEF FreeIn
<1>3. s.bgfree[h] # 0
  BY <1>2, FreeIsFinite, FS_EmptySet DEF CountsExact
<1>4. PICK k \in 1..ext4_block_group_cnt : VisitedAs(goal, k) = h
  BY <1>2, EveryGroupVisited
<1>5. FoundIn(s, goal, k, h) # NoBit
  BY <1>2, <1>3, <1>4, NotFoundIsFull
<1>6. k \in GroupsTried(goal)
  BY Geometry DEF GroupsTried
<1>7. <<k, h, FoundIn(s, goal, k, h)>> \in Hits(s, goal)
  <2> HIDE DEF h
  <2> QED
    BY <1>4, <1>5, <1>6 DEF Hits
<1>8. QED
  BY <1>7

\* The group chosen is one of those hit.
LEMMA FirstHit ==
  ASSUME NEW s, NEW goal \in Nat, Hits(s, goal) # {}
  PROVE  (CHOOSE x \in Hits(s, goal) : \A y \in Hits(s, goal) : x[1] <= y[1]) \in Hits(s, goal)
<1> DEFINE H == Hits(s, goal)
           T == {x[1] : x \in H}
<1>1. \A x \in H : x[1] \in Nat
  BY Geometry DEF Hits, GroupsTried
<1> HIDE DEF H
<1>2. T \in SUBSET Nat /\ T # {}
  BY <1>1 DEF H
<1>3. PICK m \in T : \A y \in T : m <= y
  BY <1>2, LeastElement
<1>4. \E x \in H : \A y \in H : x[1] <= y[1]
  BY <1>3
<1>5. QED
  BY <1>4 DEF H

\* For a goal that is not far, one whose group exists and that lies within it,
\* ext4_balloc_alloc_block hands out a block that was free, and reports ENOSPC only
\* when none is: the search near the goal, in the goal's group and in the groups
\* after it misses no clear bit and returns no set one, and the counts of the
\* groups and of the superblock stay those of the bitmaps.
THEOREM AllocBlockTakesAFreeBlock ==
  ASSUME NEW s, IsState(s), CountsExact(s), NEW i, NEW goal \in Nat, ~FarGoal(goal)
  PROVE  LET t == ext4_balloc_alloc_block(s, i, goal)
         IN  /\ IsState(t) /\ CountsExact(t)
             /\ \/ t.r = "EOK" /\ t.b \in AllFree(s) /\ AllFree(t) = AllFree(s) \ {t.b}
                \/ t.r = "ENOSPC" /\ AllFree(s) = {} /\ AllFree(t) = {}
<1> DEFINE H == Hits(s, goal)
           t == TakeOrFail(s, i, goal, H)
<1>1. ext4_balloc_alloc_block(s, i, goal) = t
  BY DEF ext4_balloc_alloc_block, Hits
<1>2. CASE H # {}
  <2> DEFINE hit == CHOOSE x \in H : \A y \in H : x[1] <= y[1]
             v == LoadGroups(s, {VisitedAs(goal, k) : k \in 0..hit[1]})
             b == ext4_fs_bg_idx_to_addr(hit[3], hit[2])
  <2>1. hit \in H
    BY <1>2, FirstHit
  <2>2. t = CountTaken(v, i, b, hit[2])
    BY <1>2 DEF TakeOrFail, TakeFirst
  <2> HIDE DEF hit
  <2>3. PICK k \in 0..ext4_block_group_cnt :
           hit = <<k, VisitedAs(goal, k), FoundIn(s, goal, k, VisitedAs(goal, k))>> /\ hit[3] # NoBit
    BY <2>1 DEF Hits, GroupsTried
  <2>4. hit[2] \in Group /\ b \in FreeIn(s, hit[2])
    BY <2>3, FoundIsFree
  <2>5. SameFree(s, v)
    BY LoadKeepsFree
  <2> HIDE DEF v
  <2>6. IsState(v) /\ CountsExact(v) /\ AllFree(v) = AllFree(s) /\ b \in FreeIn(v, hit[2])
    BY <2>4, <2>5, SameFreeCounts DEF SameFree
  <2> HIDE DEF b
  <2>7. /\ IsState(t) /\ CountsExact(t)
        /\ t.r = "EOK" /\ t.b = b /\ AllFree(t) = AllFree(s) \ {b}
    BY <2>2, <2>4, <2>6, TakenKeepsCounts
  <2>8. b \in AllFree(s)
    BY <2>4 DEF FreeIn
  <2>9. QED
    BY <1>1, <2>7, <2>8
<1>3. CASE H = {}
  <2> DEFINE v == LoadGroups(s, Group)
  <2>1. t = [v EXCEPT !.r = "ENOSPC", !.b = 0]
    BY <1>3 DEF TakeOrFail
  <2>2. SameFree(s, v)
    BY LoadKeepsFree
  <2> HIDE DEF v
  <2>3. IsState(v) /\ AllFree(v) = AllFree(s)
    BY <2>2 DEF SameFree
  <2>4. SameFree(v, t) /\ t.r = "ENOSPC"
    <3>1. /\ t.used = v.used /\ t.uninit = v.uninit /\ t.bgfree = v.bgfree /\ t.sbfree = v.sbfree
          /\ DOMAIN t = DOMAIN v /\ t = [f \in DOMAIN t |-> t[f]] /\ t.r = "ENOSPC"
      BY <2>1, <2>3, ZenonT(30) DEF IsState, Fields
    <3>2. IsState(t)
      BY <2>3, <3>1 DEF IsState
    <3>3. AllFree(t) = AllFree(v)
      BY <3>1 DEF AllFree
    <3>4. QED
      BY <3>1, <3>2, <3>3 DEF SameFree
  <2> HIDE DEF t
  <2>5. IsState(t) /\ CountsExact(t) /\ AllFree(t) = AllFree(s)
    BY <2>2, <2>3, <2>4, SameFreeCounts DEF SameFree
  <2>6. AllFree(s) = {}
    BY <1>3, NoHitIsFull
  <2>7. QED
    BY <1>1, <2>4, <2>5, <2>6 DEF t
<1>4. QED
  BY <1>2, <1>3

\* ext4_balloc_try_alloc_block takes the block when it is free, also in a group
\* whose bitmap it has to initialise first, and leaves a used one alone.
THEOREM TryAllocTakesOnlyFree ==
  ASSUME NEW s, IsState(s), CountsExact(s), NEW i, NEW b \in FirstData..TotalBlocks - 1
  PROVE  LET t == ext4_balloc_try_alloc_block(s, i, b)
         IN  /\ IsState(t) /\ CountsExact(t)
             /\ \/ b \in AllFree(s) /\ t.b = b /\ AllFree(t) = AllFree(s) \ {b}
                \/ b \notin AllFree(s) /\ t.b = NoBit /\ AllFree(t) = AllFree(s)
<1> DEFINE g == ext4_balloc_get_bgid_of_block(b)
           u == ext4_fs_get_block_group_ref(s, g)
           t == TakeIfFree(u, i, b, g)
<1>1. SameFree(s, u) /\ u.uninit = s.uninit \ {g}
  BY RefKeepsFree
<1> HIDE DEF u
<1>2. IsState(u) /\ CountsExact(u) /\ AllFree(u) = AllFree(s)
  BY <1>1, SameFreeCounts DEF SameFree
<1>3. b \in AllFree(u) <=> b \notin u.used
  BY <1>1 DEF AllFree
<1>4. CASE b \in u.used
  <2>1. SameFree(u, t) /\ t.b = NoBit
    BY <1>2, <1>4, ZenonT(30) DEF TakeIfFree, IsState, Fields, SameFree, AllFree
  <2> HIDE DEF t
  <2>2. IsState(t) /\ CountsExact(t) /\ AllFree(t) = AllFree(s)
    BY <1>2, <2>1, SameFreeCounts DEF SameFree
  <2>3. QED
    BY <1>2, <1>3, <1>4, <2>1, <2>2 DEF ext4_balloc_try_alloc_block, t, u
<1>5. CASE b \notin u.used
  <2>1. t = CountTaken(u, i, b, g)
    BY <1>5 DEF TakeIfFree
  <2>2. g \in Group /\ b \in FreeIn(u, g)
    BY <1>3, <1>5, GroupOfBlock DEF FreeIn
  <2>3. IsState(t) /\ CountsExact(t) /\ t.b = b /\ AllFree(t) = AllFree(s) \ {b}
    BY <1>2, <2>1, <2>2, TakenKeepsCounts, SMTT(20)
  <2>4. QED
    BY <1>2, <1>3, <1>5, <2>3 DEF ext4_balloc_try_alloc_block, u
<1>6. QED
  BY <1>4, <1>5

\* Freeing a run of used blocks within one group, the body of the loop of
\* ext4_balloc_free_blocks, frees exactly those blocks and keeps the counts exact,
\* also when the group's bitmap is initialised on the way.
THEOREM FreeRunFreesTheRun ==
  ASSUME NEW s, IsState(s), CountsExact(s), NEW i, NEW g \in Group,
         NEW b \in Nat, NEW n \in Nat \ {0}, b..b + n - 1 \subseteq s.used \cap GroupBlocks(g)
  PROVE  LET t == FreeRun(s, i, b, n, g)
         IN  IsState(t) /\ CountsExact(t) /\ t.r = "EOK" /\ AllFree(t) = AllFree(s) \cup (b..b + n - 1)
<1> DEFINE u == ext4_fs_get_block_group_ref(s, g)
           bs == b..b + n - 1
<1>1. SameFree(s, u) /\ u.uninit = s.uninit \ {g} /\ s.used \subseteq u.used
  BY RefKeepsFree
<1> HIDE DEF u
<1>2. IsState(u) /\ CountsExact(u) /\ AllFree(u) = AllFree(s)
  BY <1>1, SameFreeCounts DEF SameFree
<1>3. n = Cardinality(bs)
  BY FS_Interval
<1>4. bs \subseteq u.used \cap GroupBlocks(g) /\ g \notin u.uninit
  BY <1>1
<1> HIDE DEF bs
<1>5. LET t == CountFreed(u, i, bs, g, n)
      IN  IsState(t) /\ CountsExact(t) /\ t.r = "EOK" /\ AllFree(t) = AllFree(u) \cup bs
  BY <1>2, <1>3, <1>4, FreedKeepsCounts, SMTT(20)
<1>6. QED
  BY <1>2, <1>5 DEF FreeRun, bs, u

\* ext4_balloc_free_block frees the one block.
THEOREM FreeBlockFreesTheBlock ==
  ASSUME NEW s, IsState(s), CountsExact(s), NEW i,
         NEW b \in FirstData..TotalBlocks - 1, b \in s.used
  PROVE  LET t == ext4_balloc_free_block(s, i, b)
         IN  IsState(t) /\ CountsExact(t) /\ t.r = "EOK" /\ AllFree(t) = AllFree(s) \cup {b}
<1> DEFINE g == ext4_balloc_get_bgid_of_block(b)
           u == ext4_fs_get_block_group_ref(s, g)
           bs == {b}
<1>1. SameFree(s, u) /\ u.uninit = s.uninit \ {g} /\ s.used \subseteq u.used
  BY RefKeepsFree
<1> HIDE DEF u
<1>2. IsState(u) /\ CountsExact(u) /\ AllFree(u) = AllFree(s)
  BY <1>1, SameFreeCounts DEF SameFree
<1>3. Cardinality(bs) = 1
  BY FS_Singleton, ZenonT(30)
<1>4. g \in Group /\ g \notin u.uninit /\ bs \subseteq u.used \cap GroupBlocks(g)
  BY <1>1, GroupOfBlock DEF GroupBlocks
<1> HIDE DEF bs
<1>5. LET t == CountFreed(u, i, bs, g, 1)
      IN  IsState(t) /\ CountsExact(t) /\ t.r = "EOK" /\ AllFree(t) = AllFree(u) \cup bs
  BY <1>2, <1>3, <1>4, FreedKeepsCounts
<1>6. QED
  BY <1>2, <1>5 DEF ext4_balloc_free_block, bs, u
=============================================================================
