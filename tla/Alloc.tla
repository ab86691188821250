------------------------------- MODULE Alloc --------------------------------
(***************************************************************************)
(* The block and the inode allocators of lwext4: ext4_bitmap.c,            *)
(* ext4_balloc.c, ext4_ialloc.c and the block groups of ext4_fs.c.         *)
(*                                                                         *)
(* Every operator maps a state record s to the next one:                   *)
(*   used     the blocks whose bit is set in their group's block bitmap    *)
(*   uninit   the groups with EXT4_BLOCK_GROUP_BLOCK_UNINIT                *)
(*   bgfree   free_blocks_count of each group;  sbfree  of the superblock  *)
(*   iused, iuninit, bgifree, sbifree   the same for inodes                *)
(*   dirs, itu   used_dirs_count and itable_unused of each group           *)
(*   last     fs->last_inode_bg_id                                         *)
(*   ino      the inodes in use; ino[i].blocks is blocks_count in file     *)
(*            system blocks                                                *)
(*   disk     what each block holds; Stale once the block is free          *)
(*   r, b     the returned error code and the returned block or inode      *)
(*   odd      the situations met in which the code does not do what its    *)
(*            callers count on, so that a specification can leave them out *)
(* Revoking and invalidating a freed block belong to module Jbd.  The      *)
(* bitmap checksums always verify, and no block I/O fails.                 *)
(***************************************************************************)
EXTENDS Integers, Sequences, FiniteSets, FiniteSetsExt, SequencesExt

CONSTANTS
  BlockSize,        \* in bytes
  FirstData,        \* first_data_block: 1 when a block is 1 KiB, 0 otherwise
  BlocksPerGroup,   \* blocks_per_group
  BitmapBits,       \* 8 * block size, the bits of one bitmap block
  TotalBlocks,      \* blocks_count
  Meta,             \* the superblocks, descriptors, bitmaps and inode tables
  ItableEnd,        \* per group, the block after its inode table
  InodesPerGroup,   \* inodes_per_group
  TotalInodes,      \* inodes_count
  ByteBits,         \* the bits of a bitmap byte (8)
  NearGoal          \* the bits scanned near the goal (64)

ASSUME AllocAssumption ==
  /\ FirstData \in {0, 1}
  /\ BitmapBits \in Nat /\ BlocksPerGroup \in 1..BitmapBits
  /\ TotalBlocks \in Nat /\ FirstData < TotalBlocks
  /\ ByteBits \in Nat \ {0} /\ NearGoal \in Nat \ {0}
  /\ NearGoal % ByteBits = 0

Stale == [t |-> "stale"]

\* A block of file data: the function v from its bytes to their values.
Data(v) == [t |-> "data", v |-> v]

Zeros == Data([o \in 0..BlockSize - 1 |-> 0])

Err(s, e) == [s EXCEPT !.r = e]

Odd(s, name) == [s EXCEPT !.odd = @ \cup {name}]

CeilDiv(x, y) == (x + y - 1) \div y

ext4_block_group_cnt == CeilDiv(TotalBlocks, BlocksPerGroup)

Group == 0..ext4_block_group_cnt - 1

Rel(b) == IF FirstData = 1 /\ b # 0 THEN b - 1 ELSE b

ext4_balloc_get_bgid_of_block(b) == Rel(b) \div BlocksPerGroup

ext4_fs_addr_to_idx_bg(b) == Rel(b) % BlocksPerGroup

ext4_fs_bg_idx_to_addr(i, g) == BlocksPerGroup * g + i + FirstData

\* One more than the last group has when FirstData is 1.
ext4_blocks_in_group_cnt(g) ==
  IF g < ext4_block_group_cnt - 1 THEN BlocksPerGroup
  ELSE TotalBlocks - (ext4_block_group_cnt - 1) * BlocksPerGroup

ext4_inodes_in_group_cnt(g) ==
  IF g < ext4_block_group_cnt - 1 THEN InodesPerGroup
  ELSE TotalInodes - (ext4_block_group_cnt - 1) * InodesPerGroup

(***************************************************************************)
(* Bitmaps, as sets of the indexes whose bit is set.                       *)
(***************************************************************************)
NoBit == -1

\* The search returns its start, and not the bit, for a clear bit before the
\* first byte boundary.
ext4_bmap_bit_find_clr(bits, sbit, ebit) ==
  LET head == {i \in sbit..ebit - 1 : i < CeilDiv(sbit, ByteBits) * ByteBits}
      clear == (sbit..ebit - 1) \ bits IN
  CASE head \ bits # {} -> sbit
    [] head \subseteq bits /\ clear # {} -> Min(clear)
    [] OTHER -> NoBit

\* The bits past the blocks of the group are set, up to the bitmap's end.
ext4_fs_mark_bitmap_end(g) ==
  {i \in 0..BitmapBits - 1 : ext4_fs_bg_idx_to_addr(i, g) >= TotalBlocks}

GroupBlocks(g) == {b \in FirstData..TotalBlocks - 1 : ext4_balloc_get_bgid_of_block(b) = g}

ext4_fs_init_block_bitmap(s, g) == [s EXCEPT !.used = @ \cup (Meta \cap GroupBlocks(g))]

ext4_fs_init_inode_bitmap(s, g) ==
  [s EXCEPT !.iused = {i \in @ : (i - 1) \div InodesPerGroup # g}]

ClearBlockUninit(s, g) ==
  IF g \notin s.uninit THEN s
  ELSE [ext4_fs_init_block_bitmap(s, g) EXCEPT !.uninit = @ \ {g}]

ClearInodeUninit(s, g) ==
  IF g \notin s.iuninit THEN s
  ELSE [ext4_fs_init_inode_bitmap(s, g) EXCEPT !.iuninit = @ \ {g}]

(***************************************************************************)
(* Loading a descriptor initialises the bitmaps of the group the first     *)
(* time.  Past the last group the descriptor block reads as zeros.         *)
(***************************************************************************)
ext4_fs_get_block_group_ref(s, g) == ClearInodeUninit(ClearBlockUninit(s, g), g)

\* A group whose bitmap is not initialised yet has the bits it will have.
BitmapOf(s, g) ==
  ext4_fs_mark_bitmap_end(g) \cup
  {ext4_fs_addr_to_idx_bg(b) :
     b \in GroupBlocks(g) \cap (s.used \cup IF g \in s.uninit THEN Meta ELSE {})}

FreeOf(s, g) == IF g \in Group THEN s.bgfree[g] ELSE 0

\* A goal with no bit in a bitmap: before the first block, in no group, or so far
\* past the end of the last group that the length of its search wraps.
FarGoal(goal) ==
  \/ goal < 0
  \/ ext4_balloc_get_bgid_of_block(goal) \notin Group
  \/ ext4_fs_addr_to_idx_bg(goal) > ext4_blocks_in_group_cnt(ext4_balloc_get_bgid_of_block(goal))

(***************************************************************************)
(* Blocks.                                                                 *)
(***************************************************************************)
CountTaken(s, i, b, g) ==
  [s EXCEPT !.used = @ \cup {b}, !.sbfree = @ - 1, !.ino[i].blocks = @ + 1,
            !.bgfree[g] = @ - 1, !.r = "EOK", !.b = b]

Near(idx, cnt) == idx + 1..Min({CeilDiv(idx, NearGoal) * NearGoal, cnt}) - 1

\* The goal, the bits near it, then the rest of the goal's group.
InGoalGroup(bits, idx, cnt) ==
  CASE idx \notin bits -> idx
    [] idx \in bits /\ Near(idx, cnt) \ bits # {} -> Min(Near(idx, cnt) \ bits)
    [] OTHER -> ext4_bmap_bit_find_clr(bits, idx, cnt)

\* The k-th group visited: the goal's, then every group from the next one on, the
\* goal's own again at the end.
VisitedAs(goal, k) ==
  IF k = 0 THEN ext4_balloc_get_bgid_of_block(goal)
  ELSE (ext4_balloc_get_bgid_of_block(goal) + k) % ext4_block_group_cnt

\* The index found in group h, the k-th visited.  For a far goal, which is
\* registered, the code looks at bits outside the bitmap, whatever they are; NoBit
\* stands for that.
FoundIn(s, goal, k, h) ==
  CASE FreeOf(s, h) = 0 \/ (k = 0 /\ FarGoal(goal)) -> NoBit
    [] FreeOf(s, h) # 0 /\ k > 0 ->
         ext4_bmap_bit_find_clr(BitmapOf(s, h), 0, ext4_blocks_in_group_cnt(h))
    [] OTHER -> InGoalGroup(BitmapOf(s, h), ext4_fs_addr_to_idx_bg(goal), ext4_blocks_in_group_cnt(h))

LoadGroups(s, gs) == [s EXCEPT !.used = @ \cup (Meta \cap UNION {GroupBlocks(g) : g \in gs \cap s.uninit}),
                               !.uninit = @ \ gs, !.iuninit = @ \ gs]

\* The first group with a free block, of those with an index <<k, group, index>>.
TakeFirst(s, i, goal, hits) ==
  LET hit == CHOOSE x \in hits : \A y \in hits : x[1] <= y[1] IN
  CountTaken(LoadGroups(s, {VisitedAs(goal, k) : k \in 0..hit[1]}), i,
             ext4_fs_bg_idx_to_addr(hit[3], hit[2]), hit[2])

\* s.b is 0 when there is no free block.
TakeOrFail(s, i, goal, hits) ==
  IF hits # {} THEN TakeFirst(s, i, goal, hits)
  ELSE [LoadGroups(s, Group) EXCEPT !.r = "ENOSPC", !.b = 0]

GroupsTried(goal) == 0..ext4_block_group_cnt

ext4_balloc_alloc_block(s, i, goal) ==
  TakeOrFail(IF FarGoal(goal) THEN Odd(s, "far goal") ELSE s, i, goal,
             {x \in {<<k, VisitedAs(goal, k), FoundIn(s, goal, k, VisitedAs(goal, k))>> :
                       k \in GroupsTried(goal)} : x[3] # NoBit})

TakeIfFree(s, i, b, g) == IF b \in s.used THEN [s EXCEPT !.r = "EOK", !.b = NoBit] ELSE CountTaken(s, i, b, g)

\* b is returned in s.b when it was free, NoBit otherwise.  Nobody calls it.
ext4_balloc_try_alloc_block(s, i, b) ==
  LET g == ext4_balloc_get_bgid_of_block(b) IN TakeIfFree(ext4_fs_get_block_group_ref(s, g), i, b, g)

\* Mutant: freed blocks are not added to the free count of their group.
freed_uncounted(s, i, bs, g, n) ==
  [s EXCEPT !.used = @ \ bs, !.sbfree = @ + n, !.ino[i].blocks = @ - n, !.r = "EOK",
            !.disk = [b \in DOMAIN @ |-> IF b \in bs THEN Stale ELSE @[b]]]

CountFreed(s, i, bs, g, n) ==
  [s EXCEPT !.used = @ \ bs, !.sbfree = @ + n, !.ino[i].blocks = @ - n,
            !.bgfree[g] = @ + n, !.r = "EOK",
            !.disk = [b \in DOMAIN @ |-> IF b \in bs THEN Stale ELSE @[b]]]

ext4_balloc_free_block(s, i, b) ==
  CountFreed(ext4_fs_get_block_group_ref(s, ext4_balloc_get_bgid_of_block(b)), i, {b},
             ext4_balloc_get_bgid_of_block(b), 1)

\* How many blocks of the run from b are freed in the group of b: up to the end
\* of the bitmap block, not of the group.
FreeCnt(b, n) == Min({BitmapBits - ext4_fs_addr_to_idx_bg(b), n})

\* The part of a run in each group: two at most, an extent is no longer than a group.
Runs(b, n) ==
  IF FreeCnt(b, n) = n THEN <<<<b, n>>>>
  ELSE <<<<b, FreeCnt(b, n)>>, <<b + FreeCnt(b, n), n - FreeCnt(b, n)>>>>

FreeRun(s, i, b, n, g) == CountFreed(ext4_fs_get_block_group_ref(s, g), i, b..b + n - 1, g, n)

ext4_balloc_free_blocks(s, i, b, n) ==
  FoldLeft(LAMBDA t, x : FreeRun(t, i, x[1], x[2], ext4_balloc_get_bgid_of_block(x[1])),
           s, Runs(b, n))

(***************************************************************************)
(* Inodes.                                                                 *)
(***************************************************************************)
ext4_ialloc_get_bgid_of_inode(i) == (i - 1) \div InodesPerGroup

ext4_ialloc_bgidx_to_inode(idx, g) == g * InodesPerGroup + idx + 1

InodesOf(s, g) ==
  IF g \in s.iuninit THEN {}
  ELSE {(i - 1) % InodesPerGroup : i \in {j \in s.iused : ext4_ialloc_get_bgid_of_inode(j) = g}}

\* The groups from last_inode_bg_id on, then those before it.
InodeGroupAt(s, k) == (s.last + k) % ext4_block_group_cnt

IdxIn(s, g) == ext4_bmap_bit_find_clr(InodesOf(s, g), 0, ext4_inodes_in_group_cnt(g))

TakeInode(s, idx, g, is_dir) ==
  LET n == ext4_inodes_in_group_cnt(g) IN
  [s EXCEPT !.iused = @ \cup {ext4_ialloc_bgidx_to_inode(idx, g)}, !.bgifree[g] = @ - 1,
            !.dirs[g] = IF is_dir THEN @ + 1 ELSE @,
            !.itu[g] = IF idx >= n - @ THEN n - (idx + 1) ELSE @,
            !.sbifree = @ - 1, !.last = g,
            !.r = "EOK", !.b = ext4_ialloc_bgidx_to_inode(idx, g)]

\* A group with a free count and no clear bit is visited again for ever.
TakeInodeAt(s, k, idx, is_dir) ==
  IF idx = NoBit THEN Err(s, "LOOPS")
  ELSE TakeInode(LoadGroups(s, {InodeGroupAt(s, j) : j \in 0..k}), idx, InodeGroupAt(s, k), is_dir)

TakeInodeIn(s, hits, is_dir) ==
  IF hits = {} THEN Err(LoadGroups(s, Group), "ENOSPC")
  ELSE TakeInodeAt(s, Min(hits), IdxIn(s, InodeGroupAt(s, Min(hits))), is_dir)

ext4_ialloc_alloc_inode(s, is_dir) ==
  TakeInodeIn(s, {k \in 0..ext4_block_group_cnt - 1 : s.bgifree[InodeGroupAt(s, k)] > 0}, is_dir)

ext4_ialloc_free_inode(s, i, is_dir) ==
  LET g == ext4_ialloc_get_bgid_of_inode(i) IN
  [ext4_fs_get_block_group_ref(s, g) EXCEPT
     !.iused = @ \ {i}, !.dirs[g] = IF is_dir THEN @ - 1 ELSE @,
     !.bgifree[g] = @ + 1, !.sbifree = @ + 1, !.r = "EOK"]
=============================================================================
