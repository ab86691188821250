------------------------------- MODULE Inode --------------------------------
(***************************************************************************)
(* The inodes of lwext4's ext4_fs.c: operations that work the same way     *)
(* over an extent tree (module Extent) and over block references (the      *)
(* first part here).  An inode is a record with the fields                 *)
(*   kind       "file", "dir" or "symlink"                                 *)
(*   ext        EXT4_INODE_FLAG_EXTENTS                                    *)
(*   size, blocks, acl   size, block count and extended attribute block    *)
(*   root       the extent tree's root, when ext holds                     *)
(*   direct, indirect    the references, when it does not                  *)
(* root, direct and indirect are the same bytes of the inode, as is the    *)
(* target of a short symbolic link.                                        *)
(***************************************************************************)
EXTENDS Extent

-----------------------------------------------------------------------------
(***************************************************************************)
(* Inodes that map their blocks through direct and indirect references:    *)
(* the part of lwext4's ext4_fs.c for inodes without                       *)
(* EXT4_INODE_FLAG_EXTENTS.  Operators on the state record of module       *)
(* Alloc; an inode is a record with the fields                             *)
(*   size       in bytes                                                   *)
(*   direct     block of each of the first DirectCnt logical blocks        *)
(*   indirect   the single, double and triple indirect block               *)
(* and 0 is no block.  An indirect block holds a function p from the       *)
(* offsets in it to blocks.                                                *)
(***************************************************************************)

CONSTANTS
  DirectCnt,    \* EXT4_INODE_DIRECT_BLOCK_COUNT
  PerBlock      \* the references in an indirect block, block_size / 4

Indirect(p) == [t |-> "indirect", p |-> p]

NoRefs == Indirect([o \in 0..PerBlock - 1 |-> 0])

\* fs->inode_blocks_per_level and fs->inode_block_limits.
PerLevel == [l \in 0..3 |-> PerBlock ^ l]

BlockLimit == [l \in 0..3 |-> DirectCnt + (IF l > 0 THEN PerBlock ELSE 0)
                 + (IF l > 1 THEN PerBlock ^ 2 ELSE 0) + (IF l > 2 THEN PerBlock ^ 3 ELSE 0)]

\* The level of indirection of logical block l; 0 when the file cannot have it.
LevelOf(l) ==
  IF l >= BlockLimit[3] THEN 0 ELSE Min({v \in 1..3 : l < BlockLimit[v]})

InLevel(l) == l - BlockLimit[LevelOf(l) - 1]

\* From block b, l levels up, follow the reference at offset o of the level.
RECURSIVE Follow(_, _, _, _)
Follow(s, b, o, l) ==
  IF b = 0 \/ l = 0 THEN b
  ELSE Follow(s, s.disk[b].p[o \div PerLevel[l - 1]], o % PerLevel[l - 1], l - 1)

BlockAt(s, i, l) ==
  IF l < DirectCnt THEN s.ino[i].direct[l]
  ELSE Follow(s, s.ino[i].indirect[LevelOf(l)], InLevel(l), LevelOf(l))

BlockmapGet(s, i, l) ==
  IF l >= BlockLimit[3] THEN Err(s, "EIO") ELSE [s EXCEPT !.r = "EOK", !.b = BlockAt(s, i, l)]

(***************************************************************************)
(* The goal: after the file's last block, or after the inode table of the  *)
(* inode's group.                                                          *)
(***************************************************************************)
ext4_fs_indirect_find_goal(s, i) ==
  LET n == CeilDiv(s.ino[i].size, BlockSize) IN
  IF n > 0 /\ BlockAt(s, i, n - 1) # 0 THEN BlockAt(s, i, n - 1) + 1
  ELSE ItableEnd[ext4_ialloc_get_bgid_of_inode(i)]

ClearNew(s) == IF s.r = "EOK" THEN [s EXCEPT !.disk[s.b] = NoRefs] ELSE s

AllocIndirect(s, i) == ClearNew(ext4_balloc_alloc_block(s, i, ext4_fs_indirect_find_goal(s, i)))

\* A new indirect block goes into the block above it, or into the inode.
RefNew(s, b, at) == IF s.r # "EOK" THEN s ELSE [s EXCEPT !.disk[b].p[at] = s.b]

RefTop(s, i, v) == IF s.r # "EOK" THEN s ELSE [s EXCEPT !.ino[i].indirect[v] = s.b]

\* In indirect block b, l levels up, make the reference at offset o reach blk.
RECURSIVE SetRef(_, _, _, _, _, _)
SetBelow(s, i, b, o, l, blk) ==
  SetRef(s, i, IF s.r # "EOK" THEN 0 ELSE s.disk[b].p[o \div PerLevel[l - 1]], o % PerLevel[l - 1], l - 1, blk)

SetRef(s, i, b, o, l, blk) ==
  LET at == o \div PerLevel[l - 1] IN
  CASE s.r # "EOK" -> s
    [] s.r = "EOK" /\ l = 1 -> [s EXCEPT !.disk[b].p[at] = blk]
    [] OTHER -> SetBelow(IF s.disk[b].p[at] # 0 THEN s ELSE RefNew(AllocIndirect(s, i), b, at),
                         i, b, o, l, blk)

SetTop(s, i, v, o, blk) == SetRef(s, i, s.ino[i].indirect[v], o, v, blk)

SetIndirect(s, i, l, blk) ==
  SetTop(IF s.ino[i].indirect[LevelOf(l)] # 0 THEN Err(s, "EOK") ELSE RefTop(AllocIndirect(s, i), i, LevelOf(l)),
         i, LevelOf(l), InLevel(l), blk)

ext4_fs_set_inode_data_block_index(s, i, l, blk) ==
  CASE l < DirectCnt -> [s EXCEPT !.ino[i].direct[l] = blk, !.r = "EOK"]
    [] l >= BlockLimit[3] -> Err(s, "EIO")
    [] OTHER -> SetIndirect(s, i, l, blk)

\* After setting the reference: give the block back, or take it into the size.
AppendEnd(s, i, t, blk) ==
  IF t.r # "EOK" THEN Err(ext4_balloc_free_block(t, i, blk), t.r)
  ELSE [t EXCEPT !.ino[i].size = CeilDiv(s.ino[i].size, BlockSize) * BlockSize + BlockSize,
                 !.b = blk]

AppendAt(a, s, i) ==
  IF a.r # "EOK" THEN a
  ELSE AppendEnd(s, i, ext4_fs_set_inode_data_block_index(
                         a, i, CeilDiv(s.ino[i].size, BlockSize), a.b), a.b)

BlockmapAppend(s, i) ==
  AppendAt(ext4_balloc_alloc_block(s, i, ext4_fs_indirect_find_goal(s, i)), s, i)

(***************************************************************************)
(* Releasing the data block of one logical block.  The indirect blocks     *)
(* stay until the inode is freed.                                          *)
(***************************************************************************)
RECURSIVE ClearRef(_, _, _, _)
ClearRef(s, b, o, l) ==
  CASE b = 0 -> s
    [] b # 0 /\ l = 1 -> [s EXCEPT !.disk[b].p[o] = 0]
    [] OTHER -> ClearRef(s, s.disk[b].p[o \div PerLevel[l - 1]], o % PerLevel[l - 1], l - 1)

Unreference(s, i, l) ==
  IF l < DirectCnt THEN [s EXCEPT !.ino[i].direct[l] = 0]
  ELSE ClearRef(s, s.ino[i].indirect[LevelOf(l)], InLevel(l), LevelOf(l))

ext4_fs_release_inode_block(s, i, l) ==
  CASE l >= BlockLimit[3] -> Err(s, "EIO")
    [] BlockAt(s, i, l) = 0 -> [s EXCEPT !.r = "EOK"]
    [] OTHER -> ext4_balloc_free_block(Unreference(s, i, l), i, BlockAt(s, i, l))

\* Releases the logical blocks n..m - 1, up to the first failure.
RECURSIVE ReleaseFrom(_, _, _, _)
ReleaseFrom(s, i, n, m) ==
  IF n >= m \/ s.r # "EOK" THEN s
  ELSE ReleaseFrom(ext4_fs_release_inode_block(s, i, n), i, n + 1, m)

(***************************************************************************)
(* The indirect blocks of an inode that is freed, each level's children    *)
(* before the block itself.                                                *)
(***************************************************************************)
RECURSIVE Beneath(_, _, _)
Beneath(s, b, l) ==
  IF b = 0 THEN {}
  ELSE {b} \cup IF l = 1 THEN {}
                ELSE UNION {Beneath(s, s.disk[b].p[o], l - 1) : o \in 0..PerBlock - 1}

IndirectBlocks(s, i) == UNION {Beneath(s, s.ino[i].indirect[l], l) : l \in 1..3}

FreeEach(s, i, bs) == FoldSet(LAMBDA b, t : ext4_balloc_free_block(t, i, b), s, bs)

FreeIndirect(s, i) ==
  [FreeEach(s, i, IndirectBlocks(s, i)) EXCEPT !.ino[i].indirect = [l \in 1..3 |-> 0]]

-----------------------------------------------------------------------------
CONSTANTS
  InlineMax,    \* the bytes of the block array (60)
  Text          \* what a byte of a link's target is as a block reference

NoDirect == [l \in 0..DirectCnt - 1 |-> 0]

NoIndirect == [l \in 1..3 |-> 0]

ext4_fs_inode_blocks_init(s, i) ==
  IF s.ino[i].kind \notin {"file", "dir"} THEN s
  ELSE [s EXCEPT !.ino[i].ext = TRUE, !.ino[i].root = ext4_extent_tree_init]

BlankInode(kind) ==
  [kind |-> kind, ext |-> FALSE, size |-> 0, blocks |-> 0, acl |-> 0,
   root |-> ext4_extent_tree_init, direct |-> NoDirect, indirect |-> NoIndirect]

\* The inode's number is s.b.
NewInode(s, kind) ==
  IF s.r # "EOK" THEN s
  ELSE [s EXCEPT !.ino = [j \in DOMAIN @ \cup {s.b} |-> IF j = s.b THEN BlankInode(kind) ELSE @[j]]]

ext4_fs_alloc_inode(s, kind) == NewInode(ext4_ialloc_alloc_inode(s, kind = "dir"), kind)

FreeAcl(s, i) ==
  IF s.ino[i].acl = 0 THEN s
  ELSE [ext4_balloc_free_block(s, i, s.ino[i].acl) EXCEPT !.ino[i].acl = 0]

DropInode(s, i) == [s EXCEPT !.ino = [j \in DOMAIN @ \ {i} |-> @[j]]]

\* The blocks of an extent tree were released when the file was truncated.
ext4_fs_free_inode(s, i) ==
  DropInode(ext4_ialloc_free_inode(FreeAcl(IF s.ino[i].ext THEN s ELSE FreeIndirect(s, i), i),
                                   i, s.ino[i].kind = "dir"), i)

(***************************************************************************)
(* The block of a logical block.  Only extents are allocated on demand.    *)
(***************************************************************************)
ext4_fs_get_inode_dblk_idx(s, i, l) ==
  CASE s.ino[i].size = 0 -> [s EXCEPT !.r = "EOK", !.b = 0]
    [] s.ino[i].size # 0 /\ s.ino[i].ext -> ExtentGet(ext4_find_extent(s, i, l), i, l)
    [] OTHER -> BlockmapGet(s, i, l)

ext4_fs_init_inode_dblk_idx(s, i, l) ==
  CASE s.ino[i].size = 0 -> [s EXCEPT !.r = "EOK", !.b = 0]
    [] s.ino[i].size # 0 /\ s.ino[i].ext -> ext4_extent_get_blocks(s, i, l, TRUE)
    [] OTHER -> BlockmapGet(s, i, l)

\* The new logical block is the one after the last.
Enlarge(s, i) == IF s.r # "EOK" THEN s ELSE [s EXCEPT !.ino[i].size = @ + BlockSize]

ExtentAppend(s, i) ==
  Enlarge(ext4_extent_get_blocks(s, i, CeilDiv(s.ino[i].size, BlockSize), TRUE), i)

ext4_fs_append_inode_dblk(s, i) ==
  IF s.ino[i].ext THEN ExtentAppend(s, i) ELSE BlockmapAppend(s, i)

(***************************************************************************)
(* Truncation.                                                             *)
(***************************************************************************)
TruncateInline(s, i, n) ==
  [s EXCEPT !.ino[i].size = n, !.r = "EOK", !.ino[i].direct = NoDirect,
            !.ino[i].indirect = NoIndirect]

ReleaseBlocks(s, i, n, m) ==
  CASE n = m -> [s EXCEPT !.r = "EOK"]
    [] n # m /\ s.ino[i].ext -> ext4_extent_remove_space(s, i, n)
    [] OTHER -> ReleaseFrom([s EXCEPT !.r = "EOK"], i, n, m)

Shrink(s, i, n) == IF s.r # "EOK" THEN s ELSE [s EXCEPT !.ino[i].size = n]

TruncateBlocks(s, i, n) ==
  Shrink(ReleaseBlocks(s, i, CeilDiv(n, BlockSize), CeilDiv(s.ino[i].size, BlockSize)), i, n)

\* Only files, directories and links can be truncated, and never to grow.
ext4_inode_can_truncate(s, i) == s.ino[i].kind \in {"file", "dir", "symlink"}

ext4_fs_truncate_inode(s, i, n) ==
  CASE ~ext4_inode_can_truncate(s, i) \/ n > s.ino[i].size -> Err(s, "EINVAL")
    [] ext4_inode_can_truncate(s, i) /\ n = s.ino[i].size -> Err(s, "EOK")
    [] OTHER -> IF s.ino[i].kind = "symlink" /\ s.ino[i].size < InlineMax /\ s.ino[i].blocks = 0
                THEN TruncateInline(s, i, n) ELSE TruncateBlocks(s, i, n)

=============================================================================
