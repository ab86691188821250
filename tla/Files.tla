------------------------------- MODULE Files --------------------------------
(***************************************************************************)
(* The files of the ext4 file system as the kernel uses them: the          *)
(* operations of lwext4_rust on one inode (inode/file.rs, fs.rs) over the  *)
(* inodes, extent trees, block references and allocators of the C library. *)
(* The kernel calls them under the lock of the file system, so one at a    *)
(* time.  The state is the record k of module Alloc; k.seen is what        *)
(* read_at returns for every file, k.n and k.seg are the file_size and the *)
(* pending segment of write_at, k.ops counts the operations.                *)
(***************************************************************************)
EXTENDS Inode

CONSTANTS
  Images,       \* the file systems the kernel may mount
  MaxSize,      \* bound on the size of a file
  Writes,       \* the positions and lengths of writes
  Lengths,      \* the lengths a file is set to
  MaxFiles,     \* bound on the files
  MaxOps,       \* bound on the operations of a behaviour
  Admitted      \* the odd situations a behaviour may run into

VARIABLE k

\* The byte that is written to file i at offset o, and those that were in a
\* block before the file got it.
Own(i, o) == 100 * i + o

Old == -1

Bytes(d) == IF d.t = "data" THEN d.v ELSE [o \in 0..BlockSize - 1 |-> Old]

(***************************************************************************)
(* Reading.                                                                *)
(***************************************************************************)
ReadBlock(s, b, o) == IF b = 0 THEN 0 ELSE Bytes(s.disk[b])[o % BlockSize]

Inline(s, i) == s.ino[i].kind = "symlink" /\ s.ino[i].size < InlineMax

ReadByte(s, i, o) ==
  IF Inline(s, i) THEN Own(i, o)
  ELSE ReadBlock(s, ext4_fs_get_inode_dblk_idx(s, i, o \div BlockSize).b, o)

read_at(s, i) == [o \in 0..s.ino[i].size - 1 |-> ReadByte(s, i, o)]

\* The end of an operation: the registers are scratch space.
Done(s) == [s EXCEPT !.path = <<>>, !.b = 0, !.seg = <<>>, !.n = 0,
                     !.seen = [i \in DOMAIN s.ino |-> read_at(s, i)]]

(***************************************************************************)
(* Writing.                                                                *)
(***************************************************************************)
\* The part of a block that is not written shows what the block held before.
Exposes(s, l, lo, hi) ==
  /\ s.disk[s.b].t # "data"
  /\ lo > 0 \/ (hi < BlockSize /\ l < CeilDiv(s.n, BlockSize))

Byte(s, i, l, o, own) == IF own THEN Own(i, l * BlockSize + o) ELSE 0

\* Bytes lo..hi - 1 of logical block l go to block s.b.
write_bytes(s, i, l, lo, hi, own) ==
  CASE s.r # "EOK" -> s
    [] s.r = "EOK" /\ s.b = 0 -> Odd(s, "hole write")
    [] OTHER ->
         [IF Exposes(s, l, lo, hi) THEN Odd(s, "hole fill") ELSE s EXCEPT
            !.disk[s.b] = Data([o \in 0..BlockSize - 1 |->
               IF o \in lo..hi - 1 THEN Byte(s, i, l, o, own) ELSE Bytes(s.disk[s.b])[o]])]

GrowBlock(s, i, l) ==
  IF s.r # "EOK" THEN s
  ELSE write_bytes(ext4_fs_append_inode_dblk(s, i), i, l, 0, BlockSize, FALSE)

GrowBlocks(s, i, from, to) ==
  FoldLeft(LAMBDA t, l : GrowBlock(t, i, l), s, [x \in 1..to - from |-> from + x - 1])

\* What was past the end in the last block is cleared once the blocks are there.
ClearTail(s, i, cur) ==
  write_bytes(ext4_fs_init_inode_dblk_idx(s, i, cur \div BlockSize), i, cur \div BlockSize,
              cur % BlockSize, BlockSize, FALSE)

GrowEnd(s, i, cur, n) ==
  CASE s.r # "EOK" /\ s.ino[i].size > cur /\ cur % BlockSize # 0 -> Odd(s, "lost growth")
    [] s.r # "EOK" /\ ~(s.ino[i].size > cur /\ cur % BlockSize # 0) -> s
    [] OTHER -> [s EXCEPT !.ino[i].size = n]

\* Mutant: the last block keeps what was past the end.
tail_uncleared(s, i, n) ==
  GrowEnd(GrowBlocks(s, i, CeilDiv(s.ino[i].size, BlockSize), CeilDiv(n, BlockSize)),
          i, s.ino[i].size, n)

GrowThenClear(s, i, cur) == IF s.r # "EOK" THEN s ELSE ClearTail(s, i, cur)

Grow(s, i, n) ==
  GrowEnd(GrowThenClear(GrowBlocks(s, i, CeilDiv(s.ino[i].size, BlockSize), CeilDiv(n, BlockSize)),
                        i, s.ino[i].size), i, s.ino[i].size, n)

set_len(s, i, n) ==
  IF n <= s.ino[i].size THEN ext4_fs_truncate_inode(s, i, n) ELSE Grow(Err(s, "EOK"), i, n)

get_fblock(s, i, l) ==
  CASE s.r # "EOK" -> s
    [] s.r = "EOK" /\ l < CeilDiv(s.n, BlockSize) -> ext4_fs_init_inode_dblk_idx(s, i, l)
    [] OTHER -> ext4_fs_append_inode_dblk(s, i)

\* The pending segment goes to disk, full blocks only.
flush_fblock_segment(s, i) ==
  [FoldLeft(LAMBDA t, x : write_bytes([t EXCEPT !.b = x.b], i, x.l, 0, BlockSize, TRUE), s, s.seg)
     EXCEPT !.b = s.b, !.seg = <<>>]

AddToSegment(s, i, l) ==
  [IF s.seg # <<>> /\ Last(s.seg).b + 1 = s.b THEN s ELSE flush_fblock_segment(s, i) EXCEPT
     !.seg = Append(@, [l |-> l, b |-> s.b])]

FlushWhole(s, i) == IF s.r # "EOK" THEN s ELSE flush_fblock_segment(s, i)

\* A failure loses the segment; blocks new to the file keep what they held.
Lost(s) == \E x \in 1..Len(s.seg) : s.disk[s.seg[x].b].t # "data"

\* Piece x of a write has its block.
PutPiece(s, i, x) ==
  CASE s.r # "EOK" -> IF Lost(s) THEN Odd(s, "lost write") ELSE s
    [] s.r = "EOK" /\ x.lo = 0 /\ x.hi = BlockSize -> AddToSegment(s, i, x.l)
    [] OTHER -> write_bytes(s, i, x.l, x.lo, x.hi, TRUE)

WritePiece(s, i, x) ==
  PutPiece(get_fblock(IF x.hi = BlockSize THEN s ELSE FlushWhole(s, i), i, x.l), i, x)

\* The pieces of a write, block by block: the part of the first block, the whole
\* blocks, which are gathered in segments, and the part of the last one.
Pieces(pos, n) ==
  [y \in 1..CeilDiv(pos + n, BlockSize) - (pos \div BlockSize) |->
     LET l == (pos \div BlockSize) + y - 1 IN
     [l |-> l, lo |-> Max({0, pos - l * BlockSize}), hi |-> Min({BlockSize, pos + n - l * BlockSize})]]

WritePieces(s, i, pieces) == FoldLeft(LAMBDA t, x : WritePiece(t, i, x), s, pieces)

WriteEnd(s, i, end) ==
  IF s.r = "EOK" /\ end > s.n THEN [s EXCEPT !.ino[i].size = end] ELSE s

WriteGrown(s, i, pos, n) ==
  WriteEnd(FlushWhole(WritePieces([s EXCEPT !.n = s.ino[i].size], i, Pieces(pos, n)), i), i, pos + n)

\* A write past the end grows the file first.
write_at(s, i, pos, n) ==
  WriteGrown(IF pos > s.ino[i].size THEN Grow(Err(s, "EOK"), i, pos) ELSE Err(s, "EOK"), i, pos, n)

(***************************************************************************)
(* Links and the life of an inode.                                         *)
(***************************************************************************)
SetInline(s, i, n) ==
  [s EXCEPT !.ino[i].ext = FALSE, !.ino[i].size = n, !.ino[i].direct = [l \in DOMAIN @ |-> Text],
            !.ino[i].indirect = [l \in DOMAIN @ |-> Text], !.r = "EOK"]

SetLong(s, i, n) ==
  Shrink(write_bytes(ext4_fs_append_inode_dblk(ext4_fs_inode_blocks_init(s, i), i), i, 0, 0, n, TRUE), i, n)

set_symlink(s, i, n) ==
  CASE n > BlockSize -> Err(s, "ENAMETOOLONG")
    [] n < InlineMax -> SetInline(s, i, n)
    [] OTHER -> SetLong(s, i, n)

InitBlocks(s) == IF s.r # "EOK" THEN s ELSE ext4_fs_inode_blocks_init(s, s.b)

alloc_inode(s, kind) == InitBlocks(ext4_fs_alloc_inode(s, kind))

FreeTruncated(s, i) == IF s.r # "EOK" THEN s ELSE ext4_fs_free_inode(s, i)

\* The end of unlink, once the inode has no name.
free_unlinked(s, i) == FreeTruncated(ext4_fs_truncate_inode(s, i, 0), i)

(***************************************************************************)
(* The specification.                                                      *)
(***************************************************************************)
Init == \E im \in Images : k = Done(im)

OfKind(kind) == {i \in DOMAIN k.ino : k.ino[i].kind = kind}

To(s) == k.ops < MaxOps /\ k' = [Done(s) EXCEPT !.ops = @ + 1] /\ s.odd \subseteq Admitted

Create == \E kind \in {"file", "symlink"} :
            Cardinality(DOMAIN k.ino) < MaxFiles /\ To(alloc_inode(k, kind))

Write == \E i \in OfKind("file"), w \in Writes : To(write_at(k, i, w[1], w[2]))

SetLen == \E i \in OfKind("file"), n \in Lengths : To(set_len(k, i, n))

SetSymlink == \E i \in OfKind("symlink"), n \in 1..BlockSize + 1 :
                k.ino[i].size = 0 /\ To(set_symlink(k, i, n))

RemoveFile == \E i \in DOMAIN k.ino : To(free_unlinked(k, i))

Next == Create \/ Write \/ SetLen \/ SetSymlink \/ RemoveFile

Spec == Init /\ [][Next]_k

(***************************************************************************)
(* Properties.                                                             *)
(***************************************************************************)
\* Every operation on a file does what FileMap says: it writes, grows, shrinks,
\* creates and removes the files as asked, no byte of another file or of a block's
\* former owner is ever read, and running out of space stops it in between.
FM == INSTANCE FileMap WITH files <- k.seen, Ino <- 1..TotalInodes

ImplementsFileMap == FM!Spec

\* The blocks of the tree whose node is in block b, with b itself.
RECURSIVE TreeBlocks(_, _, _)
TreeBlocks(s, i, b) ==
  LET n == NodeAt(s, i, b) IN
  ({b} \ {0}) \cup UNION {IF n.depth = 0 THEN n.e[x].p..n.e[x].p + n.e[x].n - 1
                         ELSE TreeBlocks(s, i, n.e[x].p) : x \in 1..Len(n.e)}

MapBlocks(s, i) ==
  {BlockAt(s, i, l) : l \in 0..CeilDiv(s.ino[i].size, BlockSize) - 1} \cup IndirectBlocks(s, i)

Owned(s, i) ==
  ({s.ino[i].acl} \cup CASE s.ino[i].ext -> TreeBlocks(s, i, 0)
                        [] ~s.ino[i].ext /\ Inline(s, i) -> {}
                        [] OTHER -> MapBlocks(s, i)) \ {0}

\* A block belongs to one inode at most, and what is marked used is what the
\* inodes and the group metadata own: nothing is freed that is still mapped, and
\* nothing that was allocated is lost, whichever step of an operation fails.
OwnedOnce ==
  /\ \A i, j \in DOMAIN k.ino : i # j => Owned(k, i) \cap Owned(k, j) = {}
  /\ \A g \in Group \ k.uninit :
       k.used \cap GroupBlocks(g) =
         GroupBlocks(g) \cap (Meta \cup UNION {Owned(k, i) : i \in DOMAIN k.ino})

\* The free counts of the superblock and of each group, and the block count of
\* each inode, agree with the bitmaps and with the mapped blocks.
CountersAgree ==
  /\ \A i \in DOMAIN k.ino : k.ino[i].blocks = Cardinality(Owned(k, i))
  /\ \A g \in Group : k.bgfree[g] = Cardinality(GroupBlocks(g) \ (k.used \cup Meta))
  /\ k.sbfree = FoldSet(LAMBDA g, n : n + k.bgfree[g], 0, Group)
  /\ k.iused = DOMAIN k.ino
  /\ \A g \in Group : k.bgifree[g] + Cardinality(InodesOf(k, g)) = ext4_inodes_in_group_cnt(g)

\* Sound(n, lo, hi): the entries of node n and below lie in lo..hi - 1 in order,
\* do not overlap, and an index starts where its subtree does.
RECURSIVE Sound(_, _, _, _)
Sound(s, i, b, hi) ==
  LET n == NodeAt(s, i, b)
      End(x) == IF x = Len(n.e) THEN hi ELSE n.e[x + 1].f IN
  /\ Len(n.e) <= n.max
  /\ n.max = IF b = 0 THEN RootMax ELSE NodeMax
  /\ b # 0 \/ n.depth > 0 => n.e # <<>>
  /\ \A x \in 1..Len(n.e) :
       IF n.depth = 0 THEN n.e[x].n > 0 /\ n.e[x].f + n.e[x].n <= End(x)
       ELSE LET c == NodeAt(s, i, n.e[x].p) IN
            /\ c.depth = n.depth - 1
            /\ c.e # <<>> /\ c.e[1].f = n.e[x].f
            /\ Sound(s, i, n.e[x].p, End(x))

\* Every extent tree stays a search tree: ordered, without overlaps, without empty
\* nodes, of even depth, with nothing mapped past the end of the file.
TreesSound ==
  \A i \in DOMAIN k.ino :
    k.ino[i].ext => Sound(k, i, 0, CeilDiv(k.ino[i].size, BlockSize))
=============================================================================
