------------------------------- MODULE Extent -------------------------------
(***************************************************************************)
(* Inodes that map their blocks through an extent tree: ext4_extent.c.     *)
(* Operators on the state record of module Alloc.  A node is a record with *)
(* its depth (0 for a leaf), its capacity max and the sequence e of its    *)
(* entries, ordered by f:                                                  *)
(*   of a leaf     [f, n, p, u]: logical blocks f..f + n - 1 are at blocks *)
(*                 p..p + n - 1 and, when u holds, read as zeros           *)
(*   of an index   [f, p]: the subtree in block p starts at f              *)
(* The root is in the inode, the others are blocks that pass               *)
(* ext4_ext_check.  A path (struct ext4_extent_path) is the sequence, from *)
(* the root down, of a node's block (0 is the root) and the position of    *)
(* its current entry (0 is NULL).  It is the register s.path.              *)
(***************************************************************************)
EXTENDS Alloc

CONSTANTS
  RootMax,    \* the entries the inode has room for (4)
  NodeMax,    \* the entries a block has room for
  MaxLen      \* EXT_INIT_MAX_LEN

ASSUME ExtentAssumption == 0 < RootMax /\ RootMax < NodeMax

ExtNode(d, m, e) == [t |-> "extents", depth |-> d, max |-> m, e |-> e]

\* The entries a node of depth d has room for in a tree of depth top.
ext4_ext_max_entries(d, top) == IF d = top THEN RootMax ELSE NodeMax

\* An extent as it is packed: u is kept in the top bit of the length.
ExtentOf(f, n, p, u) == [f |-> f, n |-> n, p |-> p, u |-> u]

ext4_extent_tree_init == ExtNode(0, RootMax, <<>>)

NodeAt(s, i, b) == IF b = 0 THEN s.ino[i].root ELSE s.disk[b]

SetEntries(s, i, b, e) ==
  IF b = 0 THEN [s EXCEPT !.ino[i].root.e = e] ELSE [s EXCEPT !.disk[b].e = e]

ext_depth(s, i) == s.ino[i].root.depth

\* The node and the entry of a path's level lv; the root is level 0.
PathNode(s, i, lv) == NodeAt(s, i, s.path[lv + 1].b)

PathAt(s, lv) == s.path[lv + 1].at

Leaf(s, i) == PathNode(s, i, ext_depth(s, i))

LeafAt(s, i) == PathAt(s, ext_depth(s, i))

(***************************************************************************)
(* Search.  Both binary searches find the last entry that does not start   *)
(* after the block, the first entry when all do.                           *)
(***************************************************************************)
ext4_ext_binsearch(e, l) ==
  IF e = <<>> THEN 0 ELSE Max({1} \cup {k \in 2..Len(e) : e[k].f <= l})

RECURSIVE PathFrom(_, _, _, _)
PathFrom(s, i, b, l) ==
  LET n == NodeAt(s, i, b)
      at == ext4_ext_binsearch(n.e, l) IN
  <<[b |-> b, at |-> at]>> \o IF n.depth = 0 THEN <<>> ELSE PathFrom(s, i, n.e[at].p, l)

ext4_find_extent(s, i, l) == [s EXCEPT !.path = PathFrom(s, i, 0, l), !.r = "EOK"]

ext4_fs_inode_to_goal_block(i) == (i - 1) \div InodesPerGroup

\* Where logical block l would be if the extent at hand went on to it.
ext4_ext_find_goal(s, i, l) ==
  LET at == PathAt(s, Len(s.path) - 1)
      ex == PathNode(s, i, Len(s.path) - 1).e[at] IN
  CASE at # 0 -> ex.p + (l - ex.f)
    [] at = 0 /\ Last(s.path).b # 0 -> Last(s.path).b
    [] OTHER -> ext4_fs_inode_to_goal_block(i)

ext4_new_meta_blocks(s, i, goal) == ext4_balloc_alloc_block(s, i, goal)

(***************************************************************************)
(* Inserting an extent into the leaf at hand.                              *)
(***************************************************************************)
\* The first entry of the leaf starts at f now: so do the indexes to it.
RECURSIVE StartAtBorder(_, _, _, _)
StartAtBorder(s, i, lv, f) ==
  LET t == [PathNode(s, i, lv).e EXCEPT ![PathAt(s, lv)].f = f]
      u == SetEntries(s, i, s.path[lv + 1].b, t) IN
  IF lv = 0 \/ PathAt(s, lv) # 1 THEN u ELSE StartAtBorder(u, i, lv - 1, f)

ext4_ext_correct_indexes(s, i) ==
  IF ext_depth(s, i) = 0 \/ LeafAt(s, i) # 1 THEN s
  ELSE StartAtBorder(s, i, ext_depth(s, i) - 1, Leaf(s, i).e[1].f)

Fits(ex, n) == ex.n + n <= IF ex.u THEN MaxLen - 1 ELSE MaxLen

ext4_ext_can_append(ex, new) == ex.p + ex.n = new.p /\ Fits(ex, new.n) /\ ex.f + ex.n = new.f

ext4_ext_can_prepend(ex, new) ==
  new.p + new.n = ex.p /\ Fits(ex, new.n) /\ new.f + new.n = ex.f

SetLeaf(s, i, e) == SetEntries(s, i, Last(s.path).b, e)

\* The extent grows at its end and keeps its unwritten mark.
Appended(s, i, e, at, new) ==
  [SetLeaf(IF e[at].u # new.u THEN Odd(s, "mixed extent") ELSE s, i,
           [e EXCEPT ![at].n = @ + new.n]) EXCEPT !.r = "EOK"]

\* The extent starts earlier; its physical start stays.
Prepended(s, i, e, at, new) ==
  [SetLeaf(Odd(s, "prepend"), i, [e EXCEPT ![at].n = @ + new.n, ![at].f = new.f]) EXCEPT !.r = "EOK"]

Point(s, at) == [s EXCEPT !.path[Len(s.path)].at = at]

InsertEntry(s, i, e, pos, new) ==
  [Point(ext4_ext_correct_indexes(SetLeaf(Point(s, Max({1, PathAt(s, Len(s.path) - 1)})), i,
                                          InsertAt(e, pos, new)), i), pos) EXCEPT !.r = "EOK"]

\* s.r is SPLIT when the leaf is full: EIO with *need_split set.
ext4_ext_insert_leaf(s, i, new, combine) ==
  LET e == Leaf(s, i).e
      at == LeafAt(s, i) IN
  CASE at # 0 /\ e[at].f = new.f -> Err(s, "EIO")
    [] combine /\ at # 0 /\ ext4_ext_can_append(e[at], new) -> Appended(s, i, e, at, new)
    [] combine /\ at # 0 /\ ext4_ext_can_prepend(e[at], new) -> Prepended(s, i, e, at, new)
    [] Len(e) = Leaf(s, i).max -> Err(s, "SPLIT")
    [] OTHER -> InsertEntry(s, i, e, IF at # 0 /\ new.f > e[at].f THEN at + 1
                                     ELSE Max({1, at}), new)

(***************************************************************************)
(* Splitting the nodes from the leaf up to level at: the entries after the *)
(* current one move to new nodes, np from the lowest up.                   *)
(***************************************************************************)
FreeNodes(s, i, np) == FoldLeft(LAMBDA t, n : ext4_balloc_free_blocks(t, i, n.b, 1), s, np)

\* Node lv is split into itself and the new block s.b.
SplitOne(s, i, lv, ii, np) ==
  LET n == PathNode(s, i, lv)
      moved == SubSeq(n.e, PathAt(s, lv) + 1, Len(n.e))
      new == IF np = <<>> THEN moved ELSE <<[f |-> ii, p |-> Last(np).b]>> \o moved IN
  [SetEntries(s, i, s.path[lv + 1].b, SubSeq(n.e, 1, PathAt(s, lv)))
     EXCEPT !.disk[s.b] = ExtNode(n.depth, ext4_ext_max_entries(n.depth, ext_depth(s, i)), new)]

\* Position 1 of the new node is its current entry, if it has any.
NewLevel(s) == [b |-> s.b, at |-> IF s.disk[s.b].e = <<>> THEN 0 ELSE 1]

ext4_ext_insert_index(s, i, lv, ii, b, move) ==
  LET n == PathNode(s, i, lv)
      at == PathAt(s, lv)
      pos == IF ii > n.e[at].f THEN at + 1 ELSE at IN
  IF ii = n.e[at].f \/ Len(n.e) = n.max THEN Err(s, "EIO")
  ELSE [SetEntries(s, i, s.path[lv + 1].b, InsertAt(n.e, pos, [f |-> ii, p |-> b]))
          EXCEPT !.r = "EOK", !.path[lv + 1].at = IF move THEN pos ELSE @]

\* The path goes on in the new nodes when the extent belongs there.
MoveRight(s, np) ==
  [s EXCEPT !.path = SubSeq(@, 1, Len(@) - Len(np)) \o Reverse(np)]

\* The entries that were moved to a new node; an index has one of its own.
Moved(n) == Len(n.e) - IF n.depth = 0 THEN 0 ELSE 1

\* What a failed split moved to new nodes is lost with them.
SplitFailed(s, i, np) ==
  Err(FreeNodes(IF \E k \in 1..Len(np) : Moved(s.disk[np[k].b]) > 0 THEN Odd(s, "failed split")
                ELSE s, i, np), s.r)

IndexedSplit(s, i, right, np) ==
  CASE s.r # "EOK" -> SplitFailed(s, i, np)
    [] s.r = "EOK" /\ right -> MoveRight(s, np)
    [] OTHER -> s

RECURSIVE SplitFrom(_, _, _, _, _, _, _)
SplitOn(s, i, lv, at, new, ii, np) ==
  SplitFrom(s, i, lv - 1, at, new, ii, Append(np, NewLevel(s)))

SplitInto(s, i, lv, at, new, ii, np) ==
  IF s.r # "EOK" THEN SplitFailed(s, i, np)
  ELSE SplitOn(SplitOne(s, i, lv, ii, np), i, lv, at, new, ii, np)

SplitFrom(s, i, lv, at, new, ii, np) ==
  IF lv < at
  THEN IndexedSplit(ext4_ext_insert_index(s, i, at - 1, ii, Last(np).b, new.f >= ii), i, new.f >= ii, np)
  ELSE SplitInto(ext4_new_meta_blocks(s, i, ext4_ext_find_goal(s, i, new.f)), i, lv, at, new, ii, np)

ext4_ext_split_node(s, i, at, new) ==
  LET e == Leaf(s, i).e
      k == LeafAt(s, i) IN
  SplitFrom(s, i, ext_depth(s, i), at, new, IF k < Leaf(s, i).max THEN e[k + 1].f ELSE new.f, <<>>)

(***************************************************************************)
(* The root moves into a block of its own and becomes its index.           *)
(***************************************************************************)
GrowInto(s, i) ==
  LET root == s.ino[i].root IN
  IF s.r # "EOK" THEN s
  ELSE [s EXCEPT !.disk[s.b] = ExtNode(root.depth, NodeMax, root.e),
            !.ino[i].root = ExtNode(root.depth + 1, RootMax, <<[f |-> root.e[1].f, p |-> s.b]>>)]

GrowGoal(s, i) ==
  IF ext_depth(s, i) > 0 THEN s.ino[i].root.e[1].p ELSE ext4_fs_inode_to_goal_block(i)

ext4_ext_grow_indepth(s, i) == GrowInto(ext4_new_meta_blocks(s, i, GrowGoal(s, i)), i)

EXT_HAS_FREE_INDEX(s, i, lv) == Len(PathNode(s, i, lv).e) < PathNode(s, i, lv).max

\* The tree grows when every node of the path is full.  The old root is then
\* the only child of the new one, and has room.
FindGrown(s, i, l) == IF s.r # "EOK" THEN s ELSE ext4_find_extent(s, i, l)

\* The nodes below the lowest with room are split: from the leaf up to level lv.
SplitBelow(s, i, lv, new) ==
  IF s.r = "EOK" /\ lv <= ext_depth(s, i) THEN ext4_ext_split_node(s, i, lv, new) ELSE s

MakeRoom(s, i, new, free) ==
  SplitBelow(IF free = {} THEN FindGrown(ext4_ext_grow_indepth(s, i), i, new.f) ELSE Err(s, "EOK"), i,
             IF free = {} THEN 2 ELSE Max(free) + 1, new)

InsertAgain(s, i, new, combine) ==
  IF s.r # "EOK" THEN s ELSE ext4_ext_insert_leaf(s, i, new, combine)

\* Once MakeRoom succeeded the leaf has room: at most two rounds.
InsertOrSplit(s, i, new, combine) ==
  IF s.r # "SPLIT" THEN s
  ELSE InsertAgain(MakeRoom(s, i, new, {lv \in 0..ext_depth(s, i) : EXT_HAS_FREE_INDEX(s, i, lv)}),
                   i, new, combine)

ext4_ext_insert_extent(s, i, new, combine) ==
  InsertOrSplit(ext4_ext_insert_leaf(s, i, new, combine), i, new, combine)

(***************************************************************************)
(* Releasing the blocks of a file from a logical block on.                 *)
(***************************************************************************)
ext4_ext_remove_blocks(s, i, ex, from) ==
  ext4_balloc_free_blocks(s, i, ex.p + (from - ex.f), ex.f + ex.n - from)

\* The indexes above follow the first entry of node lv.  Those above a node with
\* no entry left are removed in their turn.
RECURSIVE FirstMoved(_, _, _)
FirstMoved(s, i, lv) ==
  IF lv = 0 \/ PathAt(s, lv) # 1 \/ PathNode(s, i, lv).e = <<>> THEN s
  ELSE FirstMoved(SetEntries(s, i, s.path[lv].b,
         [PathNode(s, i, lv - 1).e EXCEPT ![PathAt(s, lv - 1)].f = PathNode(s, i, lv).e[1].f]), i, lv - 1)

\* Index lv loses its current entry and the block below it.
ext4_ext_remove_idx(s, i, lv) ==
  LET e == PathNode(s, i, lv).e IN
  FirstMoved(ext4_balloc_free_blocks(SetEntries(s, i, s.path[lv + 1].b, RemoveAt(e, PathAt(s, lv))),
                                     i, e[PathAt(s, lv)].p, 1), i, lv)

NextIndex(s, lv) == [s EXCEPT !.path[lv + 1].at = @ + 1]

\* Mutant: an emptied node stays in the index above it.
empty_node_kept(s, i, lv) == IF lv = 0 THEN s ELSE NextIndex(s, lv - 1)

\* Leaving node lv: an empty one goes, and the index above steps on.
LeaveNode(s, i, lv) ==
  CASE lv = 0 -> s
    [] lv > 0 /\ PathNode(s, i, lv).e = <<>> -> ext4_ext_remove_idx(s, i, lv - 1)
    [] OTHER -> NextIndex(s, lv - 1)

\* Frees the extents from the current one on; the first may start earlier.
FreeExtents(s, i, from) ==
  LET e == Leaf(s, i).e IN
  FoldLeft(LAMBDA t, ex : ext4_ext_remove_blocks(t, i, ex, Max({ex.f, from})), s,
           SubSeq(e, LeafAt(s, i), Len(e)))

KeptExtents(e, at, from) ==
  IF e[at].f < from THEN [SubSeq(e, 1, at) EXCEPT ![at].n = from - e[at].f]
  ELSE SubSeq(e, 1, at - 1)

CorrectKept(s, i) == IF Leaf(s, i).e = <<>> THEN s ELSE ext4_ext_correct_indexes(s, i)

ext4_ext_remove_leaf(s, i, from) ==
  LeaveNode(CorrectKept(SetLeaf(FreeExtents(s, i, from), i,
                                KeptExtents(Leaf(s, i).e, LeafAt(s, i), from)), i),
            i, ext_depth(s, i))

ext4_ext_more_to_rm(s, i, lv) == PathAt(s, lv) <= Len(PathNode(s, i, lv).e)

\* The path goes down to the first entry of the current entry's node.
EnterNode(s, i, lv) ==
  [s EXCEPT !.path[lv + 2] = [b |-> PathNode(s, i, lv).e[PathAt(s, lv)].p, at |-> 1]]

RECURSIVE RemoveLoop(_, _, _, _)
RemoveLoop(s, i, lv, from) ==
  CASE lv < 0 -> s
    [] lv = ext_depth(s, i) -> RemoveLoop(ext4_ext_remove_leaf(s, i, from), i, lv - 1, from)
    [] lv >= 0 /\ lv < ext_depth(s, i) /\ ext4_ext_more_to_rm(s, i, lv) ->
         RemoveLoop(EnterNode(s, i, lv), i, lv + 1, from)
    [] OTHER -> RemoveLoop(LeaveNode(s, i, lv), i, lv - 1, from)

\* An empty tree is a leaf again.
Flatten(s, i) ==
  IF s.ino[i].root.e # <<>> THEN s ELSE [s EXCEPT !.ino[i].root = ext4_extent_tree_init]

InRange(ex, l) == ex.f <= l /\ l < ex.f + ex.n

\* Whether an extent lies past l, which the current one does not cover.
ext4_ext_next_allocated_block(s, i, l) ==
  \/ Leaf(s, i).e[LeafAt(s, i)].f > l
  \/ \E lv \in 0..ext_depth(s, i) : PathAt(s, lv) < Len(PathNode(s, i, lv).e)

RemoveFound(s, i, from) ==
  CASE LeafAt(s, i) = 0 -> s
    [] LeafAt(s, i) # 0 /\ ~InRange(Leaf(s, i).e[LeafAt(s, i)], from) ->
         IF ext4_ext_next_allocated_block(s, i, from) THEN Odd(s, "hole") ELSE s
    [] OTHER -> Flatten(RemoveLoop(s, i, ext_depth(s, i), from), i)

ext4_extent_remove_space(s, i, from) == RemoveFound(ext4_find_extent(s, i, from), i, from)

(***************************************************************************)
(* Unwritten extents: the block that is written is split off.              *)
(***************************************************************************)
\* The extent gets its length back, without the mark; the error is dropped.
RestoreLen(s, i, b, at, n) ==
  Err(SetEntries(Odd(s, "failed split"), i, b,
        [NodeAt(s, i, b).e EXCEPT ![at].n = n, ![at].u = FALSE]), "EOK")

SplitDone(s, i, b, at, n) == IF s.r = "EOK" THEN s ELSE RestoreLen(s, i, b, at, n)

ext4_ext_split_extent_at(s, i, split, u1, u2) ==
  LET e == Leaf(s, i).e
      at == LeafAt(s, i)
      d == split - e[at].f IN
  IF d = 0 THEN Err(SetLeaf(s, i, [e EXCEPT ![at].u = u2]), "EOK")
  ELSE SplitDone(ext4_ext_insert_extent(
                   SetLeaf(s, i, [e EXCEPT ![at].n = d, ![at].u = u1]), i,
                   ExtentOf(split, e[at].n - d, e[at].p + d, u2), FALSE),
                 i, Last(s.path).b, at, e[at].n)

\* One block is written: the last of the extent, its first, or one inside, for
\* which the second split is applied to the part the first one split off.
Splits(ex, l) ==
  CASE l + 1 = ex.f + ex.n -> <<[at |-> l, u1 |-> TRUE, u2 |-> FALSE]>>
    [] l + 1 # ex.f + ex.n /\ l = ex.f -> <<[at |-> l + 1, u1 |-> FALSE, u2 |-> TRUE]>>
    [] OTHER -> <<[at |-> l + 1, u1 |-> TRUE, u2 |-> TRUE], [at |-> l, u1 |-> TRUE, u2 |-> FALSE]>>

SplitAll(s, i, splits) ==
  FoldLeft(LAMBDA t, x : ext4_ext_split_extent_at(t, i, x.at, x.u1, x.u2),
           IF Len(splits) > 1 THEN Odd(s, "middle") ELSE s, splits)

ext4_ext_convert_to_initialized(s, i, l) == SplitAll(s, i, Splits(Leaf(s, i).e[LeafAt(s, i)], l))

(***************************************************************************)
(* The block of one logical block, allocated when create holds.            *)
(***************************************************************************)
ext4_ext_zero_unwritten_range(s, b) == [s EXCEPT !.disk[b] = Zeros]

ConvertAt(s, i, l, b) ==
  [ext4_ext_convert_to_initialized(ext4_ext_zero_unwritten_range(s, b), i, l) EXCEPT !.b = b]

\* Mutant: the data block is not given back when no extent can be inserted.
insert_leaks(t, i, b) == IF t.r = "EOK" THEN [t EXCEPT !.b = b] ELSE t

InsertEnd(t, i, b) ==
  IF t.r = "EOK" THEN [t EXCEPT !.b = b] ELSE Err(ext4_balloc_free_blocks(t, i, b, 1), t.r)

InsertNew(s, i, l) ==
  IF s.r # "EOK" THEN s
  ELSE InsertEnd(ext4_ext_insert_extent(s, i, ExtentOf(l, 1, s.b, FALSE), TRUE), i, s.b)

NewBlock(s, i, l) == InsertNew(ext4_new_meta_blocks(s, i, ext4_ext_find_goal(s, i, l)), i, l)

Covers(s, i, l) == LeafAt(s, i) # 0 /\ InRange(Leaf(s, i).e[LeafAt(s, i)], l)

\* The extent that covers l, and the block of l in it.
Covering(s, i, l) ==
  LET ex == Leaf(s, i).e[LeafAt(s, i)] IN
  IF Covers(s, i, l) THEN [b |-> ex.p + (l - ex.f), u |-> ex.u] ELSE [b |-> 0, u |-> FALSE]

\* Without create: 0 for a hole and for an unwritten block.
GetFound(s, c) == [s EXCEPT !.b = IF c.u THEN 0 ELSE c.b]

CreateFound(s, i, l, c) ==
  CASE c.b = 0 -> NewBlock(s, i, l)
    [] c.b # 0 /\ c.u -> ConvertAt(s, i, l, c.b)
    [] OTHER -> [s EXCEPT !.b = c.b]

ExtentGet(s, i, l) == GetFound(s, Covering(s, i, l))

ExtentCreate(s, i, l) == CreateFound(s, i, l, Covering(s, i, l))

ext4_extent_get_blocks(s, i, l, create) ==
  IF create THEN ExtentCreate(ext4_find_extent(s, i, l), i, l)
  ELSE ExtentGet(ext4_find_extent(s, i, l), i, l)
=============================================================================
