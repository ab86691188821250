-------------------------------- MODULE Dir ---------------------------------
(***************************************************************************)
(* Directories: the entries of a block and a directory of such blocks      *)
(* (ext4_dir.c), and its hash index (ext4_dir_idx.c), a tree of one or two *)
(* levels over the blocks, ordered by the hash of the names.  Lengths are  *)
(* counted in words of 4 bytes, the alignment of an entry.  A block is a   *)
(* record with the fields                                                  *)
(*   e   the entries in the order of their offsets: inode number (0 for    *)
(*       an unused entry), name, entry_len and file type                   *)
(*   x   what the block holds as a node of the index: indirect_levels,     *)
(*       limit and the index entries; they lie in the slack of the last    *)
(*       directory entry, so that writing an entry there destroys them     *)
(* and a directory is a record x with the fields                           *)
(*   idx    EXT4_INODE_FLAG_INDEX                                          *)
(*   blk    its blocks: block number i of the code is element i + 1        *)
(*   csum   the file system has metadata checksums                         *)
(*   free   the free blocks of the file system                             *)
(*   odd    the odd situations that were met                               *)
(*   r      the result of the last operation                               *)
(* The name of an unused entry is dead, and checksums always verify.  The  *)
(* hash of a name is an even number: the lowest bit of an index entry's    *)
(* hash marks names with that hash in the block before it, too.            *)
(***************************************************************************)
EXTENDS Integers, SequencesExt

CONSTANTS
  DirBlock,     \* words of a block
  Name,         \* the names of files
  NameLen,      \* words of a name
  Hash          \* hash of a name

Dots == {".", ".."}

\* sizeof(struct ext4_fake_dir_entry) and the name, aligned.
EntryLen(n) == 2 + IF n \in Dots THEN 1 ELSE NameLen[n]

\* struct ext4_dir_entry_tail, which holds the checksum of a block.
TailLen == 3

NoIndex == [levels |-> 0, limit |-> 0, en |-> <<>>]

Unused(len) == [ino |-> 0, n |-> "", len |-> len, t |-> "unknown"]

ext4_dir_init_entry_tail == [ino |-> 0, n |-> "", len |-> TailLen, t |-> "csum"]

\* The child is its inode number and its type.
ext4_dir_write_entry(len, child, n) == [ino |-> child.ino, n |-> n, len |-> len, t |-> child.t]

Room(csum) == DirBlock - IF csum THEN TailLen ELSE 0

TailOf(csum) == IF csum THEN <<ext4_dir_init_entry_tail>> ELSE <<>>

Leaf(entries, csum) == [e |-> entries \o TailOf(csum), x |-> NoIndex]

(***************************************************************************)
(* Insertion: the first unused entry that is long enough, or the slack of  *)
(* the first entry that has enough of it.                                  *)
(***************************************************************************)
Takes(e, len) ==
  IF e.ino = 0 THEN e.t # "csum" /\ e.len >= len ELSE e.len - EntryLen(e.n) >= len

Slots(b, n) == {i \in DOMAIN b.e : Takes(b.e[i], EntryLen(n))}

HasRoom(b, n) == Slots(b, n) # {}

PutAt(b, i, child, n) ==
  [x |-> NoIndex,
   e |-> IF b.e[i].ino = 0
         THEN [b.e EXCEPT ![i] = ext4_dir_write_entry(b.e[i].len, child, n)]
         ELSE InsertAt([b.e EXCEPT ![i].len = EntryLen(b.e[i].n)], i + 1,
                       ext4_dir_write_entry(b.e[i].len - EntryLen(b.e[i].n), child, n))]

ext4_dir_try_insert_entry(b, child, n) == PutAt(b, Min(Slots(b, n)), child, n)

(***************************************************************************)
(* Search and removal.  The length of a removed entry goes to its          *)
(* predecessor, which the first entry of a block does not have.            *)
(***************************************************************************)
Matches(b, n) == {i \in DOMAIN b.e : b.e[i].ino # 0 /\ b.e[i].n = n}

ext4_dir_find_in_block(b, n) == IF Matches(b, n) = {} THEN 0 ELSE Min(Matches(b, n))

\* Mutant: the length of a removed entry is lost.
removed_unmerged(b, i) ==
  [b EXCEPT !.e = IF i = 1 THEN [@ EXCEPT ![1] = Unused(@.len)] ELSE RemoveAt(@, i)]

RemoveAndMerge(b, i) ==
  [b EXCEPT !.e = IF i = 1 THEN [@ EXCEPT ![1] = Unused(@.len)]
                  ELSE RemoveAt([@ EXCEPT ![i - 1].len = @ + b.e[i].len], i)]

-----------------------------------------------------------------------------
(***************************************************************************)
(* The index.                                                              *)
(***************************************************************************)
Odd(x, what) == [x EXCEPT !.odd = @ \cup {what}]

HashOf(n) == IF n \in Dots THEN 0 ELSE Hash[n]

(***************************************************************************)
(* The limits of the nodes: after both dot entries (3 words each) and the  *)
(* root info (2 words), or after the fake entry; an index entry and the    *)
(* checksum of a node take 2 words each.                                   *)
(***************************************************************************)
Limit(words, csum) == (words - IF csum THEN 2 ELSE 0) \div 2

RootLimit(csum) == Limit(DirBlock - 8, csum)

NodeLimit(csum) == Limit(DirBlock - 2, csum)

IndexEntry(h, b) == [h |-> h, b |-> b]

\* Append one block to the directory: the file's other operations are in
\* module Inode.
AppendBlock(x, b) ==
  IF x.free = 0 THEN [x EXCEPT !.r = "ENOSPC"]
  ELSE [x EXCEPT !.blk = Append(@, b), !.free = @ - 1, !.r = "EOK"]

(***************************************************************************)
(* A new index: the root is the first block, its only entry is the second. *)
(***************************************************************************)
NewRoot(x, self, parent) ==
  [e |-> <<ext4_dir_write_entry(3, self, "."), ext4_dir_write_entry(DirBlock - 3, parent, "..")>>,
   x |-> [levels |-> 0, limit |-> RootLimit(x.csum), en |-> <<IndexEntry(0, 2)>>]]

PutBlock(x, i, b) ==
  CASE x.r # "EOK" -> x
    [] x.r = "EOK" /\ i \in DOMAIN x.blk -> [x EXCEPT !.blk[i] = b]
    [] OTHER -> AppendBlock(x, b)

ext4_dir_dx_init(x, self, parent) ==
  PutBlock(PutBlock([x EXCEPT !.r = "EOK"], 1, NewRoot(x, self, parent)),
           2, Leaf(<<Unused(Room(x.csum))>>, x.csum))

ext4_dir_dx_reset_parent_inode(x, parent) == [x EXCEPT !.blk[1].e[2].ino = parent, !.r = "EOK"]

(***************************************************************************)
(* The path to the block of a hash: the position in the root, the block    *)
(* with the lowest index node (1 for the root) and the position in it.     *)
(***************************************************************************)
ext4_dir_hinfo_init(x) == x.blk[1].x.levels <= 1 /\ x.blk[1].x.limit = RootLimit(x.csum)

BinarySearch(en, h) ==
  LET at[p \in 1..Len(en) + 1, q \in 0..Len(en)] ==
        IF p > q THEN p - 1
        ELSE IF en[p + (q - p) \div 2].h > h THEN at[p, p + (q - p) \div 2 - 1]
             ELSE at[p + (q - p) \div 2 + 1, q]
  IN at[2, Len(en)]

\* No path: at tells whether hinfo_init, the root or a node was refused.
BadPath(at) == [bad |-> TRUE, at |-> at, root |-> 0, node |-> 1, pos |-> 0]

LeafPath(i, b, j) == [bad |-> FALSE, at |-> "", root |-> i, node |-> b, pos |-> j]

BadCount(node) == Len(node.en) = 0 \/ Len(node.en) > node.limit

NodePath(x, i, b, h) ==
  IF x.blk[b].x.limit # NodeLimit(x.csum) \/ BadCount(x.blk[b].x) THEN BadPath("node")
  ELSE LeafPath(i, b, BinarySearch(x.blk[b].x.en, h))

RootPath(x, i, h) ==
  IF x.blk[1].x.levels = 0 THEN LeafPath(i, 1, i) ELSE NodePath(x, i, x.blk[1].x.en[i].b, h)

ext4_dir_dx_get_leaf(x, h) ==
  CASE ~ext4_dir_hinfo_init(x) -> BadPath("init")
    [] ext4_dir_hinfo_init(x) /\ BadCount(x.blk[1].x) -> BadPath("root")
    [] OTHER -> RootPath(x, BinarySearch(x.blk[1].x.en, h), h)

(***************************************************************************)
(* Search.  Step lists the leaves in the order of the index, each with the *)
(* hash that says whether the search continues to it from the one before:  *)
(* the first of a node takes the hash of the node's entry in the root.     *)
(***************************************************************************)
NodeSteps(x, at) ==
  [j \in DOMAIN x.blk[at.b].x.en |->
     IndexEntry(IF j = 1 THEN at.h ELSE x.blk[at.b].x.en[j].h, x.blk[at.b].x.en[j].b)]

Steps(x) ==
  IF x.blk[1].x.levels = 0 THEN x.blk[1].x.en
  ELSE FlattenSeq([i \in DOMAIN x.blk[1].x.en |-> NodeSteps(x, x.blk[1].x.en[i])])

ext4_dir_dx_next_block(steps, i, h) == i < Len(steps) /\ steps[i + 1].h - (steps[i + 1].h % 2) = h

Searched(steps, from, h) ==
  {i \in from..Len(steps) : \A j \in from..i - 1 : ext4_dir_dx_next_block(steps, j, h)}

NotFound == [b |-> 0, i |-> 0]

FirstHit(x, n, hits) ==
  IF hits = {} THEN NotFound
  ELSE LET b == Steps(x)[Min(hits)].b IN [b |-> b, i |-> ext4_dir_find_in_block(x.blk[b], n)]

FoundIn(x, n, steps, leaf) ==
  FirstHit(x, n, {i \in Searched(steps, Min({j \in DOMAIN steps : steps[j].b = leaf}), HashOf(n)) :
                    ext4_dir_find_in_block(x.blk[steps[i].b], n) # 0})

ext4_dir_dx_find_entry(x, n, path) == FoundIn(x, n, Steps(x), x.blk[path.node].x.en[path.pos].b)

(***************************************************************************)
(* qsort of the kernel's C library.  The pivot is the element at a place   *)
(* of the array, which the swaps may change.                               *)
(***************************************************************************)
Swap(q, i, j) == [q EXCEPT ![i] = q[j], ![j] = q[i]]

RECURSIVE Partition(_, _, _, _)
Partition(q, i, j, p) ==
  IF i > j THEN [q |-> q, i |-> i, j |-> j]
  ELSE LET a == Min({l \in i..Len(q) : q[l].h >= q[p].h})
           b == Max({l \in 1..j : q[l].h <= q[p].h})
       IN IF a > b THEN [q |-> q, i |-> a, j |-> b]
          ELSE Partition(Swap(q, a, b), a + 1, IF b > 1 THEN b - 1 ELSE b, p)

RECURSIVE qsort_inner(_, _, _)
qsort_inner(q, left, right) ==
  IF left >= right THEN q
  ELSE LET d == Partition(q, left, right, (left + right) \div 2)
       IN qsort_inner(qsort_inner(d.q, left, d.j), d.i, right)

qsort(q) == qsort_inner(q, 1, Len(q))

(***************************************************************************)
(* Splitting a leaf: its entries by hash, those up to half a block stay    *)
(* and the others move to a new block.                                     *)
(***************************************************************************)
ext4_dir_dx_insert_entry(x, node, pos, h, b) ==
  [x EXCEPT !.blk[node].x.en = InsertAt(@, pos + 1, IndexEntry(h, b))]

SortEntry(e) == [h |-> HashOf(e.n), ino |-> e.ino, n |-> e.n, t |-> e.t, len |-> EntryLen(e.n)]

SortEntries(b) == [i \in DOMAIN SelectSeq(b.e, LAMBDA e : e.ino # 0) |->
                     SortEntry(SelectSeq(b.e, LAMBDA e : e.ino # 0)[i])]

HashesAscend(q) == \A i \in 1..Len(q) - 1 : q[i].h <= q[i + 1].h

TotalLen(q) == FoldLeft(LAMBDA a, e : a + e.len, 0, q)

\* The number of entries that stay.
Middle(q) == LET over == {i \in DOMAIN q : TotalLen(SubSeq(q, 1, i)) > DirBlock \div 2}
             IN IF over = {} THEN 0 ELSE Min(over) - 1

\* The last entry takes the rest of the block.
Packed(q, csum) ==
  Leaf([i \in DOMAIN q |->
          ext4_dir_write_entry(IF i < Len(q) THEN q[i].len
                               ELSE Room(csum) - TotalLen(SubSeq(q, 1, i - 1)), q[i], q[i].n)], csum)

\* Mutant: the collision mark is left out.
split_unmarked(q, m) == q[m + 1].h

SplitHash(q, m) == q[m + 1].h + IF q[m + 1].h = q[m].h THEN 1 ELSE 0

SplitAt(x, path, leaf, q, m) ==
  IF x.r # "EOK" THEN x
  ELSE ext4_dir_dx_insert_entry([IF HashesAscend(q) THEN x ELSE Odd(x, "missorted") EXCEPT
                                   !.blk[leaf] = Packed(SubSeq(q, 1, m), x.csum)],
                                path.node, path.pos, SplitHash(q, m), Len(x.blk))

SplitSorted(x, path, leaf, q) ==
  IF Middle(q) = 0 THEN Odd([x EXCEPT !.r = "undefined"], "half empty split")
  ELSE SplitAt(AppendBlock(x, Packed(SubSeq(q, Middle(q) + 1, Len(q)), x.csum)), path, leaf, q, Middle(q))

ext4_dir_dx_split_data(x, path, leaf) == SplitSorted(x, path, leaf, qsort(SortEntries(x.blk[leaf])))

(***************************************************************************)
(* Splitting a full index node before it is needed.  The root moves to a   *)
(* node of its own; a node gives its upper half to a new one.  The limit   *)
(* of a new node leaves no room for a checksum.                            *)
(***************************************************************************)
Node(en) == [e |-> <<Unused(DirBlock)>>,
             x |-> [levels |-> 0, limit |-> NodeLimit(FALSE), en |-> en]]

Grown(x, path) == [x |-> x, path |-> path]

RootSplit(x, path) ==
  IF x.r # "EOK" THEN Grown(x, path)
  ELSE Grown([x EXCEPT !.blk[1].x.en = <<IndexEntry(0, Len(x.blk))>>, !.blk[1].x.levels = 1],
             [path EXCEPT !.root = 1, !.node = Len(x.blk)])

PathAfterSplit(path, left, b) ==
  IF path.pos > left THEN [path EXCEPT !.node = b, !.pos = @ - left] ELSE path

NodeSplit(x, path, en, left) ==
  IF x.r # "EOK" THEN Grown(x, path)
  ELSE Grown(ext4_dir_dx_insert_entry([x EXCEPT !.blk[path.node].x.en = SubSeq(en, 1, left)],
                                      1, path.root, en[left + 1].h, Len(x.blk)),
             PathAfterSplit(path, left, Len(x.blk)))

UpperHalf(en, left) == [i \in 1..Len(en) - left |->
                          IF i = 1 THEN IndexEntry(0, en[left + 1].b) ELSE en[left + i]]

SplitNode(x, path, en) ==
  CASE Len(en) # x.blk[path.node].x.limit -> Grown([x EXCEPT !.r = "EOK"], path)
    [] Len(en) = x.blk[path.node].x.limit /\ path.node = 1 -> RootSplit(AppendBlock(x, Node(en)), path)
    [] OTHER -> IF Len(x.blk[1].x.en) = x.blk[1].x.limit THEN Grown([x EXCEPT !.r = "ENOSPC"], path)
                ELSE NodeSplit(AppendBlock(x, Node(UpperHalf(en, Len(en) \div 2))), path, en, Len(en) \div 2)

ext4_dir_dx_split_index(x, path) == SplitNode(x, path, x.blk[path.node].x.en)

(***************************************************************************)
(* Adding an entry.  After a split the result of the insertion is lost.    *)
(***************************************************************************)
InsertIn(x, b, child, n) ==
  IF HasRoom(x.blk[b], n) THEN [x EXCEPT !.blk[b] = ext4_dir_try_insert_entry(@, child, n), !.r = "EOK"]
  ELSE Odd(x, "lost entry")

InsertAfterSplit(x, path, leaf, child, n) ==
  IF x.r # "EOK" THEN x
  ELSE InsertIn(x, IF HashOf(n) >= x.blk[path.node].x.en[path.pos + 1].h THEN Len(x.blk) ELSE leaf,
                child, n)

\* When the index cannot be split, a block that was never read is put.
AddToLeaf(g, leaf, child, n) ==
  CASE g.x.r # "EOK" -> Odd(g.x, "unread block")
    [] g.x.r = "EOK" /\ HasRoom(g.x.blk[leaf], n) -> InsertIn(g.x, leaf, child, n)
    [] OTHER -> InsertAfterSplit(ext4_dir_dx_split_data(g.x, g.path, leaf), g.path, leaf, child, n)

ext4_dir_dx_add_entry(x, child, n, path) ==
  AddToLeaf(ext4_dir_dx_split_index(x, path), x.blk[path.node].x.en[path.pos].b, child, n)

-----------------------------------------------------------------------------
(***************************************************************************)
(* A directory with or without an index.  An index that the library finds  *)
(* broken is given up: its flag is cleared, and the blocks are searched    *)
(* one by one from then on.                                                *)
(***************************************************************************)
GiveUpIndex(x) == [x EXCEPT !.idx = FALSE]

(***************************************************************************)
(* ext4_dir_find_entry: the directory afterwards, the block and the place  *)
(* of the entry in it.                                                     *)
(***************************************************************************)
Search(x, at) == [x |-> [x EXCEPT !.r = IF at.b = 0 THEN "ENOENT" ELSE "EOK"], b |-> at.b, i |-> at.i]

LinearHit(x, n, hits) ==
  IF hits = {} THEN NotFound ELSE [b |-> Min(hits), i |-> ext4_dir_find_in_block(x.blk[Min(hits)], n)]

LinearFind(x, n) ==
  Search(x, LinearHit(x, n, {b \in DOMAIN x.blk : ext4_dir_find_in_block(x.blk[b], n) # 0}))

\* The block of a refused node stands where the caller has the root: it is put for
\* the root, which stays referenced, and a second time if its limit was wrong.
FindByPath(x, n, path) ==
  IF path.bad
  THEN LinearFind(GiveUpIndex(IF path.at = "node" THEN Odd(x, "refused node") ELSE x), n)
  ELSE Search(x, ext4_dir_dx_find_entry(x, n, path))

ext4_dir_find_entry(x, n) ==
  IF x.idx THEN FindByPath(x, n, ext4_dir_dx_get_leaf(x, HashOf(n))) ELSE LinearFind(x, n)

\* The entry that was found.
Result(f) == f.x.blk[f.b].e[f.i]

(***************************************************************************)
(* Adding: no check for an entry of the same name.                         *)
(***************************************************************************)
LinearInsert(x, child, n, roomy) ==
  IF roomy = {}
  THEN AppendBlock(x, Leaf(<<ext4_dir_write_entry(Room(x.csum), child, n)>>, x.csum))
  ELSE InsertIn(x, Min(roomy), child, n)

LinearAdd(x, child, n) == LinearInsert(x, child, n, {b \in DOMAIN x.blk : HasRoom(x.blk[b], n)})

\* ext4_dir_dx_add_entry puts the blocks of the path up to dx_blk, which get_leaf did
\* not set.
AddByPath(x, child, n, path) ==
  IF path.bad
  THEN LinearAdd(GiveUpIndex(IF path.at = "init" THEN x ELSE Odd(x, "refused node")), child, n)
  ELSE ext4_dir_dx_add_entry(x, child, n, path)

ext4_dir_add_entry(x, child, n) ==
  IF x.idx THEN AddByPath(x, child, n, ext4_dir_dx_get_leaf(x, HashOf(n))) ELSE LinearAdd(x, child, n)

RemoveFound(f) ==
  IF f.b = 0 THEN f.x ELSE [f.x EXCEPT !.blk[f.b] = RemoveAndMerge(@, f.i)]

ext4_dir_remove_entry(x, n) == RemoveFound(ext4_dir_find_entry(x, n))

(***************************************************************************)
(* The iterator: a position in the entries of all blocks.  The next one    *)
(* skips unused entries, the first position is not checked.                *)
(***************************************************************************)
AllEntries(x) == FlattenSeq([b \in DOMAIN x.blk |-> x.blk[b].e])

\* Mutant: an unused entry ends the directory.
unused_ends(es, i) == IF i < Len(es) /\ es[i + 1].ino # 0 THEN i + 1 ELSE Len(es) + 1

ext4_dir_iterator_next(es, i) == Min({j \in i + 1..Len(es) : es[j].ino # 0} \cup {Len(es) + 1})

=============================================================================
