-------------------------------- MODULE Ext4 --------------------------------
(***************************************************************************)
(* The operations of ext4.c on the names of a mounted file system: the     *)
(* walk along a path, links, directories, renaming and removal.  They work *)
(* on a record s with the fields                                           *)
(*   ino     the inodes; 1 is the root directory                           *)
(*   free    the free blocks of the file system                            *)
(*   csum, dx   metadata checksums and directory index, features of it     *)
(*   ro      mounted read-only                                             *)
(*   locks   the mount point has locks (ext4_mount_setup_locks); lock      *)
(*           counts how often the lock is held                             *)
(*   wb      cache_write_back of the block device                          *)
(*   cur, up, goal   where a walk is: inode, its parent's, the name there  *)
(*   r, out  the result of the last call and what it returned              *)
(*   h       the open files (module Ext4File)                              *)
(*   odd     the odd situations that were met                              *)
(* A path is the sequence of its names after the mount point.  The file    *)
(* system has EXT4_FINCOM_FILETYPE.  Without a journal, the transaction    *)
(* calls do nothing.                                                       *)
(***************************************************************************)
EXTENDS Dir, Xattr

CONSTANTS
  MaxIno,       \* inodes of the file system
  FileBlock,    \* bytes of a block of a file
  LinkMax       \* EXT4_LINK_MAX

Ino == 1..MaxIno

Root == 1

NoInode == [t |-> "free", links |-> 0, idx |-> FALSE, blk |-> <<>>, fb |-> <<>>, size |-> 0,
            txt |-> <<>>, mode |-> 0, own |-> 0, time |-> [a |-> 0, m |-> 0, c |-> 0], dev |-> 0,
            body |-> NoArea, acl |-> NoArea]

Fail(s, err) == [s EXCEPT !.r = err]

(***************************************************************************)
(* The lock of the mount point, which is not recursive, and the mode that  *)
(* delays the writes of the block cache.                                   *)
(***************************************************************************)
EXT4_MP_LOCK(s) ==
  IF ~s.locks THEN s ELSE [IF s.lock > 0 THEN Odd(s, "locked twice") ELSE s EXCEPT !.lock = @ + 1]

EXT4_MP_UNLOCK(s) == IF s.locks THEN [s EXCEPT !.lock = @ - 1] ELSE s

WriteBackOn(s) == [s EXCEPT !.wb = @ + 1]

WriteBackOff(s) == [s EXCEPT !.wb = Max({@ - 1, 0})]

(***************************************************************************)
(* Inodes.                                                                 *)
(***************************************************************************)
IsDir(s, i) == s.ino[i].t = "dir"

FileSize(s, i) == IF IsDir(s, i) THEN Len(s.ino[i].blk) * DirBlock ELSE s.ino[i].size

Child(s, i) == [ino |-> i, t |-> s.ino[i].t]

DirOf(s, i) ==
  [idx |-> s.ino[i].idx, blk |-> s.ino[i].blk, csum |-> s.csum, free |-> s.free, odd |-> s.odd, r |-> s.r]

PutDir(s, i, x) ==
  [s EXCEPT !.ino[i].idx = x.idx, !.ino[i].blk = x.blk, !.free = x.free, !.odd = x.odd, !.r = x.r]

FreeInodes(s) == {i \in Ino : s.ino[i].t = "free"}

ext4_fs_alloc_inode(s, i, t) ==
  [s EXCEPT !.ino[i] = [NoInode EXCEPT !.t = t, !.mode = IF t \in {"dir", "lnk"} THEN 511 ELSE 438],
            !.r = "EOK"]

\* The blocks of the contents must have been released before.
ext4_fs_free_inode(s, i) ==
  [s EXCEPT !.ino[i] = NoInode, !.free = @ + IF s.ino[i].acl.magic THEN 1 ELSE 0]

ext4_fs_inode_links_count_inc(s, i) ==
  LET links == (s.ino[i].links + 1) % 65536
      full  == s.dx /\ s.ino[i].idx /\ links > 1 /\ (links >= LinkMax \/ links = 2)
  IN [s EXCEPT !.ino[i].links = IF full THEN 1 ELSE links]

ext4_fs_inode_links_count_dec(s, i) ==
  [s EXCEPT !.ino[i].links = IF @ > IF IsDir(s, i) THEN 2 ELSE 0 THEN @ - 1 ELSE @]

BlocksFor(size) == (size + FileBlock - 1) \div FileBlock

\* The first elements of a sequence.
FirstOf(q, size) == SubSeq(q, 1, Min({Len(q), size}))

\* The steps of CONFIG_MAX_TRUNCATE_SIZE differ only in their transactions.
ext4_trunc_inode(s, i, size) ==
  IF s.ino[i].size <= size THEN s
  ELSE [s EXCEPT !.ino[i].size = size, !.ino[i].txt = FirstOf(@, size),
                 !.ino[i].fb = FirstOf(@, BlocksFor(size)),
                 !.free = @ + Len(s.ino[i].fb) - Min({Len(s.ino[i].fb), BlocksFor(size)})]

\* The root of the index is written afresh before the blocks are released.
DropBlocks(s, i) == IF s.r # "EOK" THEN s ELSE [s EXCEPT !.free = @ + Len(s.ino[i].blk), !.ino[i].blk = <<>>]

ext4_trunc_dir(s, p, i) ==
  DropBlocks(IF s.dx THEN PutDir(s, i, ext4_dir_dx_init(DirOf(s, i), Child(s, i), Child(s, p))) ELSE s, i)

(***************************************************************************)
(* ext4_has_children: an entry in use other than the dots.                 *)
(***************************************************************************)
ext4_is_dots(n) == n \in Dots

ext4_has_children(s, i) ==
  IsDir(s, i) /\ \E b \in DOMAIN s.ino[i].blk : \E e \in Range(s.ino[i].blk[b].e) :
                   e.ino # 0 /\ ~ext4_is_dots(e.n)

(***************************************************************************)
(* ext4_link: an entry of the directory p for the inode c.  A new          *)
(* directory is given its dots, a renamed one a new parent.                *)
(***************************************************************************)
AddDot(x, d) == IF x.r # "EOK" THEN x ELSE ext4_dir_add_entry(x, d.child, d.n)

WithDots(s, p, c) ==
  IF s.dx THEN [ext4_dir_dx_init(DirOf(s, c), Child(s, c), Child(s, p)) EXCEPT !.idx = TRUE]
  ELSE FoldLeft(AddDot, DirOf(s, c), <<[child |-> Child(s, c), n |-> "."],
                                       [child |-> Child(s, p), n |-> ".."]>>)

\* Without the index the entry is taken back when the dots cannot be
\* written; strlen(n) is its name only at the end of a path.
Undo(s, p, n, goal) ==
  IF s.dx \/ ~goal THEN Odd(s, "dangling entry")
  ELSE [PutDir(s, p, ext4_dir_remove_entry(DirOf(s, p), n)) EXCEPT !.r = s.r]

DotsWritten(s, p, c, n, goal) ==
  IF s.r # "EOK" THEN Undo(s, p, n, goal)
  ELSE ext4_fs_inode_links_count_inc([s EXCEPT !.ino[c].links = 2], p)

Reparent(x, p, at) ==
  IF at.b = 0 THEN [x EXCEPT !.r = "EIO"] ELSE [x EXCEPT !.blk[at.b].e[at.i].ino = p, !.r = "EOK"]

\* Mutant: a renamed directory keeps its parent.
parent_kept(x, p) == x

NewParent(x, p) ==
  IF x.idx THEN ext4_dir_dx_reset_parent_inode(x, p) ELSE Reparent(x, p, LinearFind(x, ".."))

Counted(s, i) == IF s.r = "EOK" THEN ext4_fs_inode_links_count_inc(s, i) ELSE s

Linked(s, p, c, n, rename, goal) ==
  CASE s.r # "EOK" -> s
    [] s.r = "EOK" /\ ~IsDir(s, c) -> IF rename THEN s ELSE Counted(s, c)
    [] OTHER -> IF rename THEN Counted(PutDir(s, c, NewParent(DirOf(s, c), p)), p)
                ELSE DotsWritten(PutDir(s, c, WithDots(s, p, c)), p, c, n, goal)

ext4_link(s, p, c, n, rename, goal) ==
  Linked(PutDir(s, p, ext4_dir_add_entry(DirOf(s, p), Child(s, c), n)), p, c, n, rename, goal)

(***************************************************************************)
(* ext4_unlink: an empty directory or another file loses its entry.        *)
(***************************************************************************)
Uncounted(s, p, c) ==
  IF s.r # "EOK" THEN s
  ELSE ext4_fs_inode_links_count_dec(IF IsDir(s, c) THEN ext4_fs_inode_links_count_dec(s, p) ELSE s, c)

ext4_unlink(s, p, c, n) ==
  IF ext4_has_children(s, c) THEN Fail(s, "ENOTEMPTY")
  ELSE Uncounted(PutDir(s, p, ext4_dir_remove_entry(DirOf(s, p), n)), p, c)

(***************************************************************************)
(* ext4_generic_open2: the walk along a path.  A missing name is created   *)
(* when O_CREAT is given, as a directory before the end of the path.       *)
(***************************************************************************)
Components(path) == [i \in DOMAIN path |-> [n |-> path[i], goal |-> i = Len(path)]]

Start(s) == [s EXCEPT !.cur = Root, !.up = Root, !.r = "EOK"]

Enter(s, e, c, t) ==
  IF \/ e.t # "dir" /\ ~c.goal
     \/ t \notin {"any", e.t} /\ c.goal
  THEN Fail(s, "ENOENT")
  ELSE [s EXCEPT !.up = s.cur, !.cur = e.ino, !.goal = c.n, !.r = "EOK"]

\* The name that was linked is looked up like one that was there.
NewInode(s, i, c, t) == IF s.r # "EOK" THEN ext4_fs_free_inode(s, i) ELSE s

LinkNew(s, i, c, t) ==
  NewInode(ext4_link(ext4_fs_alloc_inode(s, i, t), s.cur, i, c.n, FALSE, c.goal), i, c, t)

CreateMissing(s, c, t) ==
  CASE s.r # "ENOENT" -> s
    [] s.r = "ENOENT" /\ FreeInodes(s) = {} -> Fail(s, "ENOSPC")
    [] OTHER -> LinkNew(s, Min(FreeInodes(s)), c, IF c.goal THEN t ELSE "dir")

Find(s, n) == ext4_dir_find_entry(DirOf(s, s.cur), n)

Follow(s, f, c, t) ==
  IF f.b = 0 THEN PutDir(s, s.cur, f.x) ELSE Enter(PutDir(s, s.cur, f.x), Result(f), c, t)

Step(s, c, t) == IF s.r # "EOK" THEN s ELSE Follow(s, Find(s, c.n), c, t)

\* The walk goes on from the directory with the new name in it.
StepInto(s, c, t) ==
  IF s.r # "EOK" THEN s ELSE CreateMissing(PutDir(s, s.cur, Find(s, c.n).x), c, t)

RootOpened(s, t) == IF t \in {"dir", "any"} THEN s ELSE Fail(s, "ENOENT")

\* With O_RDONLY.
Lookup(s, path, t) ==
  IF path = <<>> THEN RootOpened(Start(s), t)
  ELSE FoldLeft(LAMBDA w, c : Step(w, c, t), Start(s), Components(path))

CreateWalk(s, path, t) ==
  IF path = <<>> THEN RootOpened(Start(s), t)
  ELSE FoldLeft(LAMBDA w, c : Step(StepInto(w, c, t), c, t), Start(s), Components(path))

Truncated(s, fl) ==
  IF s.r = "EOK" /\ "trunc" \in fl /\ s.ino[s.cur].t = "reg" THEN ext4_trunc_inode(s, s.cur, 0) ELSE s

Reached(s, path, fl, t) ==
  IF "creat" \in fl THEN IF s.ro THEN Fail(s, "EROFS") ELSE CreateWalk(s, path, t)
  ELSE Lookup(s, path, t)

ext4_generic_open2(s, path, fl, t) == Truncated(Reached(s, path, fl, t), fl)

(***************************************************************************)
(* Hard links and renaming.                                                *)
(***************************************************************************)
Descend(s, f, c) ==
  CASE c.goal -> Fail(s, "EEXIST")
    [] ~c.goal /\ Result(f).t # "dir" -> Fail(s, "ENOENT")
    [] OTHER -> [s EXCEPT !.cur = Result(f).ino]

LinkAt(s, child, c, rename) ==
  ext4_link(s, s.cur, child, c.n, rename, TRUE)

HardlinkStep(s, f, child, c, rename) ==
  CASE f.b # 0 -> Descend(PutDir(s, s.cur, f.x), f, c)
    [] f.b = 0 /\ c.goal -> LinkAt(PutDir(s, s.cur, f.x), child, c, rename)
    [] OTHER -> PutDir(s, s.cur, f.x)

\* A directory that moves below itself is lost with all that it contains.
Below(s, child) == IF s.cur = child THEN Odd(s, "moved below itself") ELSE s

HardlinkAt(s, child, c, rename) == HardlinkStep(s, Find(s, c.n), child, c, rename)

ext4_create_hardlink(s, path, child, rename) ==
  IF path = <<>> THEN Fail(s, "EINVAL")
  ELSE FoldLeft(LAMBDA w, c : IF w.r # "EOK" THEN w ELSE HardlinkAt(Below(w, child), child, c, rename),
                Start(s), Components(path))

LinkTo(s, path) ==
  CASE s.r # "EOK" -> s
    [] s.r = "EOK" /\ IsDir(s, s.cur) -> Fail(s, "EINVAL")
    [] OTHER -> ext4_create_hardlink(s, path, s.cur, FALSE)

ReadOnly(s) == Fail(s, "EROFS")

ext4_flink(s, path, hardlink_path) ==
  IF s.ro THEN ReadOnly(s)
  ELSE EXT4_MP_UNLOCK(LinkTo(Lookup(EXT4_MP_LOCK(s), path, "any"), hardlink_path))

Unparented(s, p, c) == IF s.r = "EOK" /\ IsDir(s, c) THEN ext4_fs_inode_links_count_dec(s, p) ELSE s

ext4_remove_orig_reference(s, p, c, n) ==
  Unparented(PutDir(s, p, ext4_dir_remove_entry(DirOf(s, p), n)), p, c)

Moved(s, p, c, n) == IF s.r # "EOK" THEN s ELSE ext4_remove_orig_reference(s, p, c, n)

MoveTo(s, path) ==
  IF s.r # "EOK" THEN s
  ELSE Moved(ext4_create_hardlink(s, path, s.cur, TRUE), s.up, s.cur, s.goal)

ext4_frename(s, path, new_path) ==
  IF s.ro THEN ReadOnly(s)
  ELSE EXT4_MP_UNLOCK(MoveTo(Lookup(EXT4_MP_LOCK(s), path, "any"), new_path))

(***************************************************************************)
(* Removal.  A directory is left alone by ext4_fremove, which says EOK.    *)
(* An inode is freed with its last link whether it is open or not.         *)
(***************************************************************************)
Freed(s, i) ==
  ext4_fs_free_inode(IF \E j \in DOMAIN s.h : s.h[j].ino = i THEN Odd(s, "freed while open") ELSE s, i)

FreedUnlinked(s, i) == IF s.r = "EOK" /\ s.ino[i].links = 0 THEN Freed(s, i) ELSE s

\* Mutant: the writes stay delayed after the truncation.
left_delayed(s, i) == IF s.ino[i].links = 1 THEN ext4_trunc_inode(WriteBackOn(s), i, 0) ELSE s

Emptied(s, i) ==
  IF s.ino[i].links = 1 THEN WriteBackOff(ext4_trunc_inode(WriteBackOn(s), i, 0)) ELSE s

RemoveReached(s, p, c, n) ==
  IF s.r # "EOK" \/ IsDir(s, c) THEN s ELSE FreedUnlinked(ext4_unlink(Emptied(s, c), p, c, n), c)

RemoveAtGoal(s) == RemoveReached(s, s.up, s.cur, s.goal)

ext4_fremove(s, path) ==
  IF s.ro THEN ReadOnly(s) ELSE EXT4_MP_UNLOCK(RemoveAtGoal(Lookup(EXT4_MP_LOCK(s), path, "any")))

(***************************************************************************)
(* ext4_dir_rm: a directory with all that is below it, from the bottom up. *)
(* d is the state of the loop: the file system, inode_current, inode_up,   *)
(* the position of the iterator and the depth.  An entry that is removed   *)
(* leaves the position to the next one.                                    *)
(***************************************************************************)
RmTruncated(s, act, child) ==
  IF IsDir(s, child) THEN ext4_trunc_dir(s, act, child)
  ELSE ext4_trunc_inode(IF s.ino[child].links > 1 THEN Odd(s, "linked child") ELSE s, child, 0)

RmFreed(s, child) == IF s.r = "EOK" THEN Freed(s, child) ELSE s

RmUnlinked(s, act, child, n) == IF s.r = "EOK" THEN ext4_unlink(s, act, child, n) ELSE s

RmChild(d, e) ==
  [d EXCEPT !.s = RmFreed(RmUnlinked(RmTruncated(d.s, d.cur, e.ino), d.cur, e.ino, e.n), e.ino)]

Onward(d, i) == [d EXCEPT !.pos = ext4_dir_iterator_next(AllEntries(DirOf(d.s, d.cur)), i)]

RmEntry(d, e) ==
  CASE e.n = ".." -> Onward([d EXCEPT !.up = e.ino], d.pos)
    [] e.n = "." -> Onward(d, d.pos)
    [] ~ext4_is_dots(e.n) /\ ext4_has_children(d.s, e.ino) ->
         [d EXCEPT !.up = d.cur, !.cur = e.ino, !.depth = @ + 1, !.pos = 1]
    [] OTHER -> Onward(RmChild(d, e), d.pos - 1)

DirEnd(d) == [d EXCEPT !.depth = @ - 1, !.cur = IF d.depth > 1 THEN d.up ELSE @, !.pos = 1]

RmStep(d, es) == IF d.pos > Len(es) THEN DirEnd(d) ELSE RmEntry(d, es[d.pos])

RECURSIVE RmLoop(_)
RmLoop(d) ==
  IF d.s.r # "EOK" \/ d.depth = 0 THEN d ELSE RmLoop(RmStep(d, AllEntries(DirOf(d.s, d.cur))))

LastTruncated(s, p, c) ==
  CASE s.r # "EOK" -> s
    [] s.r = "EOK" /\ s.ino[c].links # 2 -> Odd(s, "directory kept")
    [] OTHER -> RmFreed(ext4_trunc_dir([s EXCEPT !.ino[c].links = 0], p, c), c)

LastUnlink(d, n) ==
  IF d.s.r # "EOK" THEN d.s ELSE LastTruncated(ext4_unlink(d.s, d.up, d.cur, n), d.up, d.cur)

RmReached(s) ==
  IF s.r # "EOK" THEN s
  ELSE WriteBackOff(LastUnlink(RmLoop([s |-> WriteBackOn(s), cur |-> s.cur, up |-> s.up, pos |-> 1, depth |-> 1]),
                               s.goal))

ext4_dir_rm(s, path) ==
  IF s.ro THEN ReadOnly(s) ELSE EXT4_MP_UNLOCK(RmReached(Lookup(EXT4_MP_LOCK(s), path, "dir")))

\* Making a directory makes those above it, and one that exists is EOK.
MakeMissing(s, path) ==
  IF s.r = "EOK" THEN s ELSE ext4_generic_open2(s, path, {"wronly", "creat", "trunc"}, "dir")

ext4_dir_mk(s, path) ==
  IF s.ro THEN ReadOnly(s) ELSE EXT4_MP_UNLOCK(MakeMissing(Lookup(EXT4_MP_LOCK(s), path, "dir"), path))
=============================================================================
