------------------------------- MODULE Lwext4 -------------------------------
(***************************************************************************)
(* How the kernel uses the library: the operations of lwext4_rust (fs.rs,  *)
(* inode/dir.rs) on a directory's inode and a name, and the kernel's cache *)
(* of dentries (fs/vfs/dentry.rs) over them.  The field v of the state     *)
(* holds the dentries that are in use: directory, name, inode, and whether *)
(* the directory's children still lead to it.  The map of children is weak *)
(* and keeps no dentry alive.                                              *)
(***************************************************************************)
EXTENDS Ext4File

NoDentry == [p |-> 0, n |-> "", ino |-> 0, cached |-> FALSE]

(***************************************************************************)
(* Entries count as links, and so does "..".                               *)
(***************************************************************************)
add_entry(s, p, c, n) == Counted(PutDir(s, p, ext4_dir_add_entry(DirOf(s, p), Child(s, c), n)), c)

dec_nlink(s, i) == [s EXCEPT !.ino[i].links = (@ - 1) % 65536]

remove_entry(s, p, c, n) ==
  LET t == PutDir(s, p, ext4_dir_remove_entry(DirOf(s, p), n)) IN IF t.r = "EOK" THEN dec_nlink(t, c) ELSE t

AddAlso(s, p, c, n) == IF s.r = "EOK" THEN add_entry(s, p, c, n) ELSE s

\* What was made stays when a later step fails.
Kept(s, what) == IF s.r = "EOK" THEN s ELSE Odd(s, what)

CreateDots(s, p, i) == IF IsDir(s, i) THEN AddAlso(AddAlso(s, i, i, "."), i, p, "..") ELSE s

CreateAs(s, p, n, t, i) ==
  Kept(CreateDots(add_entry(ext4_fs_alloc_inode(s, i, t), p, i, n), p, i), "inode leaked")

create(s, p, n, t) ==
  IF FreeInodes(s) = {} THEN Fail(s, "ENOSPC") ELSE CreateAs(s, p, n, t, Min(FreeInodes(s)))

link(s, p, n, i) == IF IsDir(s, i) THEN Fail(s, "EISDIR") ELSE add_entry(s, p, i, n)

(***************************************************************************)
(* Unlinking: an empty directory keeps one block until it is freed.  A     *)
(* special file cannot be truncated, and its inode is not freed then.      *)
(***************************************************************************)
truncate(s, i, blocks) ==
  IF IsDir(s, i)
  THEN [s EXCEPT !.ino[i].blk = FirstOf(@, blocks), !.free = @ + Len(s.ino[i].blk) - Min({Len(s.ino[i].blk), blocks})]
  ELSE ext4_trunc_inode(s, i, 0)

HeldOpen(s, i) == \E j \in DOMAIN s.v : s.v[j].ino = i

FreeLast(s, i) ==
  CASE s.ino[i].links # 0 -> s
    [] s.ino[i].links = 0 /\ s.ino[i].t \in Special -> Odd(Fail(s, "EINVAL"), "special file kept")
    [] OTHER -> ext4_fs_free_inode(truncate(IF HeldOpen(s, i) THEN Odd(s, "freed while held") ELSE s, i, 0), i)

UnlinkDir(s, p, i) == IF s.r = "EOK" /\ IsDir(s, i) THEN dec_nlink(dec_nlink(s, p), i) ELSE s

UnlinkFound(s, p, n, i) ==
  IF ext4_has_children(s, i) THEN Fail(s, "ENOTEMPTY")
  ELSE FreeLast(UnlinkDir(remove_entry(IF IsDir(s, i) THEN truncate(s, i, 1) ELSE s, p, i, n), p, i), i)

UnlinkResult(s, p, n, f) == IF f.b = 0 THEN Fail(s, "ENOENT") ELSE UnlinkFound(s, p, n, Result(f).ino)

unlink(s, p, n) == UnlinkResult(s, p, n, ext4_dir_find_entry(DirOf(s, p), n))

(***************************************************************************)
(* Renaming: what has the new name goes first, whatever happens then.      *)
(***************************************************************************)
RECURSIVE Ancestors(_, _)
Ancestors(s, i) ==
  IF i = Root THEN {Root} ELSE {i} \cup Ancestors(s, Result(LinearFind(DirOf(s, i), "..")).ino)

\* An index does not find "..".
SetParent(s, p, q, i) ==
  CASE ~IsDir(s, i) -> s
    [] IsDir(s, i) /\ s.ino[i].idx -> Odd(Fail(s, "ENOENT"), "parent not found")
    [] OTHER -> ext4_fs_inode_links_count_inc(dec_nlink(PutDir(s, i, Reparent(DirOf(s, i), q, LinearFind(DirOf(s, i), ".."))), p), q)

MoveEntry(s, p, n, q, m, i) ==
  Kept(AddAlso(remove_entry(SetParent(IF i \in Ancestors(s, q) THEN Odd(s, "moved below itself") ELSE s, p, q, i),
                            p, i, n), q, i, m), "entry lost")

RenameFound(s, p, n, q, m, f, replaced) ==
  IF f.b = 0 THEN Fail(IF replaced THEN Odd(s, "target lost") ELSE s, "ENOENT")
  ELSE MoveEntry(s, p, n, q, m, Result(f).ino)

RenameFrom(s, p, n, q, m) ==
  IF s.r \notin {"EOK", "ENOENT"} THEN s
  ELSE RenameFound(s, p, n, q, m, ext4_dir_find_entry(DirOf(s, p), n), s.r = "EOK")

rename(s, p, n, q, m) == RenameFrom(unlink(s, q, m), p, n, q, m)

(***************************************************************************)
(* Dentries.  The dentry of a file that is created is not put among its    *)
(* directory's children.                                                   *)
(***************************************************************************)
CachedAt(s, p, n) == {j \in DOMAIN s.v : s.v[j].cached /\ s.v[j].p = p /\ s.v[j].n = n}

LookedUp(s, f) == IF f.b = 0 THEN 0 ELSE Result(f).ino

lookup(s, p, n) ==
  IF CachedAt(s, p, n) # {} THEN s.v[Min(CachedAt(s, p, n))].ino
  ELSE LookedUp(s, ext4_dir_find_entry(DirOf(s, p), n))

Hold(s, j, p, n, i, cached) ==
  IF i = 0 THEN Fail(s, "ENOENT")
  ELSE [s EXCEPT !.v[j] = [p |-> p, n |-> n, ino |-> i, cached |-> cached], !.r = "EOK"]

OpenDentry(s, j, p, n) == Hold(s, j, p, n, lookup(s, p, n), TRUE)

CloseDentry(s, j) == [s EXCEPT !.v[j] = NoDentry, !.r = "EOK"]

DentryCreate(s, p, n, t) == IF lookup(s, p, n) # 0 THEN Fail(s, "EEXIST") ELSE create(s, p, n, t)

\* Mutant: the directory's children still lead to the dentry.
dentry_kept(s, p, n) == s

Forget(s, p, n) ==
  IF s.r # "EOK" THEN s ELSE [s EXCEPT !.v = [j \in DOMAIN @ |-> IF j \in CachedAt(s, p, n)
                                                               THEN [@[j] EXCEPT !.cached = FALSE] ELSE @[j]]]

DentryUnlink(s, p, n) == Forget(unlink(s, p, n), p, n)

\* No check for a file of that name.
DentryLink(s, p, n, i) ==
  link(IF LookedUp(s, LinearFind(DirOf(s, p), n)) # 0 THEN Odd(s, "second entry") ELSE s, p, n, i)

\* The children of the new directory are left alone.
Replaced(s, q, m) == IF s.r = "EOK" /\ CachedAt(s, q, m) # {} THEN Odd(s, "stale dentry") ELSE s

\* The dentries below a directory stay with its old dentry.
LeftBehind(s, i) == IF i # 0 /\ \E j \in DOMAIN s.v : s.v[j].p = i THEN Odd(s, "dentries left behind") ELSE s

DentryRename(s, p, n, q, m) ==
  Replaced(Forget(rename(LeftBehind(s, LookedUp(s, LinearFind(DirOf(s, p), n))), p, n, q, m), p, n), q, m)
=============================================================================
