-------------------------------- MODULE Names -------------------------------
(***************************************************************************)
(* Programs that call ext4.c, and a kernel that calls the library below    *)
(* it, one call after the other, on a small file system.  k is a record    *)
(* with the fields                                                         *)
(*   s      the mounted file system (modules Ext4, Ext4File and Lwext4)    *)
(*   m      the tables of devices and mount points (module Mounts)         *)
(*   seen   what the calls see of s, as the state of module NameSpace      *)
(*   call   the call that has just been made, until it returns             *)
(*   kept   the names that stayed in the directory being listed since the  *)
(*          listing began; none once a block of its index was split        *)
(*   cut    the writes and symbolic links that found the disk full         *)
(*   hung   a call that never returns, since it waits for its own lock     *)
(*   mal    devices whose machine stopped while they were mounted          *)
(*   job    what the programs do: the calls they make and the paths        *)
(*   total  the blocks of the file system                                  *)
(*   ops    the number of calls that are left, where the job counts them   *)
(* A call that leads to a situation outside Admitted is not made, and none *)
(* is made after one that hangs.                                           *)
(***************************************************************************)
EXTENDS Lwext4, Mounts

CONSTANTS
  Images,       \* the states to begin with
  Texts,        \* texts of symbolic links
  Sizes,        \* lengths of reads, writes and truncations
  Values,       \* values of extended attributes
  Handle,       \* open files of a program, and dentries in use
  Admitted      \* odd situations that are not left out

VARIABLE k

(***************************************************************************)
(* The refinement mapping: what the entries of all blocks, the bytes and   *)
(* the attributes amount to.                                               *)
(***************************************************************************)
EntriesOf(s, i) == {e \in Range(AllEntries(DirOf(s, i))) : e.ino # 0 /\ ~ext4_is_dots(e.n)}

NamesSeen(es) == [n \in {e.n : e \in es} |-> (CHOOSE e \in es : e.n = n).ino]

DataSeen(n) == IF n.t \in {"reg", "lnk"} THEN Bytes(n, 0, n.size) ELSE <<>>

AreaSeen(a) == {[n |-> a.en[i].n, v |-> ValueOf(a, i)] : i \in DOMAIN a.en}

XattrSeen(vs) == [n \in {e.n : e \in vs} |-> (CHOOSE e \in vs : e.n = n).v]

NodeSeen(n, es) ==
  [t |-> n.t, names |-> NamesSeen(es), data |-> DataSeen(n), xattr |-> XattrSeen(AreaSeen(n.body) \cup AreaSeen(n.acl)),
   attr |-> [mode |-> n.mode, own |-> n.own, atime |-> n.time.a, mtime |-> n.time.m, ctime |-> n.time.c,
             dev |-> n.dev]]

New(t) == NodeSeen([NoInode EXCEPT !.t = t, !.mode = IF t \in {"dir", "lnk"} THEN 511 ELSE 438], {})

Seen(s) ==
  [node |-> [i \in Ino \ FreeInodes(s) |-> NodeSeen(s.ino[i], IF IsDir(s, i) THEN EntriesOf(s, i) ELSE {})],
   h |-> [j \in DOMAIN s.h |-> [ino |-> s.h[j].ino, pos |-> s.h[j].pos]], ro |-> s.ro]

NoCall == [op |-> "none", r |-> "EOK", out |-> <<>>]

NS == INSTANCE NameSpace WITH Number <- Ino, NewNode <- New, fs <- k.seen, call <- k.call

(***************************************************************************)
(* A call, and its return.                                                 *)
(***************************************************************************)
ListedNames(s) == IF s.d.ino = 0 THEN {} ELSE {e.n : e \in EntriesOf(s, s.d.ino)}

SplitMeanwhile(s) == /\ s.d.ino # 0 /\ s.ino[s.d.ino].idx
                     /\ Len(s.ino[s.d.ino].blk) # Len(k.s.ino[s.d.ino].blk)

\* A listing begins when nothing was given yet.
KeptNames(s) ==
  CASE s.d.given = <<>> -> ListedNames(s)
    [] s.d.given # <<>> /\ ~SplitMeanwhile(s) -> k.kept \cap ListedNames(s)
    [] OTHER -> {}

CutShort(c, s) == \/ c.op = "write" /\ s.out # <<>> /\ s.out # <<c.len>>
                  \/ c.op = "symlink" /\ s.r = "ENOSPC"

\* Neither of the calls that wait for their own lock changes anything before.
Do(c, s) ==
  /\ s.odd \subseteq Admitted
  /\ k' = IF "locked twice" \in s.odd THEN [k EXCEPT !.hung = c, !.ops = 0]
          ELSE [k EXCEPT !.s = Remembered(s), !.seen = Seen(s), !.kept = KeptNames(s), !.ops = @ - k.job.cost,
                         !.cut = @ + IF CutShort(c, s) THEN 1 ELSE 0, !.call = c @@ [r |-> s.r, out |-> s.out]]

May(what) == k.call.op = "none" /\ k.ops > 0 /\ what \in k.job.acts

Return ==
  /\ k.call.op # "none"
  /\ k' = [k EXCEPT !.call = NoCall, !.s.r = "EOK", !.s.out = <<>>, !.s.cur = Root, !.s.up = Root, !.s.goal = ""]

Path == k.job.paths

MakeDir == May("mk") /\ \E path \in Path : Do([op |-> "make", path |-> path, t |-> "dir"], ext4_dir_mk(k.s, path))

MakeNode ==
  May("mknod") /\ \E path \in Path \ {<<>>}, t \in k.job.types :
    Do([op |-> "mknod", path |-> path, t |-> t, dev |-> IF t = "chr" THEN 5 ELSE 0], ext4_mknod(k.s, path, t, 5))

LinkFile ==
  May("link") /\ \E path \in k.job.from, to \in Path :
    Do([op |-> "link", path |-> path, t |-> "any", to |-> to], ext4_flink(k.s, path, to))

RenameFile ==
  May("rename") /\ \E path \in k.job.from, to \in Path \ {<<>>} :
    Do([op |-> "rename", path |-> path, t |-> "any", to |-> to], ext4_frename(k.s, path, to))

RemoveFile ==
  May("remove") /\ \E path \in Path \ {<<>>} :
    Do([op |-> "remove", path |-> path, t |-> "any"], ext4_fremove(k.s, path))

RemoveDir ==
  May("rm") /\ \E path \in Path \ {<<>>} : Do([op |-> "rm", path |-> path, t |-> "dir"], ext4_dir_rm(k.s, path))

FindInode ==
  May("exist") /\ \E path \in Path, t \in {"reg", "dir"} :
    Do([op |-> "find", path |-> path, t |-> t], ext4_inode_exist(k.s, path, t))

(***************************************************************************)
(* Open files.  A slot that is in use is closed before it is used again.   *)
(***************************************************************************)
OpenLabel(j, path, fl) ==
  [op |-> "open", j |-> j, path |-> path, t |-> "reg", creat |-> "creat" \in fl, trunc |-> "trunc" \in fl,
   append |-> "append" \in fl]

Opened == {j \in Handle : k.s.h[j].ino # 0}

OpenMode ==
  May("fopen") /\ \E j \in Handle \ Opened, path \in Path \ {<<>>}, mode \in k.job.modes :
    Do(OpenLabel(j, path, ext4_parse_flags(mode)), ext4_fopen(k.s, j, path, mode))

OpenFlags ==
  May("fopen2") /\ \E j \in Handle \ Opened, path \in Path \ {<<>>}, fl \in {{"rdwr", "creat"}, {"wronly"}} :
    Do(OpenLabel(j, path, fl), ext4_fopen2(k.s, j, path, fl))

CloseFile == May("fclose") /\ \E j \in Opened : Do([op |-> "close", j |-> j], ext4_fclose(k.s, j))

WriteFile ==
  May("fwrite") /\ \E j \in Opened, len \in Sizes :
    Do([op |-> "write", j |-> j, len |-> len, v |-> j], ext4_fwrite(k.s, j, len, j))

ReadFile ==
  May("fread") /\ \E j \in Opened, len \in Sizes :
    Do([op |-> "read", j |-> j, len |-> len, denied |-> "wronly" \in k.s.h[j].fl], ext4_fread(k.s, j, len))

TruncateFile ==
  May("ftruncate") /\ \E j \in Opened, len \in Sizes :
    Do([op |-> "truncate", j |-> j, len |-> len], ext4_ftruncate(k.s, j, len))

SeekTarget(f, off, origin) ==
  CASE origin = "set" -> off [] origin = "cur" -> f.pos + off [] origin = "end" -> f.size - off

SeekFile ==
  May("fseek") /\ \E j \in Opened, off \in -1..1, origin \in {"set", "cur", "end"} :
    Do([op |-> "seek", j |-> j, pos |-> SeekTarget(k.s.h[j], off, origin)], ext4_fseek(k.s, j, off, origin))

(***************************************************************************)
(* Links, attributes, extended attributes.                                 *)
(***************************************************************************)
MakeLink ==
  May("symlink") /\ \E path \in Path \ {<<>>}, text \in Texts :
    Do([op |-> "symlink", path |-> path, t |-> "lnk", text |-> text, long |-> Len(text) > FileBlock],
       ext4_fsymlink(k.s, text, path))

ReadLink ==
  May("readlink") /\ \E path \in Path, len \in Sizes :
    Do([op |-> "readlink", path |-> path, t |-> "lnk", len |-> len], ext4_readlink(k.s, path, len))

SetLabel(path, a, v) == [op |-> "setattr", path |-> path, t |-> "any", a |-> a, v |-> v]

SetAttribute ==
  May("setattr") /\ \E path \in Path :
    \/ Do(SetLabel(path, "mode", 1), ext4_mode_set(k.s, path, 1))
    \/ Do(SetLabel(path, "own", 2), ext4_owner_set(k.s, path, 2))
    \/ Do(SetLabel(path, "atime", 3), ext4_atime_set(k.s, path, 3))
    \/ Do(SetLabel(path, "mtime", 4), ext4_mtime_set(k.s, path, 4))
    \/ Do(SetLabel(path, "ctime", 5), ext4_ctime_set(k.s, path, 5))

GetLabel(path, as) == [op |-> "getattr", path |-> path, t |-> "any", as |-> as]

GetAttribute ==
  May("getattr") /\ \E path \in Path :
    \/ Do(GetLabel(path, <<"mode">>), ext4_mode_get(k.s, path))
    \/ Do(GetLabel(path, <<"own">>), ext4_owner_get(k.s, path))
    \/ Do(GetLabel(path, <<"atime">>), ext4_atime_get(k.s, path))
    \/ Do(GetLabel(path, <<"mtime">>), ext4_mtime_get(k.s, path))
    \/ Do(GetLabel(path, <<"ctime">>), ext4_ctime_get(k.s, path))
    \/ Do(GetLabel(path, <<"mode", "own", "atime", "mtime", "ctime">>), ext4_raw_inode_fill(k.s, path))

XattrLabel(op, path, n) == [op |-> op, path |-> path, t |-> "any", n |-> n]

SetXattr ==
  May("setxattr") /\ \E path \in Path, n \in DOMAIN AttrLen, v \in Values :
    Do(XattrLabel("setxattr", path, n) @@ [v |-> v], ext4_setxattr(k.s, path, n, v))

GetXattr ==
  May("getxattr") /\ \E path \in Path, n \in DOMAIN AttrLen :
    Do(XattrLabel("getxattr", path, n), ext4_getxattr(k.s, path, n))

ListXattr == May("listxattr") /\ \E path \in Path : Do(XattrLabel("listxattr", path, ""), ext4_listxattr(k.s, path))

RemoveXattr ==
  May("removexattr") /\ \E path \in Path, n \in DOMAIN AttrLen :
    Do(XattrLabel("dropxattr", path, n), ext4_removexattr(k.s, path, n))

(***************************************************************************)
(* Listing a directory while its entries come and go.                      *)
(***************************************************************************)
OpenDir ==
  May("dir_open") /\ k.s.d.ino = 0 /\ \E path \in Path :
    Do([op |-> "find", path |-> path, t |-> "dir"], ext4_dir_open(k.s, path))

ListLabel == [op |-> "list"]

ReadDir == May("dir_open") /\ k.s.d.ino # 0 /\ Do(ListLabel, ext4_dir_entry_next(k.s))

RewindDir == May("dir_open") /\ k.s.d.ino # 0 /\ Do(ListLabel, ext4_dir_entry_rewind(k.s))

CloseDir == May("dir_open") /\ k.s.d.ino # 0 /\ Do(ListLabel, ext4_dir_close(k.s))

(***************************************************************************)
(* The kernel's calls, on the directories there are.                       *)
(***************************************************************************)
Dirs == {i \in Ino : IsDir(k.s, i)}

KLabel(op, p, n) == [op |-> op, p |-> p, n |-> n]

KernelCreate ==
  May("kernel") /\ \E p \in Dirs, n \in k.job.names, t \in k.job.types :
    Do(KLabel("kcreate", p, n) @@ [t |-> t], DentryCreate(k.s, p, n, t))

KernelUnlink ==
  May("kernel") /\ \E p \in Dirs, n \in k.job.names : Do(KLabel("kunlink", p, n), DentryUnlink(k.s, p, n))

KernelLink ==
  May("kernel") /\ \E p \in Dirs, n \in k.job.names, i \in Ino \ FreeInodes(k.s) :
    Do(KLabel("klink", p, n) @@ [i |-> i], DentryLink(k.s, p, n, i))

KernelRename ==
  May("kernel") /\ \E p, q \in Dirs, n, m \in k.job.names :
    Do(KLabel("krename", p, n) @@ [q |-> q, m |-> m], DentryRename(k.s, p, n, q, m))

\* The result of a lookup is that of the entries, whether it is cached or not.
KernelOpen ==
  May("kernel") /\ \E j \in Handle, p \in Dirs, n \in k.job.names :
    /\ k.s.v[j].ino = 0
    /\ Do(KLabel("kfind", p, n), OpenDentry(k.s, j, p, n))

KernelClose == May("kernel") /\ \E j \in Handle : k.s.v[j].ino # 0 /\ Do(ListLabel, CloseDentry(k.s, j))

(***************************************************************************)
(* Devices and mount points.                                               *)
(***************************************************************************)
Change(m) ==
  /\ m.odd \subseteq Admitted
  /\ k' = [k EXCEPT !.m = m, !.ops = @ - 1]

Register == May("mount") /\ \E b \in Device : Change(ext4_device_register(k.m, b, b))

Mounted == {k.m.mp[i].bd : i \in {j \in 1..MountSlots : k.m.mp[j].mounted}}

Unregister ==
  May("mount") /\ (\/ \E n \in Device : Change(ext4_device_unregister(k.m, n))
                   \/ Change(ext4_device_unregister_all(k.m)))

Mount ==
  May("mount") /\ \E n \in Device, at \in MountName, ro \in BOOLEAN :
    /\ \A b \in Device : k.m.bd[b].count < 2
    /\ Change(ext4_mount(k.m, n, at, ro))

Unmount == May("mount") /\ \E at \in MountName : Change(ext4_umount(k.m, at))

SetLocks == May("mount") /\ \E at \in MountName : Change(ext4_mount_setup_locks(k.m, at))

Stats == May("mount") /\ \E at \in MountName : Change(ext4_mount_point_stats(k.m, at))

\* The machine stops: what is mounted for writing was not unmounted.
Stop ==
  /\ May("mount")
  /\ k' = [k EXCEPT !.m = Boot(@), !.ops = @ - 1, !.mal = @ \cup {b \in Mounted : \E i \in 1..MountSlots :
                                                  k.m.mp[i].mounted /\ k.m.mp[i].bd = b /\ ~k.m.mp[i].ro}]

Init == k \in Images

NameCalls == MakeDir \/ MakeNode \/ LinkFile \/ RenameFile \/ RemoveFile \/ RemoveDir \/ FindInode

FileCalls == OpenMode \/ OpenFlags \/ CloseFile \/ WriteFile \/ ReadFile \/ TruncateFile \/ SeekFile

InodeCalls == MakeLink \/ ReadLink \/ SetAttribute \/ GetAttribute \/ SetXattr \/ GetXattr \/ ListXattr \/ RemoveXattr

ListCalls == OpenDir \/ ReadDir \/ RewindDir \/ CloseDir

KernelCalls == KernelCreate \/ KernelUnlink \/ KernelLink \/ KernelRename \/ KernelOpen \/ KernelClose

MountCalls == Register \/ Unregister \/ Mount \/ Unmount \/ SetLocks \/ Stats \/ Stop

Next == NameCalls \/ FileCalls \/ InodeCalls \/ ListCalls \/ KernelCalls \/ MountCalls \/ Return

Spec == Init /\ [][Next]_k

(***************************************************************************)
(* Properties.                                                             *)
(***************************************************************************)
Used == Ino \ FreeInodes(k.s)

EntriesTo(i) == {<<p, n>> \in Dirs \X Name : \E e \in EntriesOf(k.s, p) : e.n = n /\ e.ino = i}

Subdirs(p) == {e \in EntriesOf(k.s, p) : IsDir(k.s, e.ino)}

\* Every call does to the names, contents and attributes what module
\* NameSpace says, with that result and output: a path is created to its
\* end or up to a name, a link or a renamed file is the same file, removal
\* takes what is below and no more, a read gives what was written
\* (ext4_generic_open2, ext4_create_hardlink, ext4_dir_rm, ext4_fwrite,
\* ext4_xattr_set, and rename and unlink of lwext4_rust).
ImplementsNameSpace == NS!Spec

\* The search of ext4_dir_find_entry, by the hash index or through the
\* blocks, finds every entry that is in some block of the directory, after
\* any splits of blocks and index nodes (ext4_dir_dx_split_data,
\* ext4_dir_dx_split_index).
EntriesFindable ==
  \A p \in Dirs : \A e \in EntriesOf(k.s, p) :
    LET f == ext4_dir_find_entry(DirOf(k.s, p), e.n) IN f.b # 0 /\ Result(f) = e

Tiled(b) == TotalLen(b.e) = DirBlock /\ \A i \in DOMAIN b.e : b.e[i].ino # 0 => b.e[i].len >= EntryLen(b.e[i].n)

FileBlocks(n) == Len(n.blk) + Len(n.fb) + IF n.acl.magic THEN 1 ELSE 0

\* The entries of a directory's block fill it without gaps or overlaps, and
\* every block of the file system is free or belongs to one inode: none is
\* lost when entries merge, blocks split, an index is rebuilt or a call
\* fails halfway (ext4_dir_remove_entry, ext4_trunc_dir, ext4_dir_rm,
\* ext4_xattr_remove).
BlocksSound ==
  /\ \A p \in Dirs : \A b \in DOMAIN k.s.ino[p].blk : Tiled(k.s.ino[p].blk[b])
  /\ k.s.free + FoldFunctionOnSet(+, 0, [i \in Ino |-> FileBlocks(k.s.ino[i])], Used) = k.total

ParentOf(p) == Result(LinearFind(DirOf(k.s, p), "..")).ino

\* The names form a tree: every inode in use has an entry, a directory other
\* than the root just one, in the directory that its ".." names.  A link count
\* is the number of a file's entries or, for a directory, 2 and its
\* subdirectories; an indexed directory may stand at 1, its count given up
\* (ext4_link, ext4_unlink, ext4_fs_inode_links_count_inc, ext4_frename).
LinksExact ==
  \A i \in Used :
    IF IsDir(k.s, i)
    THEN /\ \/ k.s.ino[i].links = 2 + Cardinality(Subdirs(i))
            \/ k.s.ino[i].links = 1 /\ k.s.ino[i].idx
         /\ IF i = Root THEN EntriesTo(i) = {} ELSE \E n \in Name : EntriesTo(i) = {<<ParentOf(i), n>>}
    ELSE k.s.ino[i].links = Cardinality(EntriesTo(i)) /\ k.s.ino[i].links > 0

Missing(path) == NS!Resolve(k.seen, path) = 0

\* A call that returns has freed the lock of the mount point and ended the mode in
\* which the block cache delays its writes, on every path out of the calls of ext4.c
\* but three.  A write and a symbolic link that find the disk full leave the mode on,
\* each at most once more; ext4_readlink of a link and ext4_removexattr of a path
\* that leads nowhere take the lock they hold, and are the only calls to hang.
CallsBalanced ==
  /\ k.s.lock = 0 /\ k.s.wb <= k.cut
  /\ \/ k.hung.op = "none"
     \/ k.hung.op = "readlink" /\ ~Missing(k.hung.path) /\ k.hung.len > 0
     \/ k.hung.op = "dropxattr" /\ Missing(k.hung.path)

Given(n) == Cardinality({i \in DOMAIN k.s.d.given : k.s.d.given[i] = n})

\* A listing that reaches the end has given every name that stayed in the directory
\* just once, whatever was added or removed between two calls of ext4_dir_entry_next,
\* the next entry included.  Not so when a block of an indexed directory is split
\* meanwhile: the split sorts the entries anew and moves half of them to the end.
ListingComplete == \A n \in k.kept : IF k.s.d.off = -1 THEN Given(n) = 1 ELSE Given(n) <= 1

ValueWords(a) == {a.en[i].offs..a.en[i].offs + a.en[i].size - 1 : i \in {j \in DOMAIN a.en : a.en[j].size > 0}}

AreaSound(a) ==
  a.magic => /\ \A u, w \in ValueWords(a) : u = w \/ u \cap w = {}
             /\ FoldFunctionOnSet(+, 0, [i \in DOMAIN a.en |-> a.en[i].size], DOMAIN a.en)
                  = a.len - MinOffs(a, a.len)
             /\ MinOffs(a, a.len) > LastEntry(a)
             /\ IsInjective(NamesIn(a))

\* In the body and in the block the entries and the values of extended
\* attributes never overlap and leave no gaps, an attribute is in one of
\* them only, and there is no empty block (ext4_xattr_set_entry,
\* ext4_xattr_set, ext4_xattr_remove).
AttrAreasSound ==
  \A i \in Used : LET n == k.s.ino[i]
                  IN /\ AreaSound(n.body) /\ AreaSound(n.acl)
                     /\ Range(NamesIn(n.body)) \cap Range(NamesIn(n.acl)) = {}
                     /\ n.acl.magic => n.acl.en # <<>>

\* A dentry that a directory's children lead to names the inode that the
\* directory's entry of that name has (Dentry::lookup, unlink and rename).
DentriesFresh ==
  \A j \in Handle : k.s.v[j].cached =>
    \E e \in EntriesOf(k.s, k.s.v[j].p) : e.n = k.s.v[j].n /\ e.ino = k.s.v[j].ino

MountedAs(b) == {i \in 1..MountSlots : k.m.mp[i].mounted /\ k.m.mp[i].bd = b}

\* A device is open just while it is mounted, however a mount failed, and its
\* superblock says "error" just while it is mounted for writing or when the
\* machine stopped then (ext4_mount, ext4_umount, ext4_fs_init, ext4_fs_fini).
MountsClean ==
  \A b \in Device :
    /\ k.m.bd[b].ref = Cardinality(MountedAs(b))
    /\ IF \E i \in MountedAs(b) : ~k.m.mp[i].ro THEN k.m.bd[b].state = "error"
       ELSE b \notin k.mal => k.m.bd[b].state = "valid"
=============================================================================
