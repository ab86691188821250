------------------------------ MODULE Ext4File ------------------------------
(***************************************************************************)
(* The operations of ext4.c on open files and on inodes: reading, writing, *)
(* positions, truncation, symbolic links, special files, the listing of a  *)
(* directory, and the attributes of an inode.  The state is the record of  *)
(* module Ext4.  A file is a sequence of blocks fb, and a new block holds  *)
(* what its last owner left there.  An open file is a record with the      *)
(* fields ino (0 when it is closed), pos, size (fsize, which other open    *)
(* files may have made old) and fl.                                        *)
(***************************************************************************)
EXTENDS Ext4

CONSTANT LinkText     \* bytes of a symbolic link that fit in the inode

Old == 0              \* a byte of a block's last owner

Closed == [ino |-> 0, pos |-> 0, size |-> 0, fl |-> {}]

Writable(fl) == fl \cap {"wronly", "rdwr"} # {}

Modes == {"r", "w", "a", "r+", "w+", "a+"}

ext4_parse_flags(mode) ==
  CASE mode = "r"  -> {}
    [] mode = "w"  -> {"wronly", "creat", "trunc"}
    [] mode = "a"  -> {"wronly", "creat", "append"}
    [] mode = "r+" -> {"rdwr"}
    [] mode = "w+" -> {"rdwr", "creat", "trunc"}
    [] mode = "a+" -> {"rdwr", "creat", "append"}

(***************************************************************************)
(* Opening and closing.                                                    *)
(***************************************************************************)
OpenFile(s, fl) ==
  [ino |-> s.cur, size |-> FileSize(s, s.cur), fl |-> fl,
   pos |-> IF "append" \in fl THEN FileSize(s, s.cur) ELSE 0]

FileSet(s, j, fl) == IF s.r = "EOK" THEN [s EXCEPT !.h[j] = OpenFile(s, fl)] ELSE s

ext4_fopen2(s, j, path, fl) ==
  EXT4_MP_UNLOCK(WriteBackOff(FileSet(
    ext4_generic_open2(WriteBackOn(EXT4_MP_LOCK(s)), path, fl, "reg"), j, fl)))

ext4_fopen(s, j, path, mode) == ext4_fopen2(s, j, path, ext4_parse_flags(mode))

ext4_fclose(s, j) == [s EXCEPT !.h[j] = Closed, !.r = "EOK"]

(***************************************************************************)
(* Truncation only shortens a file.  O_RDONLY is 0, so that the test for   *)
(* it refuses nothing.                                                     *)
(***************************************************************************)
Checked(s, fl) == IF Writable(fl) THEN s ELSE Odd(s, "written read-only")

Shortened(s, j, size) ==
  [WriteBackOff(ext4_trunc_inode(WriteBackOn(s), s.h[j].ino, size)) EXCEPT
     !.h[j].size = size, !.h[j].pos = Min({@, size})]

Synced(s, j) == [s EXCEPT !.h[j].size = FileSize(s, s.h[j].ino)]

ext4_ftruncate_no_lock(s, j, size) == IF s.h[j].size <= size THEN s ELSE Shortened(s, j, size)

ext4_ftruncate(s, j, size) ==
  IF s.ro THEN ReadOnly(s)
  ELSE EXT4_MP_UNLOCK([ext4_ftruncate_no_lock(Synced(EXT4_MP_LOCK(Checked(s, s.h[j].fl)), j), j, size)
                         EXCEPT !.r = "EOK"])

(***************************************************************************)
(* Reading: out is what was read.  The text of a short link is not in a    *)
(* block, and reading it leaves the position alone.                        *)
(***************************************************************************)
Inline(n) == n.t = "lnk" /\ n.size < LinkText /\ n.fb = <<>>

ByteAt(n, p) == n.fb[p \div FileBlock + 1][p % FileBlock]

Bytes(n, pos, len) ==
  IF Inline(n) THEN SubSeq(n.txt, pos + 1, pos + len) ELSE [i \in 1..len |-> ByteAt(n, pos + i - 1)]

Left(n, pos, len) == Min({len, n.size - pos})

ReadBytes(s, i, pos, len) ==
  IF pos > s.ino[i].size THEN Odd(s, "position past the end")
  ELSE [s EXCEPT !.out = Bytes(s.ino[i], pos, Left(s.ino[i], pos, len)), !.r = "EOK"]

ReadOn(s, j) == [s EXCEPT !.h[j].pos = @ + IF Inline(s.ino[s.h[j].ino]) THEN 0 ELSE Len(s.out)]

Nothing(s) == [s EXCEPT !.r = "EOK"]

ext4_fread(s, j, len) ==
  CASE "wronly" \in s.h[j].fl -> Fail(s, "EPERM")
    [] "wronly" \notin s.h[j].fl /\ len = 0 -> Nothing(s)
    [] OTHER -> EXT4_MP_UNLOCK(ReadOn(ReadBytes(Synced(EXT4_MP_LOCK(s), j), s.h[j].ino, s.h[j].pos, len), j))

(***************************************************************************)
(* Writing len times the byte v, block by block: w holds the file system,  *)
(* the inode, iblk_idx, the position, the bytes that are left and the      *)
(* number of blocks at the start.  When no block can be appended, what     *)
(* was written stays, the result is EOK, and after the middle of the data  *)
(* the delayed writes stay on.                                             *)
(***************************************************************************)
Over(block, off, len, v) == [o \in 0..FileBlock - 1 |-> IF o \in off..off + len - 1 THEN v ELSE block[o]]

Fresh == [o \in 0..FileBlock - 1 |-> Old]

Advance(w, off, len, v) ==
  [w EXCEPT !.s.ino[w.i].fb[w.b + 1] = Over(@, off, len, v), !.b = @ + 1, !.pos = @ + len, !.left = @ - len]

Appended(w) ==
  IF w.s.free = 0 THEN [w EXCEPT !.full = TRUE]
  ELSE [w EXCEPT !.s.free = @ - 1, !.s.ino[w.i].fb = Append(@, Fresh)]

HaveBlock(w) == IF w.b < w.nb THEN w ELSE Appended(w)

PutBytes(w, off, len, v) == IF w.full THEN w ELSE Advance(w, off, len, v)

WriteHead(w, off, v) == IF off = 0 THEN w ELSE Advance(w, off, Min({w.left, FileBlock - off}), v)

WriteMiddle(w, v) ==
  FoldLeft(LAMBDA x, b : IF x.full THEN x ELSE PutBytes(HaveBlock(x), 0, FileBlock, v),
           [w EXCEPT !.s = WriteBackOn(@)], [b \in 1..w.left \div FileBlock |-> b])

MiddleDone(w) ==
  [w EXCEPT !.s = IF w.full THEN Odd(@, "writes left delayed") ELSE WriteBackOff(@)]

WriteTail(w, v) == IF w.full \/ w.left = 0 THEN w ELSE PutBytes(HaveBlock(w), 0, w.left, v)

\* Mutant: the size of a file that was overwritten in place is set, too.
size_always_set(w, j, len) ==
  [w.s EXCEPT !.h[j].pos = w.pos, !.h[j].size = w.pos, !.ino[w.i].size = w.pos,
              !.out = <<len - w.left>>, !.r = "EOK"]

SizeSet(w, j, len) ==
  [w.s EXCEPT !.h[j].pos = w.pos, !.h[j].size = Max({@, w.pos}), !.ino[w.i].size = Max({@, w.pos}),
              !.out = <<len - w.left>>, !.r = "EOK"]

WriteBytes(s, j, len, v) ==
  IF s.h[j].pos > s.h[j].size THEN Odd(s, "position past the end")
  ELSE SizeSet(WriteTail(MiddleDone(WriteMiddle(WriteHead(
                 [s |-> s, i |-> s.h[j].ino, b |-> s.h[j].pos \div FileBlock, pos |-> s.h[j].pos,
                  left |-> len, nb |-> BlocksFor(s.h[j].size), full |-> FALSE],
                 s.h[j].pos % FileBlock, v), v)), v), j, len)

ext4_fwrite(s, j, len, v) ==
  CASE s.ro -> ReadOnly(s)
    [] ~s.ro /\ len = 0 -> Nothing(Checked(s, s.h[j].fl))
    [] OTHER -> EXT4_MP_UNLOCK(WriteBytes(Synced(EXT4_MP_LOCK(Checked(s, s.h[j].fl)), j), j, len, v))

(***************************************************************************)
(* Positions, against the size that the open file knows.                   *)
(***************************************************************************)
SeekTo(s, j, ok, pos) == IF ok THEN [s EXCEPT !.h[j].pos = pos, !.r = "EOK"] ELSE Fail(s, "EINVAL")

SeekCurOk(f, off) ==
  \/ off <= 0 /\ -off <= f.pos
  \/ off > 0 /\ (f.pos > f.size \/ off <= f.size - f.pos)

ext4_fseek(s, j, off, origin) ==
  CASE origin = "set" -> SeekTo(s, j, off \in 0..s.h[j].size, off)
    [] origin = "cur" -> SeekTo(s, j, SeekCurOk(s.h[j], off), s.h[j].pos + off)
    [] origin = "end" -> SeekTo(s, j, off \in 0..s.h[j].size, s.h[j].size - off)

(***************************************************************************)
(* Symbolic links and special files.  A link that is there is given the    *)
(* new text.                                                               *)
(***************************************************************************)
TextInInode(s, i, text) == [s EXCEPT !.ino[i].txt = text, !.ino[i].size = Len(text)]

TextInBlock(s, i, text) ==
  IF s.free = 0 THEN Odd(Fail(s, "ENOSPC"), "writes left delayed")
  ELSE [s EXCEPT !.free = @ - 1, !.ino[i].size = Len(text),
                 !.ino[i].fb = <<[o \in 0..FileBlock - 1 |-> IF o < Len(text) THEN text[o + 1] ELSE Old]>>]

TextPlaced(s, i, text) ==
  IF Len(text) < LinkText THEN TextInInode(s, i, text) ELSE TextInBlock(s, i, text)

TextDone(s) == IF s.r = "EOK" THEN WriteBackOff(s) ELSE s

\* An empty text leaves the link as it is.
ext4_fsymlink_set(s, i, text) ==
  CASE s.r # "EOK" \/ text = <<>> -> s
    [] s.r = "EOK" /\ Len(text) > FileBlock -> Fail(s, "EINVAL")
    [] OTHER -> TextDone(TextPlaced(WriteBackOn(ext4_trunc_inode(s, i, 0)), i, text))

SetText(s, text) == ext4_fsymlink_set(s, s.cur, text)

ext4_fsymlink(s, text, path) ==
  IF s.ro THEN ReadOnly(s)
  ELSE EXT4_MP_UNLOCK(WriteBackOff(SetText(
         ext4_generic_open2(WriteBackOn(EXT4_MP_LOCK(s)), path, {"rdwr", "creat"}, "lnk"), text)))

\* ext4_fread takes the lock that is already held.
ReadText(s, len) ==
  CASE s.r # "EOK" -> s
    [] s.r = "EOK" /\ len = 0 -> Nothing(s)
    [] OTHER -> EXT4_MP_UNLOCK(ReadBytes(EXT4_MP_LOCK(s), s.cur, 0, len))

ext4_readlink(s, path, len) ==
  EXT4_MP_UNLOCK(WriteBackOff(ReadText(Lookup(WriteBackOn(EXT4_MP_LOCK(s)), path, "lnk"), len)))

Special == {"chr", "fifo"}

ext4_mknod_set(s, t, dev) ==
  IF s.r = "EOK" /\ t = "chr" THEN [s EXCEPT !.ino[s.cur].dev = dev, !.ino[s.cur].size = 0] ELSE s

ext4_mknod(s, path, t, dev) ==
  CASE s.ro -> ReadOnly(s)
    [] ~s.ro /\ t \notin Special -> Fail(s, "EINVAL")
    [] OTHER -> EXT4_MP_UNLOCK(WriteBackOff(ext4_mknod_set(
                  ext4_generic_open2(WriteBackOn(EXT4_MP_LOCK(s)), path, {"rdwr", "creat"}, t), t, dev)))

(***************************************************************************)
(* The attributes of an inode.                                             *)
(***************************************************************************)
AttrPut(n, a, v) ==
  CASE a = "mode"  -> [n EXCEPT !.mode = v]
    [] a = "own"   -> [n EXCEPT !.own = v]
    [] a = "atime" -> [n EXCEPT !.time.a = v]
    [] a = "mtime" -> [n EXCEPT !.time.m = v]
    [] a = "ctime" -> [n EXCEPT !.time.c = v]

AttrOf(n, a) ==
  CASE a = "mode"  -> n.mode
    [] a = "own"   -> n.own
    [] a = "atime" -> n.time.a
    [] a = "mtime" -> n.time.m
    [] a = "ctime" -> n.time.c

SetReached(s, a, v) == IF s.r # "EOK" THEN s ELSE [s EXCEPT !.ino[s.cur] = AttrPut(@, a, v)]

AttrSet(s, path, a, v) ==
  IF s.ro THEN ReadOnly(s) ELSE EXT4_MP_UNLOCK(SetReached(Lookup(EXT4_MP_LOCK(s), path, "any"), a, v))

GetReached(s, as) ==
  IF s.r # "EOK" THEN s ELSE [s EXCEPT !.out = [i \in DOMAIN as |-> AttrOf(s.ino[s.cur], as[i])]]

AttrGet(s, path, as) == EXT4_MP_UNLOCK(GetReached(Lookup(EXT4_MP_LOCK(s), path, "any"), as))

ext4_mode_set(s, path, v) == AttrSet(s, path, "mode", v)

ext4_owner_set(s, path, v) == AttrSet(s, path, "own", v)

ext4_atime_set(s, path, v) == AttrSet(s, path, "atime", v)

ext4_mtime_set(s, path, v) == AttrSet(s, path, "mtime", v)

ext4_ctime_set(s, path, v) == AttrSet(s, path, "ctime", v)

ext4_mode_get(s, path) == AttrGet(s, path, <<"mode">>)

ext4_owner_get(s, path) == AttrGet(s, path, <<"own">>)

ext4_atime_get(s, path) == AttrGet(s, path, <<"atime">>)

ext4_mtime_get(s, path) == AttrGet(s, path, <<"mtime">>)

ext4_ctime_get(s, path) == AttrGet(s, path, <<"ctime">>)

ext4_raw_inode_fill(s, path) == AttrGet(s, path, <<"mode", "own", "atime", "mtime", "ctime">>)

ext4_inode_exist(s, path, t) == EXT4_MP_UNLOCK(Lookup(EXT4_MP_LOCK(s), path, t))

(***************************************************************************)
(* Listing a directory: d holds its inode, the offset of the next entry    *)
(* (-1 after the last), the name in the bytes at that offset ("" when they *)
(* were written over) and, for the properties, the names that were given.  *)
(***************************************************************************)
NoReader == [ino |-> 0, off |-> 0, was |-> "", given |-> <<>>]

ReaderSet(s) == IF s.r = "EOK" THEN [s EXCEPT !.d = [NoReader EXCEPT !.ino = s.cur]] ELSE s

ext4_dir_open(s, path) == EXT4_MP_UNLOCK(ReaderSet(Lookup(EXT4_MP_LOCK(s), path, "dir")))

ext4_dir_close(s) == [s EXCEPT !.d = NoReader, !.r = "EOK"]

ext4_dir_entry_rewind(s) == [s EXCEPT !.d.off = 0, !.d.given = <<>>]

OffsetOf(es, i) == TotalLen(SubSeq(es, 1, i - 1))

NextOffset(es, i) == IF i > Len(es) THEN -1 ELSE OffsetOf(es, i)

\* The entry whose bytes are at an offset.
Covering(es, off) == Max({i \in DOMAIN es : OffsetOf(es, i) <= off})

GiveEntry(s, es, i, name) ==
  [s EXCEPT !.d.off = NextOffset(es, ext4_dir_iterator_next(es, i)), !.d.given = Append(@, name)]

\* An entry that was removed is still given, with inode 0, and leads to those after
\* it.  What else the bytes of another entry are taken for is not modelled.
EntryAt(s, es, i) ==
  CASE OffsetOf(es, i) = s.d.off -> GiveEntry(s, es, i, es[i].n)
    [] OffsetOf(es, i) # s.d.off /\ s.d.was # "" -> GiveEntry(s, es, i, s.d.was)
    [] OTHER -> Odd(s, "stale offset")

NextEntry(s, es) == EntryAt(s, es, Covering(es, s.d.off))

\* What a change of the directory leaves of the bytes at the offset: an entry in use
\* ends with its name, the rest of its length is as it was.
Spared(e, at, off) == e.ino = 0 \/ at + EntryLen(e.n) <= off

NameThere(s, es, i) ==
  CASE OffsetOf(es, i) = s.d.off -> es[i].n
    [] OffsetOf(es, i) # s.d.off /\ Spared(es[i], OffsetOf(es, i), s.d.off) -> s.d.was
    [] OTHER -> ""

Remembered(s) ==
  IF s.d.ino = 0 \/ s.d.off = -1 THEN s
  ELSE LET es == AllEntries(DirOf(s, s.d.ino))
       IN [s EXCEPT !.d.was = NameThere(s, es, Covering(es, s.d.off))]

ext4_dir_entry_next(s) ==
  IF s.d.off = -1 THEN EXT4_MP_UNLOCK(EXT4_MP_LOCK(s))
  ELSE EXT4_MP_UNLOCK(NextEntry(EXT4_MP_LOCK(s), AllEntries(DirOf(s, s.d.ino))))

(***************************************************************************)
(* Extended attributes (module Xattr).  A name without a known prefix is   *)
(* refused.  A failed walk of ext4_removexattr takes the lock once more.   *)
(***************************************************************************)
XattrOf(s) == [body |-> s.ino[s.cur].body, acl |-> s.ino[s.cur].acl, extra |-> s.extra, free |-> s.free,
               r |-> s.r, out |-> s.out, odd |-> s.odd]

PutXattr(s, x) ==
  [s EXCEPT !.ino[s.cur].body = x.body, !.ino[s.cur].acl = x.acl, !.free = x.free,
            !.r = x.r, !.out = x.out, !.odd = x.odd]

ext4_extract_xattr_name(n) == n \in DOMAIN AttrLen

XattrSetAt(s, n, value) == IF s.r # "EOK" THEN s ELSE PutXattr(s, ext4_xattr_set(XattrOf(s), n, value))

ext4_setxattr(s, path, n, value) ==
  CASE s.ro -> ReadOnly(s)
    [] ~s.ro /\ ~ext4_extract_xattr_name(n) -> Fail(s, "EINVAL")
    [] OTHER -> EXT4_MP_UNLOCK(XattrSetAt(Lookup(EXT4_MP_LOCK(s), path, "any"), n, value))

XattrGetAt(s, n) == IF s.r # "EOK" THEN s ELSE PutXattr(s, ext4_xattr_get(XattrOf(s), n))

ext4_getxattr(s, path, n) ==
  IF ~ext4_extract_xattr_name(n) THEN Fail(s, "EINVAL")
  ELSE EXT4_MP_UNLOCK(XattrGetAt(Lookup(EXT4_MP_LOCK(s), path, "any"), n))

XattrListAt(s) == IF s.r # "EOK" THEN s ELSE PutXattr(s, ext4_xattr_list(XattrOf(s)))

ext4_listxattr(s, path) == EXT4_MP_UNLOCK(XattrListAt(Lookup(EXT4_MP_LOCK(s), path, "any")))

XattrRemoveAt(s, n) ==
  IF s.r # "EOK" THEN EXT4_MP_LOCK(s)
  ELSE EXT4_MP_UNLOCK(PutXattr(s, ext4_xattr_remove(XattrOf(s), n)))

ext4_removexattr(s, path, n) ==
  CASE s.ro -> ReadOnly(s)
    [] ~s.ro /\ ~ext4_extract_xattr_name(n) -> Fail(s, "EINVAL")
    [] OTHER -> XattrRemoveAt(Lookup(EXT4_MP_LOCK(s), path, "any"), n)
=============================================================================
