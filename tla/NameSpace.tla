------------------------------ MODULE NameSpace -----------------------------
(***************************************************************************)
(* What the calls of a file system promise, without blocks, entries, link  *)
(* counts or an index.  fs holds                                           *)
(*   node   the nodes by number: type, names (of a directory), data (the   *)
(*          bytes of a file or the text of a link), attributes and         *)
(*          extended attributes; 1 is the root                             *)
(*   h      the open files: node (0 when closed) and position              *)
(*   ro     it is mounted read-only                                        *)
(* and call the last call: its name and arguments, result and output.      *)
(* A step is one call, with one of its outcomes.  The file system may run  *)
(* out of space in any call that needs some; a path that is created may    *)
(* then be there up to some name.                                          *)
(***************************************************************************)
EXTENDS Integers, SequencesExt, FiniteSetsExt

CONSTANTS
  Number,       \* numbers of nodes
  NewNode(_)    \* a new node of a type

VARIABLES fs, call

Out(f, r) == [fs |-> f, r |-> r, out |-> <<>>]

Gives(f, out) == [fs |-> f, r |-> "EOK", out |-> out]

IsDirectory(f, i) == i \in DOMAIN f.node /\ f.node[i].t = "dir"

(***************************************************************************)
(* Names.  A node lives as long as a path leads to it.                     *)
(***************************************************************************)
Entry(f, i, n) ==
  IF IsDirectory(f, i) /\ n \in DOMAIN f.node[i].names THEN f.node[i].names[n] ELSE 0

Resolve(f, path) == FoldLeft(LAMBDA i, n : Entry(f, i, n), 1, path)

Named(f, is) == is \cup UNION {{f.node[i].names[n] : n \in DOMAIN f.node[i].names} : i \in is}

Alive(f) == FoldLeft(LAMBDA is, i : Named(f, is), {1}, SetToSeq(DOMAIN f.node))

Collected(f) == [f EXCEPT !.node = [i \in Alive(f) |-> f.node[i]]]

AddName(f, p, n, i) ==
  [f EXCEPT !.node[p].names = [m \in DOMAIN @ \cup {n} |-> IF m = n THEN i ELSE @[m]]]

DropName(f, p, n) == [f EXCEPT !.node[p].names = [m \in DOMAIN @ \ {n} |-> @[m]]]

AddNode(f, p, n, i, t) ==
  AddName([f EXCEPT !.node = [j \in DOMAIN @ \cup {i} |-> IF j = i THEN NewNode(t) ELSE @[j]]], p, n, i)

Parent(f, path) == Resolve(f, Front(path))

(***************************************************************************)
(* A walk that creates what is missing: all that it may lead to.           *)
(***************************************************************************)
Walk(f) == [fs |-> f, at |-> 1, r |-> "EOK"]

Created(w, n, t) ==
  {[w EXCEPT !.r = "ENOSPC"]} \cup
  {[w EXCEPT !.fs = AddNode(w.fs, w.at, n, i, t), !.at = i] : i \in Number \ DOMAIN w.fs.node}

Passed(w, i, t) ==
  IF w.fs.node[i].t = t THEN {[w EXCEPT !.at = i]} ELSE {[w EXCEPT !.r = "ENOENT"]}

WalkStep(w, n, t) ==
  IF w.r # "EOK" THEN {w}
  ELSE IF Entry(w.fs, w.at, n) = 0 THEN Created(w, n, t) ELSE Passed(w, Entry(w.fs, w.at, n), t)

Walked(f, path, t) ==
  FoldLeft(LAMBDA ws, i : UNION {WalkStep(w, path[i], IF i = Len(path) THEN t ELSE "dir") : w \in ws},
           {Walk(f)}, [i \in DOMAIN path |-> i])

\* What a call does at the end of the walk.
Make(c, f, After(_, _)) ==
  UNION {IF w.r = "EOK" THEN After(w.fs, w.at) ELSE {Out(w.fs, w.r)} : w \in Walked(f, c.path, c.t)}

Found(c, f, After(_)) ==
  IF Resolve(f, c.path) = 0 \/ c.t \notin {"any", f.node[Resolve(f, c.path)].t} THEN {Out(f, "ENOENT")}
  ELSE After(Resolve(f, c.path))

(***************************************************************************)
(* Links, renaming, removal.                                               *)
(***************************************************************************)
Target(c, f, After(_)) ==
  CASE c.to = <<>> -> {Out(f, "EINVAL")}
    [] c.to # <<>> /\ ~IsDirectory(f, Parent(f, c.to)) -> {Out(f, "ENOENT")}
    [] c.to # <<>> /\ IsDirectory(f, Parent(f, c.to)) /\ Resolve(f, c.to) # 0 -> {Out(f, "EEXIST")}
    [] OTHER -> {Out(f, "ENOSPC"), Out(After(Parent(f, c.to)), "EOK")}

Link(c, f) ==
  Found(c, f, LAMBDA i : IF IsDirectory(f, i) THEN {Out(f, "EINVAL")}
                         ELSE Target(c, f, LAMBDA p : AddName(f, p, Last(c.to), i)))

Rename(c, f) ==
  Found(c, f, LAMBDA i : Target(c, f, LAMBDA p :
    DropName(AddName(f, p, Last(c.to), i), Parent(f, c.path), Last(c.path))))

Unlinked(f, path) == Out(Collected(DropName(f, Parent(f, path), Last(path))), "EOK")

\* ext4_fremove leaves directories alone, ext4_dir_rm takes all below.
RemoveFile(c, f) == Found(c, f, LAMBDA i : {IF IsDirectory(f, i) THEN Out(f, "EOK") ELSE Unlinked(f, c.path)})

RemoveTree(c, f) == Found(c, f, LAMBDA i : {Unlinked(f, c.path)})

(***************************************************************************)
(* Contents.                                                               *)
(***************************************************************************)
Written(data, pos, n, v) ==
  [i \in 1..Max({Len(data), pos + n}) |-> IF i \in pos + 1..pos + n THEN v ELSE data[i]]

Shortened(data, size) == SubSeq(data, 1, Min({Len(data), size}))

Emptied(f, i) == [f EXCEPT !.node[i].data = <<>>]

Open(c, f) ==
  IF c.creat
  THEN Make(c, f, LAMBDA g, i : {Out([(IF c.trunc THEN Emptied(g, i) ELSE g) EXCEPT !.h[c.j] =
                      [ino |-> i, pos |-> IF c.append THEN Len(g.node[i].data) ELSE 0]], "EOK")})
  ELSE Found(c, f, LAMBDA i : {Out([f EXCEPT !.h[c.j] = [ino |-> i, pos |-> 0]], "EOK")})

\* A write of no bytes does not say how many it wrote.
Write(c, f) ==
  IF c.len = 0 THEN {Out(f, "EOK")} ELSE
  {Gives([f EXCEPT !.node[f.h[c.j].ino].data = Written(@, f.h[c.j].pos, n, c.v),
                   !.h[c.j].pos = @ + n], <<n>>) : n \in 0..c.len}

Read(c, f) ==
  IF c.denied THEN {Out(f, "EPERM")}
  ELSE LET rest == Shortened(f.node[f.h[c.j].ino].data, f.h[c.j].pos + c.len)
           got  == [i \in 1..Len(rest) - f.h[c.j].pos |-> rest[f.h[c.j].pos + i]]
       IN {Gives([f EXCEPT !.h[c.j].pos = @ + Len(got)], got)}

Truncate(c, f) ==
  {Out([f EXCEPT !.node[f.h[c.j].ino].data = Shortened(@, c.len),
                 !.h[c.j].pos = Min({@, c.len})], "EOK"),
   Out([f EXCEPT !.node[f.h[c.j].ino].data = Shortened(@, c.len)], "EOK")}

Seek(c, f) == {Out(f, "EINVAL")} \cup {Out([f EXCEPT !.h[c.j].pos = p], "EOK") : p \in {c.pos}}

Symlink(c, f) ==
  Make(c, f, LAMBDA g, i :
    CASE c.text = <<>> -> {Out(g, "EOK")}
      [] c.long -> {Out(g, "EINVAL")}
      [] OTHER -> {Out([g EXCEPT !.node[i].data = c.text], "EOK"), Out(Emptied(g, i), "ENOSPC")})

Readlink(c, f) == Found(c, f, LAMBDA i : {Gives(f, Shortened(f.node[i].data, c.len))})

(***************************************************************************)
(* Attributes.                                                             *)
(***************************************************************************)
SetAttr(c, f) == Found(c, f, LAMBDA i : {Out([f EXCEPT !.node[i].attr[c.a] = c.v], "EOK")})

GetAttr(c, f) == Found(c, f, LAMBDA i : {Gives(f, [j \in DOMAIN c.as |-> f.node[i].attr[c.as[j]]])})

SetX(f, i, n, v) == [f EXCEPT !.node[i].xattr = [m \in DOMAIN @ \cup {n} |-> IF m = n THEN v ELSE @[m]]]

SetXattr(c, f) == Found(c, f, LAMBDA i : {Out(f, "ENOSPC"), Out(SetX(f, i, c.n, c.v), "EOK")})

\* The attributes of an inode that never had one cannot be read.
Missing(f, i) == {Out(f, "ENODATA")} \cup IF DOMAIN f.node[i].xattr = {} THEN {Out(f, "EIO")} ELSE {}

GetXattr(c, f) ==
  Found(c, f, LAMBDA i : IF c.n \in DOMAIN f.node[i].xattr THEN {Gives(f, f.node[i].xattr[c.n])}
                         ELSE Missing(f, i))

ListXattr(c, f) == Found(c, f, LAMBDA i : {Gives(f, q) : q \in SetToSeqs(DOMAIN f.node[i].xattr)})

DropXattr(c, f) ==
  Found(c, f, LAMBDA i :
    IF c.n \in DOMAIN f.node[i].xattr
    THEN {Out([f EXCEPT !.node[i].xattr = [m \in DOMAIN @ \ {c.n} |-> @[m]]], "EOK")} ELSE Missing(f, i))

(***************************************************************************)
(* The calls of the kernel, which name a node by a directory's number and  *)
(* a name.                                                                 *)
(***************************************************************************)
KCreate(c, f) ==
  IF Entry(f, c.p, c.n) # 0 THEN {Out(f, "EEXIST")}
  ELSE {Out(f, "ENOSPC")} \cup {Out(AddNode(f, c.p, c.n, i, c.t), "EOK") : i \in Number \ DOMAIN f.node}

KLink(c, f) ==
  IF IsDirectory(f, c.i) THEN {Out(f, "EISDIR")}
  ELSE {Out(f, "ENOSPC"), Out(AddName(f, c.p, c.n, c.i), "EOK")}

Busy(f, i) == IsDirectory(f, i) /\ DOMAIN f.node[i].names # {}

KUnlink(c, f) ==
  CASE Entry(f, c.p, c.n) = 0 -> {Out(f, "ENOENT")}
    [] Entry(f, c.p, c.n) # 0 /\ Busy(f, Entry(f, c.p, c.n)) -> {Out(f, "ENOTEMPTY")}
    [] OTHER -> {Out(Collected(DropName(f, c.p, c.n)), "EOK")}

\* What had the new name is replaced.
KRename(c, f) ==
  CASE Entry(f, c.q, c.m) # 0 /\ Busy(f, Entry(f, c.q, c.m)) -> {Out(f, "ENOTEMPTY")}
    [] ~Busy(f, Entry(f, c.q, c.m)) /\ Entry(f, c.p, c.n) = 0 -> {Out(f, "ENOENT")}
    [] OTHER -> {Out(Collected(DropName(AddName(f, c.q, c.m, Entry(f, c.p, c.n)), c.p, c.n)), "EOK")}

(***************************************************************************)
(* The specification.                                                      *)
(***************************************************************************)
Outcomes(c, f) ==
  CASE c.op = "make"     -> Make(c, f, LAMBDA g, i : {Out(g, "EOK")})
    [] c.op = "mknod" /\ c.t \notin {"chr", "fifo"} -> {Out(f, "EINVAL")}
    [] c.op = "mknod" /\ c.t \in {"chr", "fifo"} -> Make(c, f, LAMBDA g, i : {Out([g EXCEPT !.node[i].attr.dev = c.dev], "EOK")})
    [] c.op = "find"     -> Found(c, f, LAMBDA i : {Out(f, "EOK")})
    [] c.op = "link"     -> Link(c, f)
    [] c.op = "rename"   -> Rename(c, f)
    [] c.op = "remove"   -> RemoveFile(c, f)
    [] c.op = "rm"       -> RemoveTree(c, f)
    [] c.op = "open"     -> Open(c, f)
    [] c.op = "close"    -> {Out([f EXCEPT !.h[c.j] = [ino |-> 0, pos |-> 0]], "EOK")}
    [] c.op = "write"    -> Write(c, f)
    [] c.op = "read"     -> Read(c, f)
    [] c.op = "truncate" -> Truncate(c, f)
    [] c.op = "seek"     -> Seek(c, f)
    [] c.op = "symlink"  -> Symlink(c, f)
    [] c.op = "readlink" -> Readlink(c, f)
    [] c.op = "setattr"  -> SetAttr(c, f)
    [] c.op = "getattr"  -> GetAttr(c, f)
    [] c.op = "setxattr" -> SetXattr(c, f)
    [] c.op = "getxattr" -> GetXattr(c, f)
    [] c.op = "listxattr" -> ListXattr(c, f)
    [] c.op = "dropxattr" -> DropXattr(c, f)
    [] c.op = "kfind"    -> {Out(f, IF Entry(f, c.p, c.n) = 0 THEN "ENOENT" ELSE "EOK")}
    [] c.op = "kcreate"  -> KCreate(c, f)
    [] c.op = "klink"    -> KLink(c, f)
    [] c.op = "kunlink"  -> KUnlink(c, f)
    [] c.op = "krename"  -> KRename(c, f)
    [] c.op \in {"list", "none"} -> {Out(f, "EOK")}

Changes(c) ==
  \/ c.op \in {"make", "mknod", "link", "rename", "remove", "rm", "write", "truncate", "symlink",
               "setattr", "setxattr", "dropxattr"}
  \/ c.op = "open" /\ c.creat

Allowed(c, f) == IF f.ro /\ Changes(c) THEN {Out(f, "EROFS")} ELSE Outcomes(c, f)

Init == Collected(fs) = fs /\ call = [op |-> "none", r |-> "EOK", out |-> <<>>]

Next == [fs |-> fs', r |-> call'.r, out |-> call'.out] \in Allowed(call', fs)

Spec == Init /\ [][Next]_<<fs, call>>
=============================================================================
