------------------------------- MODULE Xattr --------------------------------
(***************************************************************************)
(* The extended attributes of an inode (ext4_xattr.c).  They lie in two    *)
(* areas: the rest of the inode's body, and one block.  In an area the     *)
(* entries grow upwards from its start, the values grow downwards from its *)
(* end, and an empty word ends the entries.  Lengths are counted in words  *)
(* of 4 bytes.  An area is a record with the fields                        *)
(*   magic   it has been initialised                                       *)
(*   at      where its entries begin, counted from its base                *)
(*   en      the entries: name, offset of the value from the base (0 for   *)
(*           an empty value) and length of the value                       *)
(*   val     the words of the area that hold values, by their offset       *)
(* The attributes of an inode are a record x with the fields body, acl     *)
(* (magic is FALSE when there is no block), extra (extra_isize is not 0),  *)
(* free (the free blocks of the file system), r, out and odd.  Hashes and  *)
(* checksums are left out, and a block has one owner.                      *)
(***************************************************************************)
EXTENDS Integers, SequencesExt, FiniteSetsExt

CONSTANTS
  AttrLen,      \* words of an attribute's name
  BodyLen,      \* words of the body behind its header
  AclLen        \* words of a block

\* sizeof(struct ext4_xattr_header).
HeaderLen == 8

EXT4_XATTR_LEN(n) == 4 + AttrLen[n]

NoArea == [magic |-> FALSE, at |-> 0, len |-> 0, en |-> <<>>, val |-> [o \in {} |-> 0]]

EmptyArea(at, len) == [magic |-> TRUE, at |-> at, len |-> len, en |-> <<>>, val |-> [o \in at..len - 1 |-> 0]]

Note(x, what) == [x EXCEPT !.odd = @ \cup {what}]

(***************************************************************************)
(* Where the entries end, and where the values begin.                      *)
(***************************************************************************)
LastEntry(a) == FoldLeft(LAMBDA o, e : o + EXT4_XATTR_LEN(e.n), a.at, a.en)

MinOffs(a, end) == Min({a.en[i].offs : i \in {j \in DOMAIN a.en : a.en[j].size # 0}} \cup {end})

ext4_xattr_find_entry(a, n) == IF \E i \in DOMAIN a.en : a.en[i].n = n
                               THEN CHOOSE i \in DOMAIN a.en : a.en[i].n = n ELSE 0

ValueOf(a, i) == [j \in 1..a.en[i].size |-> a.val[a.en[i].offs + j - 1]]

(***************************************************************************)
(* The checks of an area before it is used.  That of the body counts from  *)
(* its header, one word before the base of the offsets.                    *)
(***************************************************************************)
EntriesValid(a, slack) ==
  \A i \in DOMAIN a.en : /\ a.en[i].size = 0 => a.en[i].offs = 0
                         /\ a.en[i].offs + a.en[i].size <= a.len + slack

ext4_xattr_is_block_valid(a) ==
  /\ a.magic
  /\ EntriesValid(a, 0)
  /\ MinOffs(a, a.len) >= LastEntry(a) + 1

ext4_xattr_is_ibody_valid(a) ==
  /\ a.magic
  /\ EntriesValid(a, 1)
  /\ MinOffs(a, a.len + 1) - 1 >= LastEntry(a) + 1

(***************************************************************************)
(* ext4_xattr_set_entry for an entry that the search found at i, or not    *)
(* (0): the value of the entry goes, the values below it move up, and the  *)
(* new value is put below the others.                                      *)
(***************************************************************************)
FreeLen(a, i) ==
  MinOffs(a, a.len) - LastEntry(a) - 1 + IF i = 0 THEN 0 ELSE a.en[i].size + EXT4_XATTR_LEN(a.en[i].n)

MoveValues(a, offs, size, low) ==
  [a EXCEPT !.val = [o \in DOMAIN @ |-> IF o \in low..low + size - 1 THEN 0
                                        ELSE IF o \in low + size..offs + size - 1 THEN @[o - size] ELSE @[o]],
            !.en = [i \in DOMAIN @ |-> IF @[i].offs < offs THEN [@[i] EXCEPT !.offs = @ + size] ELSE @[i]]]

\* The entries that are moved include those without a value.
DropValue(a, e) == IF e.offs = 0 THEN a ELSE MoveValues(a, e.offs, e.size, MinOffs(a, a.len))

OldValueGone(a, i) == IF i = 0 THEN a ELSE [DropValue(a, a.en[i]) EXCEPT !.en[i].size = 0]

NewOffs(a, value) == IF value = <<>> THEN 0 ELSE MinOffs(a, a.len) - Len(value)

PutValue(a, i, offs, value) ==
  [a EXCEPT !.en[i].offs = offs, !.en[i].size = Len(value),
            !.val = [o \in DOMAIN @ |-> IF o \in offs..offs + Len(value) - 1 THEN value[o - offs + 1] ELSE @[o]]]

PutEntry(a, i, n, value) ==
  IF i # 0 THEN PutValue(a, i, NewOffs(a, value), value)
  ELSE PutValue([a EXCEPT !.en = Append(@, [n |-> n, offs |-> 0, size |-> 0])], Len(a.en) + 1,
                NewOffs(a, value), value)

Fits(a, i, n, value) == FreeLen(a, i) >= Len(value) + EXT4_XATTR_LEN(n)

\* Replacing or inserting a value, and removing an entry.
ext4_xattr_set_entry(a, i, n, value) == PutEntry(OldValueGone(a, i), i, n, value)

DropEntry(a, i) == IF i = 0 THEN a ELSE [OldValueGone(a, i) EXCEPT !.en = RemoveAt(@, i)]

ext4_xattr_is_empty(a) == a.en = <<>>

\* Situations in which the area is not what the next call expects.
ZeroMoved(a, i) == /\ i # 0 /\ a.en[i].size # 0
                   /\ \E j \in DOMAIN a.en : j # i /\ a.en[j].size = 0

(***************************************************************************)
(* The block.                                                              *)
(***************************************************************************)
SetInBlock(x, i, n, value) ==
  IF ~Fits(x.acl, i, n, value) THEN [x EXCEPT !.r = "ENOSPC"]
  ELSE [IF ZeroMoved(x.acl, i) THEN Note(x, "empty value moved") ELSE x EXCEPT
          !.acl = ext4_xattr_set_entry(@, i, n, value), !.r = "EOK"]

ext4_xattr_try_alloc_block(x) ==
  IF x.free = 0 THEN [x EXCEPT !.r = "ENOSPC"]
  ELSE [x EXCEPT !.acl = EmptyArea(HeaderLen, AclLen), !.free = @ - 1, !.r = "EOK"]

ext4_xattr_try_free_block(x) == [x EXCEPT !.acl = NoArea, !.free = @ + 1]

FreeIfFailed(x) == IF x.r = "EOK" THEN x ELSE ext4_xattr_try_free_block(x)

FillNewBlock(x, n, value) == IF x.r # "EOK" THEN x ELSE FreeIfFailed(SetInBlock(x, 0, n, value))

ext4_xattr_block_set(x, n, value) ==
  CASE ~x.acl.magic -> FillNewBlock(ext4_xattr_try_alloc_block(x), n, value)
    [] x.acl.magic /\ ~ext4_xattr_is_block_valid(x.acl) -> [x EXCEPT !.r = "EIO"]
    [] OTHER -> SetInBlock(x, ext4_xattr_find_entry(x.acl, n), n, value)

(***************************************************************************)
(* ext4_xattr_set: in the body, where the attribute is or when there is no *)
(* block; in the block otherwise; each is the other's second choice.  A    *)
(* body that does not pass the check is wiped.                             *)
(***************************************************************************)
ext4_xattr_ibody_initialize(x) == [x EXCEPT !.body = EmptyArea(0, BodyLen)]

\* When the block cannot hold the value either, the old value is gone.
BodyEntryGone(x, i) ==
  [IF i # 0 /\ x.r # "EOK" THEN Note(x, "old value lost")
   ELSE IF ZeroMoved(x.body, i) THEN Note(x, "empty value moved") ELSE x
     EXCEPT !.body = DropEntry(@, i)]

\* An attribute that was in the block, too, is searched there by a name
\* that was never set.
SetInBody(x, i, n, value, block_found) ==
  [CASE block_found -> Note(x, "finder not set")
     [] ~block_found /\ ZeroMoved(x.body, i) -> Note(x, "empty value moved")
     [] OTHER -> x EXCEPT !.body = ext4_xattr_set_entry(@, i, n, value), !.r = "EOK"]

BodyFull(x) == IF ext4_xattr_is_ibody_valid(x.body) THEN x ELSE Note(x, "full body")

\* Mutant: the attribute in the body stays when its new value goes to the
\* block.
stale_body_entry(x, i, n, value, block_found) ==
  CASE x.extra /\ Fits(x.body, i, n, value) -> BodyFull(SetInBody(x, i, n, value, block_found))
    [] ~(x.extra /\ Fits(x.body, i, n, value)) /\ ~block_found -> ext4_xattr_block_set(x, n, value)
    [] OTHER -> [x EXCEPT !.r = "ENOSPC"]

TryInsert(x, i, n, value, block_found) ==
  CASE x.extra /\ Fits(x.body, i, n, value) -> BodyFull(SetInBody(x, i, n, value, block_found))
    [] ~(x.extra /\ Fits(x.body, i, n, value)) /\ ~block_found ->
         BodyEntryGone(ext4_xattr_block_set(x, n, value), i)
    [] OTHER -> [x EXCEPT !.r = "ENOSPC"]

AfterBlock(x, n, value) == IF x.r = "ENOSPC" THEN TryInsert(x, 0, n, value, TRUE) ELSE x

SetFrom(x, i, n, value) ==
  IF i = 0 /\ x.acl.magic THEN AfterBlock(ext4_xattr_block_set(x, n, value), n, value)
  ELSE TryInsert(x, i, n, value, FALSE)

Usable(x) == IF ~x.extra \/ ext4_xattr_is_ibody_valid(x.body) THEN x ELSE ext4_xattr_ibody_initialize(x)

SetUsable(x, n, value) ==
  SetFrom(x, IF x.extra THEN ext4_xattr_find_entry(x.body, n) ELSE 0, n, value)

ext4_xattr_set(x, n, value) == SetUsable(Usable(x), n, value)

(***************************************************************************)
(* Reading and removing.                                                   *)
(***************************************************************************)
GetIn(x, a, i) ==
  IF i = 0 THEN [x EXCEPT !.r = "ENODATA"] ELSE [x EXCEPT !.out = ValueOf(a, i), !.r = "EOK"]

GetInBlock(x, n) ==
  CASE ~x.acl.magic -> [x EXCEPT !.r = "ENODATA"]
    [] x.acl.magic /\ ~ext4_xattr_is_block_valid(x.acl) -> [x EXCEPT !.r = "EIO"]
    [] OTHER -> GetIn(x, x.acl, ext4_xattr_find_entry(x.acl, n))

InBody(x, n) == x.extra /\ ext4_xattr_find_entry(x.body, n) # 0

ext4_xattr_get(x, n) ==
  CASE x.extra /\ ~ext4_xattr_is_ibody_valid(x.body) -> [x EXCEPT !.r = "EIO"]
    [] (x.extra => ext4_xattr_is_ibody_valid(x.body)) /\ InBody(x, n) ->
         GetIn(x, x.body, ext4_xattr_find_entry(x.body, n))
    [] OTHER -> GetInBlock(x, n)

NamesIn(a) == [i \in DOMAIN a.en |-> a.en[i].n]

ext4_xattr_list(x) ==
  IF x.acl.magic /\ ~ext4_xattr_is_block_valid(x.acl) THEN [x EXCEPT !.r = "EIO"]
  ELSE [x EXCEPT !.r = "EOK",
                 !.out = (IF x.extra /\ ext4_xattr_is_ibody_valid(x.body) THEN NamesIn(x.body) ELSE <<>>)
                         \o NamesIn(x.acl)]

FreeIfEmpty(x) == IF ext4_xattr_is_empty(x.acl) THEN ext4_xattr_try_free_block(x) ELSE x

RemoveInBlock(x, i) ==
  IF i = 0 THEN [x EXCEPT !.r = "ENODATA"]
  ELSE FreeIfEmpty([IF ZeroMoved(x.acl, i) THEN Note(x, "empty value moved") ELSE x EXCEPT
                      !.acl = DropEntry(@, i), !.r = "EOK"])

\* Outside the block the search context is one that was never set.
ext4_xattr_remove(x, n) ==
  CASE x.extra /\ ~ext4_xattr_is_ibody_valid(x.body) -> [x EXCEPT !.r = "EIO"]
    [] (x.extra => ext4_xattr_is_ibody_valid(x.body)) /\ ~InBody(x, n) /\ x.acl.magic ->
         IF ext4_xattr_is_block_valid(x.acl) THEN RemoveInBlock(x, ext4_xattr_find_entry(x.acl, n))
         ELSE [x EXCEPT !.r = "EIO"]
    [] OTHER -> Note([x EXCEPT !.r = "undefined"], "finder not set")
=============================================================================
