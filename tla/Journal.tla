------------------------------ MODULE Journal ------------------------------
(***************************************************************************)
(* A file system over lwext4's journal and block cache, with crashes        *)
(* (ext4_journal.c, ext4_trans.c, ext4_bcache.c, ext4_blockdev.c, and the   *)
(* calls ext4.c and ext4_balloc.c make into them).  Each action is one call *)
(* of the library; the device sees its writes one by one, and the power may *)
(* fail after any of them.                                                 *)
(*                                                                         *)
(* Block Bm is the allocation bitmap: it says which of the other blocks are *)
(* free, metadata or file data.  Every allocation and release changes it in *)
(* the same transaction.                                                   *)
(***************************************************************************)
EXTENDS Recovery

CONSTANTS Block,        \* the blocks besides the bitmap
          Value,        \* what a block may hold
          Roles0,       \* their roles when the file system is made
          Admitted,     \* the Situations that may arise
          Workloads,    \* the calls to make, as sequences of records op, b, v
          MaxCrashes, MaxStops

VARIABLES k, image

Bm == 1

Bitmap(roles) == [t |-> "bitmap", roles |-> roles]

Home == {Bm} \cup Block

LogBlocks == {jbd_inode_bmap(i) : i \in 0 .. (JLen - 1)}

\* Situations the library's callers can bring about and the journal does not
\* handle: aborting a transaction that released a block; releasing a block
\* the transaction changed before; a session after a clean stop; a crash while
\* the log is replayed though a stop, itself cut short, has cleared the flag.
Situations == {"abort after free", "free after change", "restart",
               "unflagged replay"}

ASSUME JournalAssumption ==
  /\ Admitted \subseteq Situations
  /\ Block \subseteq Nat \ {ESB, Bm}
  /\ LogBlocks \cap ({ESB} \cup Home) = {}
  /\ Roles0 \in [Block -> {"free", "meta", "data"}]

\* The file system freshly made: every block zero, the log empty.
Disk0 == [lba \in {ESB} \cup Home \cup LogBlocks |->
            IF lba = ESB THEN [t |-> "esb", recover |-> FALSE]
            ELSE IF lba = Bm THEN Bitmap(Roles0)
            ELSE IF lba = jbd_inode_bmap(0) THEN [t |-> "jsb", start |-> 0, sequence |-> 0]
            ELSE Raw(NULL)]

\* What a mount starts from: the disk, and nothing in memory.
Fresh(disk) == [disk |-> disk, wr |-> <<>>, bufs |-> <<>>, lru |-> <<>>,
                dirty_list |-> <<>>, write_back |-> 0, jdirty |-> FALSE,
                jsb |-> [start |-> 0, sequence |-> 0],
                journal |-> [start |-> 0, last |-> 0, trans_id |-> 0,
                             alloc_trans_id |-> 0],
                cp_queue |-> <<>>, tr |-> <<>>, jb |-> <<>>, rec |-> <<>>, curr |-> 0]

Control(s) == [mode |-> s.mode, load |-> s.load, pc |-> s.pc, freed |-> s.freed,
               crashes |-> s.crashes, stops |-> s.stops]

InitK == \E l \in DOMAIN Workloads :
           k = Fresh(Disk0) @@ [mode |-> "down", load |-> l, pc |-> 1, freed |-> {},
                                crashes |-> 0, stops |-> 0]

\* After a crash the workload goes on with the next transaction.
Resume(s) ==
  LET next == {i \in s.pc .. Len(Workloads[s.load]) : Workloads[s.load][i].op = "begin"}
  IN  IF next = {} THEN Len(Workloads[s.load]) + 1
      ELSE CHOOSE i \in next : \A j \in next : i <= j

ApplyWrites(disk, wr) == FoldLeft(LAMBDA d, w : [d EXCEPT ![w[1]] = w[2]], disk, wr)

Returns(s) == k' = [s EXCEPT !.wr = <<>>]

\* The power fails after n of the call's writes.
Crashes(s) ==
  /\ k.crashes < MaxCrashes
  /\ \E n \in 0 .. Len(s.wr) :
       k' = Fresh(ApplyWrites(k.disk, SubSeq(s.wr, 1, n)))
              @@ [Control(s) EXCEPT !.mode = "down", !.pc = Resume(s), !.freed = {},
                                   !.crashes = @ + 1]

Run(s) == Returns(s) \/ Crashes(s)

(***************************************************************************)
(* Sessions.                                                               *)
(***************************************************************************)
RunRecovery(s) ==
  \/ Returns(s)
  \/ /\ k.disk[ESB].recover \/ "unflagged replay" \in Admitted
     /\ Crashes(s)

Recover ==
  /\ k.mode = "down"
  /\ RunRecovery([jbd_put_fs(jbd_recover(jbd_get_fs(k))) EXCEPT !.mode = "recovered"])

Start ==
  /\ k.mode = "recovered" /\ (k.stops > 0 => "restart" \in Admitted)
  /\ Run([jbd_journal_start(jbd_get_fs(k)) EXCEPT !.mode = "up"])

Unmounted(s) == [wr |-> s.wr] @@ Fresh(s.disk)
                  @@ [Control(s) EXCEPT !.mode = "down", !.stops = @ + 1]

\* ext4_journal_stop and ext4_umount; the write-back counter goes with them.
Stop ==
  /\ k.mode = "up" /\ k.curr = 0 /\ k.stops < MaxStops
  /\ Run(Unmounted(ext4_bcache_cleanup(jbd_put_fs(jbd_journal_stop(k)))))

CacheWriteBack ==
  /\ k.mode = "up"
  /\ Run(ext4_block_cache_write_back(k, k.write_back = 0))

CacheFlush ==
  /\ k.mode = "up" /\ k.dirty_list # <<>>
  /\ Run(ext4_block_cache_flush(k))

(***************************************************************************)
(* The file system's calls, in the order of the workload.  A call whose     *)
(* block is not in the role it needs fails and changes nothing.            *)
(***************************************************************************)
Load == Workloads[k.load]

Op == Load[k.pc]

Running(op) == k.mode = "up" /\ k.pc <= Len(Load) /\ Op.op = op

Call(s) == Run([s EXCEPT !.pc = @ + 1])

TransStart ==
  /\ Running("begin") /\ k.curr = 0
  /\ Call(jbd_journal_new_trans(k))

Closed(s) == [s EXCEPT !.curr = 0, !.freed = {}]

TransStop ==
  /\ Running("end") /\ k.curr # 0
  /\ Call(Closed(jbd_journal_commit_trans(k, k.curr)))

TransAbort ==
  /\ Running("end") /\ k.curr # 0
  /\ k.freed # {} => "abort after free" \in Admitted
  /\ Call(Closed(jbd_journal_free_trans(k, k.curr, TRUE)))

Roles(s) == ReadBlock(s, Bm).roles

SetRole(s, b, role) == PutMeta(s, Bm, Bitmap([Roles(s) EXCEPT ![b] = role]))

Has(role) == Roles(k)[Op.b] = role

Change ==
  /\ Running("change") /\ Has("meta")
  /\ Call(PutMeta(k, Op.b, Raw(Op.v)))

AllocMeta ==
  /\ Running("alloc") /\ Has("free")
  /\ Call(PutMeta(SetRole(k, Op.b, "meta"), Op.b, Raw(Op.v)))

\* No call releases a block and takes it for file data in one transaction.
AllocData ==
  /\ Running("alloc data") /\ Has("free") /\ Op.b \notin k.freed
  /\ Call(ext4_blocks_set_direct(SetRole(k, Op.b, "data"), Op.b, Raw(Op.v)))

ChangedInTrans(b) == \E j \in DOMAIN k.jb : k.jb[j].lba = b /\ k.jb[j].trans = k.curr

\* ext4_balloc_free_block
Free ==
  /\ Running("free") /\ ~Has("free")
  /\ ChangedInTrans(Op.b) => "free after change" \in Admitted
  /\ Call([ext4_bcache_invalidate_lba(
              ext4_trans_try_revoke_block(SetRole(k, Op.b, "free"), Op.b), Op.b, 1)
              EXCEPT !.freed = @ \cup {Op.b}])

WriteData ==
  /\ Running("write data") /\ Has("data")
  /\ Call(ext4_blocks_set_direct(k, Op.b, Raw(Op.v)))

Needs == [change |-> {"meta"}, alloc |-> {"free"}, free |-> {"meta", "data"}]
           @@ ("alloc data" :> {"free"}) @@ ("write data" :> {"data"})

Fails ==
  /\ k.mode = "up" /\ k.pc <= Len(Load) /\ Op.op \in DOMAIN Needs
  /\ Roles(k)[Op.b] \notin Needs[Op.op]
  /\ k' = [k EXCEPT !.pc = @ + 1]

Step == Recover \/ Start \/ Stop \/ CacheWriteBack \/ CacheFlush
          \/ TransStart \/ TransStop \/ TransAbort
          \/ Change \/ AllocMeta \/ AllocData \/ Free \/ WriteData \/ Fails

(***************************************************************************)
(* What the disk and the cache amount to: image is a function of k.         *)
(***************************************************************************)
Replay(disk) == jbd_recover(jbd_get_fs(Fresh(disk))).disk

\* The roles and contents of the blocks, as read finds them.
Image(read) ==
  LET roles == read[Bm].roles
  IN  [b \in Block |-> IF roles[b] = "free" THEN <<"free", 0>>
                       ELSE <<roles[b], read[b].v>>]

\* The image a crash now would leave, once the log is replayed; and the one
\* the running file system sees.
Durable(s) == Image(Replay(s.disk))

Visible(s, durable) ==
  IF s.mode # "up" THEN durable
  ELSE LET roles == Roles(s)
       IN  Image([b \in Home |-> IF b = Bm THEN Bitmap(roles)
                                 ELSE IF roles[b] = "data" THEN s.disk[b]
                                 ELSE ReadBlock(s, b)])

ImagesOf(s, durable) == [durable |-> durable, visible |-> Visible(s, durable)]

Images(s) == ImagesOf(s, Durable(s))

Next == Step /\ image' = Images(k')

Init == InitK /\ image = Images(k)

vars == <<k, image>>

Spec == Init /\ [][Next]_vars

(***************************************************************************)
(* Properties.                                                             *)
(***************************************************************************)
Store == INSTANCE AtomicStore WITH store <- image.durable, view <- image.visible,
                                   open <- k.curr # 0

\* The journal implements the atomic store.
ImplementsAtomicStore == Store!Spec

\* Nothing but a commit and a write of file data changes the durable image:
\* an open transaction is not replayed, whatever the cache has written home.
OnlyCommitsAreDurable ==
  [][\/ image.durable' = image.durable
     \/ TransStop
     \/ WriteData]_vars

\* Without the recovery flag the blocks in place are already the durable image.
RecoverFlagHonest == ~k.disk[ESB].recover => Image(k.disk) = image.durable

\* Between calls, outside a transaction, no buffer is referenced.
NoLeakedReferences ==
  k.curr = 0 => \A lba \in DOMAIN k.bufs : k.bufs[lba].refctr = 0
=============================================================================
