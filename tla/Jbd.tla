-------------------------------- MODULE Jbd --------------------------------
(***************************************************************************)
(* lwext4's journal (ext4_journal.c) and the transaction layer over it      *)
(* (ext4_trans.c): building, committing and aborting a transaction,        *)
(* flushing the log when it is full or the journal stops, and replaying it  *)
(* after a crash.  The state record of Bcache gains                        *)
(*   curr  fs->curr_trans                                                  *)
(* A header block of the log is a record with its type and sequence; block  *)
(* checksums always verify here, because a block is written whole.         *)
(***************************************************************************)
EXTENDS Bcache

CONSTANTS TagsPerBlock,         \* tags a descriptor block has room for
          RevokesPerBlock       \* addresses a revoke block has room for

\* A block of the file system whose first word is JBD_MAGIC_NUMBER has type
\* "magic"; in the log that word is cleared, and the tag says so.
Escape(data)   == [data EXCEPT !.t = "raw"]
Unescape(data) == [data EXCEPT !.t = "magic"]

Desc(seq)   == [t |-> "desc", sequence |-> seq, tags |-> <<>>]
Revoke(seq) == [t |-> "revoke", sequence |-> seq, blocks |-> <<>>]
CommitHdr(seq) == [t |-> "commit", sequence |-> seq]

SetData(s, lba, data) == [s EXCEPT !.bufs[lba].data = data]

(***************************************************************************)
(* Blocks of the log, through the cache: written when given back, and not   *)
(* kept.                                                                   *)
(***************************************************************************)
jbd_block_get(s, iblock) ==
  LET lba == jbd_inode_bmap(iblock)
  IN  [ext4_block_get(s, lba) EXCEPT !.bufs[lba].flush = TRUE, !.bufs[lba].tmp = TRUE]

jbd_block_get_noread(s, iblock) ==
  LET lba == jbd_inode_bmap(iblock)
  IN  [ext4_block_get_noread(s, lba) EXCEPT !.bufs[lba].flush = TRUE]

jbd_block_set(s, iblock) == ext4_block_set(s, jbd_inode_bmap(iblock))

\* A block of the log about to be written, holding content.
OpenLogBlock(s, iblock, content) ==
  LET lba == jbd_inode_bmap(iblock)
  IN  [ext4_bcache_set_dirty(SetData(jbd_block_get_noread(s, iblock), lba, content), lba)
         EXCEPT !.bufs[lba].tmp = TRUE]

LogContent(s, iblock) == s.bufs[jbd_inode_bmap(iblock)].data

(***************************************************************************)
(* Making room: jbd_journal_flush_trans writes what is left of a committed  *)
(* transaction home, from the cache when the cached content is still the    *)
(* transaction's, from the log otherwise.                                  *)
(***************************************************************************)
CopyHome(s, lba, iblock) ==
  ext4_blocks_set_direct(jbd_block_set(s, iblock), lba, LogContent(s, iblock))

WriteHome(s, trans, lba, j, buf) ==
  IF buf /\ s.bufs[lba].uptodate /\ s.rec[lba].trans = trans
  THEN ext4_block_flush_buf(s, lba)
  ELSE jbd_trans_end_write(CopyHome(jbd_block_get(s, s.jb[j].jbd_lba), lba, s.jb[j].jbd_lba),
                           IF buf THEN lba ELSE NULL, j)

\* Mutant: the buffer looked up is not given back.
buf_kept(s, lba, buf) == s

PutBuf(s, lba, buf) == IF buf THEN ext4_block_set(s, lba) ELSE s

FlushJbdBuf(s, trans, j) ==
  LET lba == s.jb[j].lba
      buf == ext4_buf_lookup(s, lba)
  IN  PutBuf(WriteHome(ext4_bcache_find_get(s, lba), trans, lba, j, buf), lba, buf)

jbd_journal_flush_trans(s, trans) ==
  FoldLeft(LAMBDA t, j : FlushJbdBuf(t, trans, j), s, s.tr[trans].buf_queue)

(***************************************************************************)
(* jbd_journal_purge_cp_trans with flush = TRUE; PurgeWritten of Bcache    *)
(* is the case flush = FALSE.                                              *)
(***************************************************************************)
PurgeHead(s) ==
  LET t == s.tr[Head(s.cp_queue)]
  IN  IF t.data_cnt \in {0, t.written_cnt} THEN jbd_journal_write_sb(RetireHead(s))
      ELSE jbd_journal_flush_trans(s, Head(s.cp_queue))

RECURSIVE jbd_journal_purge_cp_trans(_, _, _)
jbd_journal_purge_cp_trans(s, once, done) ==
  IF s.cp_queue = <<>> \/ done THEN s
  ELSE jbd_journal_purge_cp_trans(PurgeHead(s), once, once)

\* The block allocated is the one journal->last names on entry.
jbd_journal_alloc_block(s, trans) ==
  LET s1 == [s EXCEPT !.journal.last = wrap(@ + 1),
                      !.tr[trans].alloc_blocks = @ + 1]
  IN  IF s1.journal.last = s1.journal.start
      THEN jbd_journal_purge_cp_trans(s1, TRUE, FALSE)
      ELSE s1

(***************************************************************************)
(* Adding a block to a transaction.                                        *)
(***************************************************************************)
jbd_trans_block_rec_lookup(s, lba) == lba \in DOMAIN s.rec

jbd_trans_insert_block_rec(s, trans, lba) ==
  IF jbd_trans_block_rec_lookup(s, lba) THEN jbd_trans_change_ownership(s, lba, trans)
  ELSE [s EXCEPT !.rec = @ @@ (lba :> [trans |-> trans, queue |-> <<>>]),
                 !.tr[trans].tbrec = @ \cup {lba}]

\* Mutant: the transaction does not keep the buffer in the cache.
dirty_unpinned(s, trans, lba) ==
  LET j == FreshIn(s.jb)
      added == [jbd_trans_insert_block_rec(s, trans, lba) EXCEPT
                  !.jb = @ @@ (j :> [lba |-> lba, trans |-> trans, jbd_lba |-> 0]),
                  !.rec[lba].queue = Append(@, j), !.tr[trans].data_cnt = @ + 1,
                  !.tr[trans].buf_queue = <<j>> \o @, !.tr[trans].revoke = @ \ {lba}]
  IN  ext4_bcache_set_dirty(SetEndWrite(added, lba, j), lba)

jbd_trans_set_block_dirty(s, trans, lba) ==
  LET e  == s.bufs[lba].end_write
      j  == FreshIn(s.jb)
      added == [jbd_trans_insert_block_rec(s, trans, lba) EXCEPT
                  !.jb = @ @@ (j :> [lba |-> lba, trans |-> trans, jbd_lba |-> 0]),
                  !.rec[lba].queue = Append(@, j),
                  !.bufs[lba].refctr = @ + 1,
                  !.tr[trans].data_cnt = @ + 1,
                  !.tr[trans].buf_queue = <<j>> \o @,
                  !.tr[trans].revoke = @ \ {lba}]
  IN  IF e # NULL /\ s.jb[e].trans = trans THEN s
      ELSE ext4_bcache_set_dirty(SetEndWrite(added, lba, j), lba)

jbd_trans_revoke_block(s, trans, lba) ==
  [s EXCEPT !.tr[trans].revoke = @ \cup {lba}]

jbd_trans_try_revoke_block(s, trans, lba) ==
  IF /\ jbd_trans_block_rec_lookup(s, lba)
     /\ s.rec[lba].trans = trans => Len(s.rec[lba].queue) > 1
  THEN jbd_trans_revoke_block(s, trans, lba)
  ELSE s

(***************************************************************************)
(* jbd_trans_finish_callback with abort = TRUE: the block returns to the    *)
(* last transaction that has not written it home, and unless it is revoked  *)
(* gets that transaction's content back from the log.                      *)
(***************************************************************************)
RollBack(s, lba, j, iblock) ==
  LET returned == jbd_trans_change_ownership(SetData(s, lba, LogContent(s, iblock)),
                                             lba, s.jb[j].trans)
  IN  ext4_bcache_set_dirty(SetEndWrite(returned, lba, j), lba)

CopyBack(s, lba, j, iblock) ==
  ext4_block_set(
    jbd_block_set(RollBack(jbd_block_get(ext4_block_get_noread(s, lba), iblock),
                           lba, j, iblock), iblock), lba)

FinishAborted(s, trans, lba, revoke) ==
  LET j == Last(s.rec[lba].queue)
  IN  IF s.rec[lba].trans # trans \/ s.rec[lba].queue = <<>> THEN s
      ELSE IF revoke THEN jbd_trans_change_ownership(s, lba, s.jb[j].trans)
      ELSE CopyBack(s, lba, j, s.jb[j].jbd_lba)

Forget(s, trans, j) ==
  [s EXCEPT !.tr[trans].buf_queue = Drop(@, j), !.jb = Without(@, j)]

Unqueue(s, lba, j) == [s EXCEPT !.rec[lba].queue = Drop(@, j)]

\* jbd_journal_free_trans with abort = TRUE, for one jbd_buf.
AbortJbdBuf(s, trans, j) ==
  LET lba == s.jb[j].lba
      clean == ext4_bcache_clear_dirty(SetEndWrite(s, lba, NULL), lba)
  IN  Forget(FinishAborted(Unqueue(ext4_block_set(clean, lba), lba, j), trans, lba, FALSE),
             trans, j)

jbd_journal_free_trans(s, trans, abort) ==
  FreeDoneTrans(
    FoldLeft(LAMBDA t, j : AbortJbdBuf(t, trans, j), s,
             IF abort THEN s.tr[trans].buf_queue ELSE <<>>), trans)

(***************************************************************************)
(* jbd_journal_prepare: log the blocks of the transaction.  The content of  *)
(* each goes to a block of its own at once; the descriptor with their tags  *)
(* follows when it is full or the last.                                    *)
(***************************************************************************)
IsDirty(s, j) == s.bufs[s.jb[j].lba].dirty

\* A block invalidated since it joined the transaction leaves it.
ReleaseClean(s, trans, j) ==
  LET lba == s.jb[j].lba
      finished == FinishAborted(SetEndWrite(Unqueue(s, lba, j), lba, NULL), trans, lba,
                                lba \in s.tr[trans].revoke)
      smaller == [jbd_trans_remove_block_rec(finished, lba, trans)
                    EXCEPT !.tr[trans].data_cnt = @ - 1]
  IN  Forget(ext4_block_set(smaller, lba), trans, j)

RECURSIVE ReleaseCleanTail(_, _)
ReleaseCleanTail(s, trans) ==
  LET q == s.tr[trans].buf_queue
  IN  IF q = <<>> \/ IsDirty(s, Last(q)) THEN s
      ELSE ReleaseCleanTail(ReleaseClean(s, trans, Last(q)), trans)

StartAt(s, trans, iblock) ==
  [s EXCEPT !.tr[trans].start_iblock = IF @ = 0 THEN iblock ELSE @]

OpenDescriptor(s, trans, header) ==
  StartAt(OpenLogBlock(jbd_journal_alloc_block(s, trans), s.journal.last, header),
          trans, s.journal.last)

\* acc: the state, the open descriptor (0: none) and the blocks logged so far.
\* Full, the descriptor is written and another one opened.
Room(acc, trans, used, capacity, header) ==
  IF acc.desc # 0 /\ used # capacity THEN acc
  ELSE [acc EXCEPT !.s = OpenDescriptor(IF acc.desc = 0 THEN @
                                        ELSE jbd_block_set(@, acc.desc), trans, header),
                   !.desc = acc.s.journal.last]

AddTag(acc, trans, lba, is_escape) ==
  [acc EXCEPT !.s.bufs[jbd_inode_bmap(acc.desc)].data.tags =
     Append(@, [block |-> lba, is_escape |-> is_escape,
                last_tag |-> acc.i = acc.s.tr[trans].data_cnt - 1])]

LogContents(acc, trans, j, content) ==
  LET iblock == acc.s.journal.last
  IN  [acc EXCEPT
         !.s = [jbd_block_set(OpenLogBlock(jbd_journal_alloc_block(@, trans), iblock,
                                           content), iblock)
                  EXCEPT !.jb[j].jbd_lba = iblock],
         !.i = @ + 1]

LogBlock(acc, trans, j) ==
  LET lba  == acc.s.jb[j].lba
      data == acc.s.bufs[lba].data
      is_escape == data.t = "magic"
  IN  LogContents(
        AddTag(Room(acc, trans, Len(LogContent(acc.s, acc.desc).tags), TagsPerBlock,
                    Desc(acc.s.tr[trans].trans_id)),
               trans, lba, is_escape),
        trans, j, IF is_escape THEN Escape(data) ELSE data)

CloseDescriptor(acc) == IF acc.desc = 0 THEN acc.s ELSE jbd_block_set(acc.s, acc.desc)

PrepareBuf(acc, trans, j) ==
  IF IsDirty(acc.s, j) THEN LogBlock(acc, trans, j)
  ELSE [acc EXCEPT !.s = ReleaseClean(@, trans, j)]

LogDirty(s, trans) ==
  CloseDescriptor(FoldLeft(LAMBDA a, j : PrepareBuf(a, trans, j),
                           [s |-> s, desc |-> 0, i |-> 0], s.tr[trans].buf_queue))

jbd_journal_prepare(s, trans) == LogDirty(ReleaseCleanTail(s, trans), trans)

AddRevoked(acc, lba) ==
  [acc EXCEPT !.s.bufs[jbd_inode_bmap(acc.desc)].data.blocks = Append(@, lba)]

LogRevoke(acc, trans, lba) ==
  AddRevoked(Room(acc, trans, Len(LogContent(acc.s, acc.desc).blocks), RevokesPerBlock,
                  Revoke(acc.s.tr[trans].trans_id)), lba)

jbd_journal_prepare_revoke(s, trans) ==
  CloseDescriptor(FoldLeft(LAMBDA a, lba : LogRevoke(a, trans, lba),
                           [s |-> s, desc |-> 0], Ascending(s.tr[trans].revoke)))

jbd_trans_write_commit_block(s, trans) ==
  jbd_block_set(OpenLogBlock(jbd_journal_alloc_block(s, trans), s.journal.last,
                             CommitHdr(s.tr[trans].trans_id)),
                s.journal.last)

\* Give back the references the transaction's jbd_bufs hold.
jbd_journal_cp_trans(s, trans) ==
  FoldLeft(LAMBDA t, j : ext4_block_set(t, s.jb[j].lba), s, s.tr[trans].buf_queue)

\* A revoked block is not to be written home by the transactions before.
EndRevoked(s, lba) ==
  LET buf == ext4_buf_lookup(s, lba)
  IN  IF ~jbd_trans_block_rec_lookup(s, lba) \/ s.rec[lba].queue = <<>> THEN s
      ELSE PutBuf(jbd_trans_end_write(ext4_bcache_find_get(s, lba),
                                      IF buf THEN lba ELSE NULL, Last(s.rec[lba].queue)),
                  lba, buf)

Enqueue(s, trans) == [s EXCEPT !.cp_queue = Append(@, trans)]

\* The transaction is committed: put it on the checkpoint queue.
QueueCommitted(s, trans) ==
  LET t == s.tr[trans]
      first == jbd_write_sb(jbd_journal_write_sb(ShiftLog(s, t.start_iblock, t.trans_id)))
      empty == jbd_journal_write_sb(ShiftLog(s, LogEnd(t), t.trans_id + 1))
  IN  IF s.cp_queue = <<>> /\ t.data_cnt = 0
      THEN jbd_journal_free_trans(empty, trans, FALSE)
      ELSE jbd_journal_cp_trans(Enqueue(IF s.cp_queue = <<>> THEN first ELSE s, trans), trans)

WriteCommit(s, trans) ==
  QueueCommitted(
    FoldLeft(EndRevoked,
             [jbd_trans_write_commit_block(s, trans) EXCEPT !.journal.alloc_trans_id = @ + 1],
             Ascending(s.tr[trans].revoke)), trans)

Commit(s, trans) ==
  IF s.tr[trans].buf_queue = <<>> /\ s.tr[trans].revoke = {}
  THEN jbd_journal_free_trans(s, trans, FALSE)
  ELSE WriteCommit(s, trans)

jbd_journal_commit_trans(s, trans) ==
  Commit(jbd_journal_prepare_revoke(
           jbd_journal_prepare([s EXCEPT !.tr[trans].trans_id = s.journal.alloc_trans_id],
                               trans), trans), trans)
=============================================================================
