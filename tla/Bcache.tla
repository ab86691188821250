------------------------------- MODULE Bcache -------------------------------
(***************************************************************************)
(* lwext4's block cache: the operations of ext4_bcache.c and                *)
(* ext4_blockdev.c that may write a buffer back, and so run the journal's   *)
(* end_write callback.  The state record gains                             *)
(*   write_back  bdev->cache_write_back                                    *)
(***************************************************************************)
EXTENDS Blockdev

-----------------------------------------------------------------------------
(***************************************************************************)
(* Checkpointing in lwext4's journal (ext4_journal.c): what happens when    *)
(* the block cache reports that a journalled block has reached its home.   *)
(* The state record of Blockdev gains                                      *)
(*   jsb       jbd_fs->sb in memory: start, sequence; jdirty: its dirty mark *)
(*   journal   start, last, trans_id, alloc_trans_id of struct jbd_journal  *)
(*   cp_queue  the committed transactions whose blocks are not all home     *)
(*   tr        the live transactions: trans_id, start_iblock, alloc_blocks, *)
(*             data_cnt, written_cnt, buf_queue, revoke (the revoke tree),  *)
(*             tbrec (the addresses of its block records)                   *)
(*   jb        the live jbd_bufs: lba, trans, jbd_lba                       *)
(*   rec       block_rec_root: per address the owning transaction and the   *)
(*             queue of jbd_bufs not yet written home                       *)
(* Transactions and jbd_bufs are named by small numbers; a freed number is  *)
(* out of the function's domain until it is allocated again.               *)
(* None of this takes a buffer, so bc->dont_shake is never tested here.    *)
(***************************************************************************)

CONSTANTS JLen,         \* maxlen of the journal, in blocks
          JBase         \* the address of the journal's block 0

JFirst == 1

wrap(x) == IF x >= JLen THEN x - (JLen - JFirst) ELSE x

trans_id_diff(x, y) == x - y

jbd_inode_bmap(iblock) == JBase + iblock

\* The smallest name not in use.
FreshIn(f) == CHOOSE n \in 1 .. (Cardinality(DOMAIN f) + 1) :
                 /\ n \notin DOMAIN f
                 /\ \A m \in 1 .. (n - 1) : m \in DOMAIN f

FirstIs(q, x) == q # <<>> /\ Head(q) = x

jbd_sb_write(s) ==
  ext4_block_writebytes(s, jbd_inode_bmap(0), [t |-> "jsb"] @@ s.jsb)

jbd_sb_read(s) ==
  LET b == ext4_block_readbytes(s, jbd_inode_bmap(0))
  IN  [s EXCEPT !.jsb = [start |-> b.start, sequence |-> b.sequence],
                !.jdirty = FALSE]

jbd_write_sb(s) ==
  IF s.jdirty THEN [jbd_sb_write(s) EXCEPT !.jdirty = FALSE] ELSE s

jbd_journal_write_sb(s) ==
  [s EXCEPT !.jsb = [start |-> s.journal.start, sequence |-> s.journal.trans_id],
            !.jdirty = TRUE]

jbd_trans_change_ownership(s, lba, new) ==
  [s EXCEPT !.rec[lba].trans = new,
            !.tr = [t \in DOMAIN @ |->
                      [@[t] EXCEPT !.tbrec = IF t = new THEN @ \cup {lba}
                                             ELSE IF t = s.rec[lba].trans THEN @ \ {lba}
                                             ELSE @]]]

jbd_trans_remove_block_rec(s, lba, trans) ==
  IF s.rec[lba].trans # trans THEN s
  ELSE [s EXCEPT !.rec = Without(@, lba), !.tr[trans].tbrec = @ \ {lba}]

(***************************************************************************)
(* jbd_journal_free_trans with abort = FALSE.  Its callers pass a           *)
(* transaction with an empty buf_queue.                                    *)
(***************************************************************************)
FreeDoneTrans(s, trans) ==
  [FoldLeft(LAMBDA t, lba : jbd_trans_remove_block_rec(t, lba, trans), s,
            SetToSeq(s.tr[trans].tbrec))
     EXCEPT !.tr = Without(@, trans)]

\* The log starts at block start, with transaction id.
ShiftLog(s, start, id) ==
  [s EXCEPT !.journal.start = wrap(start), !.journal.trans_id = id]

LogEnd(tr) == tr.start_iblock + tr.alloc_blocks

(***************************************************************************)
(* Retire the transaction at the head of the checkpoint queue.  With        *)
(* jbd_journal_write_sb after it, this is jbd_journal_skip_pure_revoke.     *)
(***************************************************************************)
RetireHead(s) ==
  LET trans == Head(s.cp_queue)
  IN  FreeDoneTrans(ShiftLog([s EXCEPT !.cp_queue = Tail(@)],
                             LogEnd(s.tr[trans]), s.tr[trans].trans_id + 1), trans)

(***************************************************************************)
(* jbd_journal_purge_cp_trans with flush = FALSE, once = FALSE: retire the  *)
(* leading transactions that are written, then let the log start at the    *)
(* first one that is not.                                                  *)
(***************************************************************************)
RECURSIVE PurgeWritten(_)
PurgeWritten(s) ==
  IF s.cp_queue = <<>> THEN s
  ELSE LET t == s.tr[Head(s.cp_queue)]
       IN  IF t.data_cnt \in {0, t.written_cnt}
           THEN PurgeWritten(jbd_journal_write_sb(RetireHead(s)))
           ELSE jbd_journal_write_sb(ShiftLog(s, t.start_iblock, t.trans_id))

(***************************************************************************)
(* A write of the buffer at lba (NULL: no buffer) carried the content of    *)
(* jbd_buf j to its home.  The older jbd_bufs of the block go with it.      *)
(* Whether the transaction heads the checkpoint queue is read on entry.    *)
(***************************************************************************)
RECURSIVE jbd_trans_end_write(_, _, _)

FinishWritten(s, trans, lba) ==
  IF s.rec[lba].trans # trans THEN s
  ELSE FoldLeft(LAMBDA t, j : jbd_trans_end_write(t, NULL, j), s, s.rec[lba].queue)

ReleaseBuf(s, buf, trans, lba) ==
  IF buf # NULL /\ s.rec[lba].trans = trans THEN SetEndWrite(s, buf, NULL) ELSE s

CountWritten(s, j, trans) ==
  [s EXCEPT !.jb = Without(@, j), !.tr[trans].written_cnt = @ + 1]

RetireWritten(s, trans, first_in_queue) ==
  IF s.tr[trans].written_cnt = s.tr[trans].data_cnt /\ first_in_queue
  THEN jbd_write_sb(jbd_journal_write_sb(PurgeWritten(RetireHead(s))))
  ELSE s

jbd_trans_end_write(s, buf, j) ==
  LET trans == s.jb[j].trans
      lba   == s.jb[j].lba
      unqueued == [s EXCEPT !.tr[trans].buf_queue = Drop(@, j),
                            !.rec[lba].queue = Drop(@, j)]
  IN  RetireWritten(
        CountWritten(ReleaseBuf(FinishWritten(unqueued, trans, lba), buf, trans, lba),
                     j, trans),
        trans, FirstIs(s.cp_queue, trans))

-----------------------------------------------------------------------------
(***************************************************************************)
(* Write a dirty buffer to its home and tell its owner.                    *)
(***************************************************************************)
ext4_block_flush_buf(s, lba) ==
  LET b == s.bufs[lba]
      clean == [ext4_bcache_remove_dirty_node(ext4_blocks_set_direct(s, lba, b.data), lba)
                  EXCEPT !.bufs[lba].dirty = FALSE]
  IN  IF ~(b.dirty /\ b.uptodate) THEN s
      ELSE IF b.end_write = NULL THEN clean
      ELSE jbd_trans_end_write(clean, lba, b.end_write)

(***************************************************************************)
(* Give back a reference.  The last one makes the buffer ready to be        *)
(* flushed: later when write-back is on, now otherwise or when the buffer   *)
(* asks for it.  A buffer without valid content, or a temporary one, goes.  *)
(***************************************************************************)
DropUseless(s, lba, b) ==
  IF ~b.uptodate \/ b.tmp THEN ext4_bcache_drop_buf(s, lba) ELSE s

WriteLater(s, lba, b) ==
  IF ~(b.dirty /\ b.uptodate) THEN s
  ELSE IF s.write_back > 0 /\ ~b.flush /\ ~b.tmp
  THEN ext4_bcache_insert_dirty_node(s, lba)
  ELSE [ext4_block_flush_buf(s, lba) EXCEPT !.bufs[lba].flush = FALSE]

ext4_bcache_free(s, lba) ==
  LET b == s.bufs[lba]
      released == [s EXCEPT !.bufs[lba].refctr = @ - 1]
  IN  IF b.refctr > 1 THEN released
      ELSE DropUseless(WriteLater(released, lba, b), lba, b)

ext4_block_set(s, lba) == ext4_bcache_free(s, lba)

ext4_block_flush_lba(s, lba) ==
  IF ~ext4_buf_lookup(s, lba) THEN s
  ELSE ext4_bcache_free(ext4_block_flush_buf(ext4_bcache_find_get(s, lba), lba), lba)

\* Evict unreferenced buffers, least recently used first, while the cache is full.
RECURSIVE ext4_block_cache_shake(_)
ext4_block_cache_shake(s) ==
  IF LruRoot(s) = <<>> \/ ~ext4_bcache_is_full(s) THEN s
  ELSE LET lba == ext4_buf_lowest_lru(s)
       IN  ext4_block_cache_shake(
             ext4_bcache_drop_buf(IF s.bufs[lba].dirty THEN ext4_block_flush_buf(s, lba)
                                  ELSE s, lba))

ext4_block_get_noread(s, lba) == ext4_bcache_alloc(ext4_block_cache_shake(s), lba)

Fill(s, lba) ==
  IF s.bufs[lba].uptodate THEN s
  ELSE [s EXCEPT !.bufs[lba].data = ext4_blocks_get_direct(s, lba),
                 !.bufs[lba].uptodate = TRUE]

ext4_block_get(s, lba) == Fill(ext4_block_get_noread(s, lba), lba)

\* What a reader of lba sees.
ReadBlock(s, lba) == ext4_block_get(s, lba).bufs[lba].data

RECURSIVE ext4_block_cache_flush(_)
ext4_block_cache_flush(s) ==
  IF s.dirty_list = <<>> THEN s
  ELSE ext4_block_cache_flush(ext4_block_flush_buf(s, Head(s.dirty_list)))

ext4_block_cache_write_back(s, on_off) ==
  LET s1 == IF on_off THEN [s EXCEPT !.write_back = @ + 1]
            ELSE IF s.write_back > 0 THEN [s EXCEPT !.write_back = @ - 1] ELSE s
  IN  IF s1.write_back > 0 THEN s1 ELSE ext4_block_cache_flush(s1)

Ascending(S) == SetToSortSeq(S, <)

\* Flush and drop every buffer, by ascending address.
ext4_bcache_cleanup(s) ==
  FoldLeft(LAMBDA t, lba : ext4_bcache_drop_buf(ext4_block_flush_buf(t, lba), lba),
           s, Ascending(DOMAIN s.bufs))

=============================================================================
