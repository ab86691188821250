------------------------------ MODULE Recovery ------------------------------
(***************************************************************************)
(* Sessions of lwext4's journal (ext4_journal.c): jbd_recover replays the   *)
(* log found on the disk, jbd_journal_start opens a session over it and     *)
(* jbd_journal_stop closes one.  Block 0 of the device is the ext4          *)
(* superblock, of which only EXT4_FINCOM_RECOVER matters here.             *)
(***************************************************************************)
EXTENDS Jbd

ESB == 0

ext4_sb_write(s, recover) == ext4_block_writebytes(s, ESB, [t |-> "esb", recover |-> recover])

jbd_get_fs(s) == jbd_sb_read(s)

jbd_put_fs(s) == jbd_write_sb(s)

(***************************************************************************)
(* Walking the log.  w: the state s, the address this_block and             *)
(* transaction this_trans_id reached, end, and info: trans_cnt, last_trans_id,*)
(* and the revoke tree, a function from address to transaction.             *)
(***************************************************************************)
HeaderTypes == {"desc", "commit", "revoke"}

\* The tags jbd_iterate_block_table visits.
Tags(header) ==
  LET lasts == {i \in DOMAIN header.tags : header.tags[i].last_tag}
  IN  IF lasts = {} THEN header.tags
      ELSE SubSeq(header.tags, 1, CHOOSE i \in lasts : \A m \in lasts : i <= m)

jbd_display_block_tags(w, tag) == [w EXCEPT !.this_block = wrap(@ + 1)]

jbd_add_revoke_block_tags(w, lba) ==
  [w EXCEPT !.info.revoke = (lba :> w.this_trans_id) @@ @]

jbd_build_revoke_tree(w, header) == FoldLeft(jbd_add_revoke_block_tags, w, header.blocks)

\* Copy one logged block home, unless a later or the same transaction revoked it.
\* No tag names block 0: the library writes the superblock with ext4_sb_write, past
\* the log, and what the replay does with one another driver logged is left out.
ReplayBlock(s, tag, iblock) ==
  LET copy == LogContent(s, iblock)
  IN  ext4_block_set(
        ext4_bcache_set_dirty(SetData(s, tag.block, IF tag.is_escape THEN Unescape(copy)
                                                    ELSE copy), tag.block), tag.block)

\* Mutant: revoke records are not honoured.
never_revoked(w, lba) == FALSE

Revoked(w, lba) ==
  /\ lba \in DOMAIN w.info.revoke
  /\ trans_id_diff(w.this_trans_id, w.info.revoke[lba]) <= 0

jbd_replay_block_tags(w, tag) ==
  LET iblock == wrap(w.this_block + 1)
  IN  [w EXCEPT !.this_block = iblock,
                !.s = IF Revoked(w, tag.block) THEN @
                      ELSE jbd_block_set(
                             ReplayBlock(ext4_block_get_noread(jbd_block_get(@, iblock),
                                                               tag.block),
                                         tag, iblock), iblock)]

VisitHeader(w, header, action) ==
  CASE header.t = "desc" ->
         IF action = "RECOVER" THEN FoldLeft(jbd_replay_block_tags, w, Tags(header))
         ELSE FoldLeft(jbd_display_block_tags, w, Tags(header))
    [] header.t = "commit" ->
         [w EXCEPT !.this_trans_id = @ + 1,
                   !.info.trans_cnt = IF action = "SCAN" THEN @ + 1 ELSE @]
    [] header.t = "revoke" ->
         IF action = "REVOKE" THEN jbd_build_revoke_tree(w, header) ELSE w

\* With the block at this_block in the cache: what it is decides whether the
\* walk goes on.
VisitBlock(w, header, action) ==
  IF header.t \notin HeaderTypes THEN [w EXCEPT !.end = TRUE]
  ELSE IF header.sequence # w.this_trans_id
  THEN [w EXCEPT !.end = TRUE, !.eio = action # "SCAN"]
  ELSE VisitHeader(w, header, action)

PutLogBlock(w, iblock) ==
  [w EXCEPT !.s = jbd_block_set(@, iblock),
            !.this_block = IF w.end THEN @ ELSE wrap(@ + 1),
            !.end = w.end \/ wrap(w.this_block + 1) = w.s.jsb.start]

RECURSIVE WalkLog(_, _)
WalkLog(w, action) ==
  IF \/ w.end
     \/ /\ action # "SCAN"
        /\ trans_id_diff(w.this_trans_id, w.info.last_trans_id) > 0
  THEN w
  ELSE WalkLog(
         LET got == [w EXCEPT !.s = jbd_block_get(@, w.this_block)]
         IN  PutLogBlock(VisitBlock(got, ReadBlock(w.s, jbd_inode_bmap(w.this_block)), action),
                         w.this_block), action)

EndOfScan(w, action) ==
  IF action # "SCAN" THEN w
  ELSE [w EXCEPT !.info.last_trans_id =
          IF trans_id_diff(w.this_trans_id, w.s.jsb.sequence) > 0
          THEN w.this_trans_id - 1 ELSE w.this_trans_id]

\* Once a pass has failed the next one is not begun.
jbd_iterate_log(w, action) ==
  IF w.eio THEN w
  ELSE EndOfScan(WalkLog([w EXCEPT !.this_block = w.s.jsb.start,
                                   !.this_trans_id = w.s.jsb.sequence,
                                   !.end = action # "SCAN" /\ w.info.trans_cnt = 0],
                         action), action)

EndOfRecovery(w) ==
  IF w.eio THEN w.s
  ELSE ext4_sb_write([w.s EXCEPT !.jsb = [start |-> 0, sequence |-> w.info.last_trans_id],
                                 !.jdirty = TRUE], FALSE)

jbd_recover(s) ==
  IF s.jsb.start = 0 THEN s
  ELSE EndOfRecovery(
         FoldLeft(jbd_iterate_log,
                  [s |-> s, this_block |-> 0, this_trans_id |-> 0, end |-> FALSE,
                   eio |-> FALSE,
                   info |-> [trans_cnt |-> 0, last_trans_id |-> 0, revoke |-> <<>>]],
                  <<"SCAN", "REVOKE", "RECOVER">>))

jbd_journal_start(s) ==
  LET id == s.jsb.sequence + 1
  IN  jbd_write_sb(jbd_journal_write_sb(
        [ext4_sb_write(s, TRUE)
           EXCEPT !.journal = [start |-> JFirst, last |-> JFirst,
                               trans_id |-> id, alloc_trans_id |-> id],
                  !.cp_queue = <<>>, !.rec = <<>>]))

\* Mutant: the flag is cleared before the transactions are written home.
stop_clears_first(s) ==
  jbd_write_sb(jbd_journal_write_sb(
    [jbd_journal_purge_cp_trans(ext4_sb_write(s, FALSE), FALSE, FALSE)
       EXCEPT !.journal.start = 0, !.journal.trans_id = 0]))

jbd_journal_stop(s) ==
  jbd_write_sb(jbd_journal_write_sb(
    [ext4_sb_write(jbd_journal_purge_cp_trans(s, FALSE, FALSE), FALSE)
       EXCEPT !.journal.start = 0, !.journal.trans_id = 0]))

(***************************************************************************)
(* What the file system does with blocks, through ext4_trans.c.            *)
(***************************************************************************)
ext4_trans_set_block_dirty(s, lba) ==
  IF s.curr # 0 THEN jbd_trans_set_block_dirty(s, s.curr, lba)
  ELSE ext4_bcache_set_dirty(s, lba)

ext4_trans_try_revoke_block(s, lba) ==
  IF s.curr # 0 THEN jbd_trans_try_revoke_block(s, s.curr, lba)
  ELSE ext4_block_flush_lba(s, lba)

\* Change a metadata block: get it, change it, mark it, give it back.
PutMeta(s, lba, content) ==
  ext4_block_set(
    ext4_trans_set_block_dirty(SetData(ext4_block_get(s, lba), lba, content), lba), lba)

jbd_journal_new_trans(s) ==
  LET t == FreshIn(s.tr)
  IN  [s EXCEPT !.tr = @ @@ (t :> [trans_id |-> 0, start_iblock |-> 0,
                                   alloc_blocks |-> 0, data_cnt |-> 0,
                                   written_cnt |-> 0, buf_queue |-> <<>>,
                                   revoke |-> {}, tbrec |-> {}]),
                !.curr = t]
=============================================================================
