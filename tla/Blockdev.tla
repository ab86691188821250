------------------------------ MODULE Blockdev ------------------------------
(***************************************************************************)
(* The block device and the buffers of lwext4's block cache, below the     *)
(* point where a write-back calls into the journal: ext4_blockdev.c's      *)
(* direct I/O and the parts of ext4_bcache.c that start no write.          *)
(*                                                                         *)
(* Every operator maps a state record s to the next one:                   *)
(*   disk        what each block of the device holds                       *)
(*   wr          the single-block writes of the running operation, in      *)
(*               order: a crash leaves a prefix of them on the disk        *)
(*   bufs        lba_root: the cached buffers by address                   *)
(*   lru         the cached addresses by ascending lru_id                  *)
(*   dirty_list  the addresses of the buffers on dirty_list, head first    *)
(* A struct ext4_block is the address of the buffer it points to.  The     *)
(* device and the allocator do not fail here, and one block is written     *)
(* whole or not at all.                                                    *)
(***************************************************************************)
EXTENDS Integers, SequencesExt

CONSTANT CacheCnt       \* bc->cnt, CONFIG_BLOCK_DEV_CACHE_SIZE

\* A block that is no journal header holds a value; 0 is a block of zeros.
Raw(v) == [t |-> "raw", v |-> v]

NULL == 0

Without(f, x) == Restrict(f, DOMAIN f \ {x})

Drop(q, x) == SelectSeq(q, LAMBDA y : y # x)

ext4_blocks_get_direct(s, lba) == s.disk[lba]

ext4_blocks_set_direct(s, lba, data) ==
  [s EXCEPT !.disk[lba] = data, !.wr = Append(@, <<lba, data>>)]

(***************************************************************************)
(* A superblock is a struct smaller than a block, read and written in      *)
(* place around the cache.                                                 *)
(***************************************************************************)
ext4_block_writebytes(s, lba, data) == ext4_blocks_set_direct(s, lba, data)

ext4_block_readbytes(s, lba) == ext4_blocks_get_direct(s, lba)

(***************************************************************************)
(* Buffers.                                                                *)
(***************************************************************************)
ext4_buf_lookup(s, lba) == lba \in DOMAIN s.bufs

ext4_bcache_is_full(s) == CacheCnt <= Cardinality(DOMAIN s.bufs)

\* lru_root holds the unreferenced buffers only.
LruRoot(s) == SelectSeq(s.lru, LAMBDA lba : s.bufs[lba].refctr = 0)

ext4_buf_lowest_lru(s) == LruRoot(s)[1]

ext4_bcache_insert_dirty_node(s, lba) ==
  IF Contains(s.dirty_list, lba) THEN s
  ELSE [s EXCEPT !.dirty_list = <<lba>> \o @]

ext4_bcache_remove_dirty_node(s, lba) ==
  [s EXCEPT !.dirty_list = Drop(@, lba)]

\* Marking a buffer dirty also marks its content valid, and clearing the
\* mark also throws the content away.
ext4_bcache_set_dirty(s, lba) ==
  [s EXCEPT !.bufs[lba].dirty = TRUE, !.bufs[lba].uptodate = TRUE]

ext4_bcache_clear_dirty(s, lba) ==
  [s EXCEPT !.bufs[lba].dirty = FALSE, !.bufs[lba].uptodate = FALSE]

SetEndWrite(s, lba, jb) == [s EXCEPT !.bufs[lba].end_write = jb]

ext4_bcache_drop_buf(s, lba) ==
  [s EXCEPT !.bufs = Without(@, lba), !.lru = Drop(@, lba),
            !.dirty_list = IF s.bufs[lba].dirty THEN Drop(@, lba) ELSE @]

ext4_bcache_invalidate_buf(s, lba) ==
  ext4_bcache_clear_dirty(
    [SetEndWrite(s, lba, NULL) EXCEPT
       !.dirty_list = IF s.bufs[lba].dirty THEN Drop(@, lba) ELSE @], lba)

(***************************************************************************)
(* The walk over lba_root starts from the buffer of the first address: when *)
(* that one is not cached, none of the range is invalidated.               *)
(***************************************************************************)
ext4_bcache_invalidate_lba(s, from, cnt) ==
  IF ~ext4_buf_lookup(s, from) THEN s
  ELSE FoldFunctionOnSet(LAMBDA lba, t : ext4_bcache_invalidate_buf(t, lba), s,
                         [lba \in DOMAIN s.bufs |-> lba],
                         DOMAIN s.bufs \cap from .. (from + cnt - 1))

(***************************************************************************)
(* Taking the first reference renews the buffer's place in the LRU order   *)
(* and takes it off the list of buffers ready to be flushed.               *)
(***************************************************************************)
ext4_bcache_find_get(s, lba) ==
  IF ~ext4_buf_lookup(s, lba) THEN s
  ELSE [s EXCEPT !.bufs[lba].refctr = @ + 1,
                 !.lru = IF s.bufs[lba].refctr > 0 THEN @ ELSE Append(Drop(@, lba), lba),
                 !.dirty_list = IF s.bufs[lba].refctr > 0 THEN @ ELSE Drop(@, lba)]

ext4_bcache_alloc(s, lba) ==
  IF ext4_buf_lookup(s, lba) THEN ext4_bcache_find_get(s, lba)
  ELSE [s EXCEPT !.bufs = @ @@ (lba :> [data |-> Raw(NULL), uptodate |-> FALSE,
                                        dirty |-> FALSE, flush |-> FALSE,
                                        tmp |-> FALSE, refctr |-> 1,
                                        end_write |-> NULL]),
                 !.lru  = Append(@, lba)]
=============================================================================
