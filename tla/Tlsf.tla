-------------------------------- MODULE Tlsf --------------------------------
(***************************************************************************)
(* The kernel heap: clib/src/klib/malloc.c over tlsf.c.  live records what   *)
(* its callers hold: each pointer with the size and alignment asked for.    *)
(* res is the request of the last call and whether it was met.             *)
(***************************************************************************)
EXTENDS Integers, FiniteSets, Sequences

-----------------------------------------------------------------------------
(***************************************************************************)
(* The operations of the kernel heap (clib/lib/tlsf/tlsf.c) on its state t: *)
(*   hdr        the block headers in memory, by address: size, free,        *)
(*              prev_free and prev_phys (valid only when prev_free)         *)
(*   fl_bitmap  the set of first-level classes with a free block            *)
(*   sl_bitmap  for each, the set of its second-level classes with one      *)
(*   blocks     the free list of each class <<fl, sl>>, head first          *)
(* A word is Word bytes, which is ALIGN_SIZE.  A header where none was      *)
(* written before has flags that nobody set: Garbage.                      *)
(***************************************************************************)

CONSTANTS ALIGN_SIZE_LOG2, SL_INDEX_COUNT_LOG2, FL_INDEX_MAX

ASSUME TlsfAssumption ==
  /\ ALIGN_SIZE_LOG2 \in Nat \ {0} /\ SL_INDEX_COUNT_LOG2 \in Nat \ {0}
  /\ FL_INDEX_MAX \in Nat
  /\ FL_INDEX_MAX > SL_INDEX_COUNT_LOG2 + ALIGN_SIZE_LOG2

ALIGN_SIZE       == 2^ALIGN_SIZE_LOG2
SL_INDEX_COUNT   == 2^SL_INDEX_COUNT_LOG2
FL_INDEX_SHIFT   == SL_INDEX_COUNT_LOG2 + ALIGN_SIZE_LOG2
FL_INDEX_COUNT   == FL_INDEX_MAX - FL_INDEX_SHIFT + 1
SMALL_BLOCK_SIZE == 2^FL_INDEX_SHIFT

Word == ALIGN_SIZE

block_header_overhead == Word
block_start_offset    == 2 * Word
sizeof_block_header   == 4 * Word
block_size_min        == sizeof_block_header - Word
block_size_max        == 2^FL_INDEX_MAX

Larger(x, y) == IF x > y THEN x ELSE y

Garbage == "garbage"

(***************************************************************************)
(* Sizes, alignment and classes.                                           *)
(***************************************************************************)
align_up(x, align) == ((x + align - 1) \div align) * align

align_down(x, align) == x - (x % align)

adjust_request_size(size, align) ==
  LET aligned == align_up(size, align)
  IN  IF size # 0 /\ aligned < block_size_max THEN Larger(aligned, block_size_min) ELSE 0

\* The position of the highest bit of x, -1 for 0.
tlsf_fls(x) == IF x = 0 THEN -1 ELSE CHOOSE n \in 0 .. x : 2^n <= x /\ x < 2^(n + 1)

mapping_insert(size) ==
  IF size < SMALL_BLOCK_SIZE THEN <<0, size \div (SMALL_BLOCK_SIZE \div SL_INDEX_COUNT)>>
  ELSE LET fl == tlsf_fls(size)
       IN  <<fl - (FL_INDEX_SHIFT - 1),
             (size \div 2^(fl - SL_INDEX_COUNT_LOG2)) - SL_INDEX_COUNT>>

\* Mutant: the size is not rounded up to the next class.
mapping_search_exact(size) == mapping_insert(size)

mapping_search(size) ==
  mapping_insert(IF size < SMALL_BLOCK_SIZE THEN size
                 ELSE size + 2^(tlsf_fls(size) - SL_INDEX_COUNT_LOG2) - 1)

tlsf_ffs(set) == CHOOSE i \in set : \A j \in set : i <= j

(***************************************************************************)
(* Headers.                                                                *)
(***************************************************************************)
block_from_ptr(ptr) == ptr - block_start_offset
block_to_ptr(block) == block + block_start_offset

NextOf(t, block) == block_to_ptr(block) + t.hdr[block].size - block_header_overhead

block_set_size(t, block, size) ==
  [t EXCEPT !.hdr = [b \in DOMAIN t.hdr \cup {block} |->
     IF b # block THEN t.hdr[b]
     ELSE IF b \in DOMAIN t.hdr THEN [t.hdr[b] EXCEPT !.size = size]
     ELSE [size |-> size, free |-> Garbage, prev_free |-> Garbage, prev_phys |-> 0]]]

block_link_next(t, block) == [t EXCEPT !.hdr[NextOf(t, block)].prev_phys = block]

block_set_prev_free(t, block) == [t EXCEPT !.hdr[block].prev_free = TRUE]

\* prev_phys_block lies in the block before, whose user now owns it.
block_set_prev_used(t, block) ==
  [t EXCEPT !.hdr[block].prev_free = FALSE, !.hdr[block].prev_phys = 0]

block_mark_as_free(t, block) ==
  [block_set_prev_free(block_link_next(t, block), NextOf(t, block))
     EXCEPT !.hdr[block].free = TRUE]

block_mark_as_used(t, block) ==
  [block_set_prev_used(t, NextOf(t, block)) EXCEPT !.hdr[block].free = FALSE]

(***************************************************************************)
(* Free lists.                                                             *)
(***************************************************************************)
\* Mutant: the first-level bit stays when the last of its lists is empty.
remove_keeps_fl_bit(t, block, class) ==
  LET list == SelectSeq(t.blocks[class], LAMBDA b : b # block)
  IN  [t EXCEPT !.blocks[class] = list,
                !.sl_bitmap[class[1]] = IF list = <<>> THEN @ \ {class[2]} ELSE @]

remove_free_block(t, block, class) ==
  LET list == SelectSeq(t.blocks[class], LAMBDA b : b # block)
      sl   == IF list = <<>> THEN t.sl_bitmap[class[1]] \ {class[2]}
              ELSE t.sl_bitmap[class[1]]
  IN  [t EXCEPT !.blocks[class] = list,
                !.sl_bitmap[class[1]] = sl,
                !.fl_bitmap = IF sl = {} THEN @ \ {class[1]} ELSE @]

insert_free_block(t, block, class) ==
  [t EXCEPT !.blocks[class] = <<block>> \o @,
            !.fl_bitmap = @ \cup {class[1]},
            !.sl_bitmap[class[1]] = @ \cup {class[2]}]

block_remove(t, block) == remove_free_block(t, block, mapping_insert(t.hdr[block].size))

block_insert(t, block) == insert_free_block(t, block, mapping_insert(t.hdr[block].size))

\* Mutant: the larger first-level lists are not searched.
search_this_level(t, class) ==
  LET here == {sl \in t.sl_bitmap[class[1]] : sl >= class[2]}
  IN  IF here # {} THEN <<class[1], tlsf_ffs(here)>> ELSE <<>>

\* The class of the free list to take from, <<>> when there is none.
search_suitable_block(t, class) ==
  LET here  == {sl \in t.sl_bitmap[class[1]] : sl >= class[2]}
      above == {fl \in t.fl_bitmap : fl > class[1]}
  IN  IF here # {} THEN <<class[1], tlsf_ffs(here)>>
      ELSE IF above = {} THEN <<>>
      ELSE <<tlsf_ffs(above), tlsf_ffs(t.sl_bitmap[tlsf_ffs(above)])>>

\* The class to allocate size from.
ClassFor(t, size) ==
  LET class == mapping_search(size)
  IN  IF size = 0 \/ class[1] >= FL_INDEX_COUNT THEN <<>>
      ELSE search_suitable_block(t, class)

(***************************************************************************)
(* Splitting and merging.  A header absorbed or never written is memory of  *)
(* its block, not a header.                                                *)
(***************************************************************************)
block_can_split(t, block, size) == t.hdr[block].size >= sizeof_block_header + size

Remaining(block, size) == block_to_ptr(block) + size - block_header_overhead

block_split(t, block, size) ==
  LET remaining == Remaining(block, size)
  IN  block_mark_as_free(
        block_set_size(block_set_size(t, remaining,
                                      t.hdr[block].size - (size + block_header_overhead)),
                       block, size), remaining)

\* Mutant: the block behind is not linked to the larger one.
absorb_unlinked(t, prev, block) ==
  [t EXCEPT !.hdr = [b \in DOMAIN t.hdr \ {block} |->
     IF b = prev
     THEN [t.hdr[prev] EXCEPT !.size = @ + t.hdr[block].size + block_header_overhead]
     ELSE t.hdr[b]]]

block_absorb(t, prev, block) ==
  block_link_next(
    [t EXCEPT !.hdr = [b \in DOMAIN t.hdr \ {block} |->
       IF b = prev
       THEN [t.hdr[prev] EXCEPT !.size = @ + t.hdr[block].size + block_header_overhead]
       ELSE t.hdr[b]]], prev)

\* The block that is left after merging, as block_merge_prev returns it.
MergedInto(t, block) ==
  IF t.hdr[block].prev_free = TRUE THEN t.hdr[block].prev_phys ELSE block

block_merge_prev(t, block) ==
  LET prev == MergedInto(t, block)
  IN  IF prev = block THEN t ELSE block_absorb(block_remove(t, prev), prev, block)

\* Mutant: a free block behind is left alone.
merge_next_never(t, block) == t

block_merge_next(t, block) ==
  LET next == NextOf(t, block)
  IN  IF t.hdr[next].free = TRUE THEN block_absorb(block_remove(t, next), block, next)
      ELSE t

block_trim_free(t, block, size) ==
  IF ~block_can_split(t, block, size) THEN t
  ELSE LET remaining == Remaining(block, size)
       IN  block_insert(
             block_set_prev_free(block_link_next(block_split(t, block, size), block),
                                 remaining), remaining)

block_trim_used(t, block, size) ==
  IF ~block_can_split(t, block, size) THEN t
  ELSE LET remaining == Remaining(block, size)
       IN  block_insert(
             block_merge_next(block_set_prev_used(block_split(t, block, size), remaining),
                              remaining), remaining)

block_trim_free_leading(t, block, size) ==
  IF ~block_can_split(t, block, size) THEN t
  ELSE LET first == size - block_header_overhead
       IN  block_insert(
             block_link_next(block_set_prev_free(block_split(t, block, first),
                                                 Remaining(block, first)), block), block)

block_prepare_used(t, block, size) ==
  block_mark_as_used(block_trim_free(t, block, size), block)

(***************************************************************************)
(* Pools.                                                                  *)
(***************************************************************************)
control_construct ==
  [hdr |-> <<>>, fl_bitmap |-> {},
   sl_bitmap |-> [fl \in 0 .. (FL_INDEX_COUNT - 1) |-> {}],
   blocks |-> [class \in (0 .. (FL_INDEX_COUNT - 1)) \X (0 .. (SL_INDEX_COUNT - 1)) |-> <<>>]]

pool_overhead == 2 * block_header_overhead

PoolBytes(bytes) == align_down(bytes - pool_overhead, ALIGN_SIZE)

\* tlsf_add_pool takes the pool: aligned, not too small and not too large.
Acceptable(mem, bytes) ==
  /\ mem % ALIGN_SIZE = 0
  /\ PoolBytes(bytes) >= block_size_min /\ PoolBytes(bytes) <= block_size_max

FirstBlock(mem) == mem - block_header_overhead

AddFree(t, block) ==
  block_insert([t EXCEPT !.hdr[block].free = TRUE, !.hdr[block].prev_free = FALSE], block)

AddSentinel(t, block, next) ==
  block_link_next([block_set_size(t, next, 0) EXCEPT !.hdr[next].free = FALSE,
                                                     !.hdr[next].prev_free = TRUE], block)

tlsf_add_pool(t, mem, bytes) ==
  IF ~Acceptable(mem, bytes) THEN t
  ELSE LET block == FirstBlock(mem)
       IN  AddSentinel(AddFree(block_set_size(t, block, PoolBytes(bytes)), block),
                       block, mem + PoolBytes(bytes))

tlsf_remove_pool(t, mem) == block_remove(t, FirstBlock(mem))

-----------------------------------------------------------------------------
CONSTANTS HeapMem, HeapSize, \* address and bytes of the heap
          PoolMem, PoolSize, \* and of a pool that can be added to it
          Sizes, Aligns, \* the requests of malloc_aligned
          ReallocSizes, \* and of tlsf_realloc; 0, which is tlsf_free, is not one
          MaxLive       \* bound on the pointers held at a time

VARIABLES t, live, pools, res

vars == <<t, live, pools, res>>

Pools == << <<HeapMem, HeapSize>>, <<PoolMem, PoolSize>> >>

NULL == 0

Met == [ok |-> TRUE, need |-> 0]

Init == /\ t = tlsf_add_pool(control_construct, Pools[1][1], Pools[1][2])
        /\ live = <<>>
        /\ pools = {1}
        /\ res = Met

Held(ptr, size, align) ==
  [p \in DOMAIN live \cup {ptr} |-> IF p = ptr THEN [size |-> size, align |-> align]
                                    ELSE live[p]]

Dropped(f, ptr) == [p \in DOMAIN f \ {ptr} |-> f[p]]

(***************************************************************************)
(* block_locate_free finds no block.                                       *)
(***************************************************************************)
Fail(need) == /\ ClassFor(t, need) = <<>>
              /\ res' = [ok |-> FALSE, need |-> need]
              /\ UNCHANGED <<t, live, pools>>

Located(need) == Head(t.blocks[ClassFor(t, need)])

Taken(need) == remove_free_block(t, Located(need), ClassFor(t, need))

tlsf_malloc(size) ==
  LET adjust == adjust_request_size(size, ALIGN_SIZE)
  IN  \/ Fail(adjust)
      \/ /\ ClassFor(t, adjust) # <<>>
         /\ t' = block_prepare_used(Taken(adjust), Located(adjust), adjust)
         /\ live' = Held(block_to_ptr(Located(adjust)), size, ALIGN_SIZE)
         /\ res' = Met
         /\ UNCHANGED pools

(***************************************************************************)
(* The room left before the aligned pointer is none, or enough for a block. *)
(***************************************************************************)
gap_minimum == sizeof_block_header

AlignedPtr(ptr, align) ==
  LET aligned == align_up(ptr, align)
      gap == aligned - ptr
  IN  IF gap = 0 \/ gap >= gap_minimum THEN aligned
      ELSE align_up(aligned + Larger(gap_minimum - gap, align), align)

AlignedSize(adjust, align) ==
  IF adjust # 0 /\ align > ALIGN_SIZE
  THEN adjust_request_size(adjust + align + gap_minimum, align) ELSE adjust

PlaceAligned(s, block, gap, adjust) ==
  IF gap = 0 THEN block_prepare_used(s, block, adjust)
  ELSE block_prepare_used(block_trim_free_leading(s, block, gap),
                          IF block_can_split(s, block, gap) THEN block + gap ELSE block,
                          adjust)

tlsf_memalign(align, size) ==
  LET adjust == adjust_request_size(size, ALIGN_SIZE)
      need   == AlignedSize(adjust, align)
  IN  \/ Fail(need)
      \/ /\ ClassFor(t, need) # <<>>
         /\ LET block == Located(need)
                ptr   == AlignedPtr(block_to_ptr(block), align)
                gap   == ptr - block_to_ptr(block)
            IN  /\ t' = PlaceAligned(Taken(need), block, gap, adjust)
                /\ live' = Held(IF block_can_split(Taken(need), block, gap) THEN ptr
                                ELSE block_to_ptr(block), size, align)
         /\ res' = Met
         /\ UNCHANGED pools

malloc_aligned(align, size) ==
  /\ Cardinality(DOMAIN live) < MaxLive
  /\ IF align <= Word THEN tlsf_malloc(size) ELSE tlsf_memalign(align, size)

MergeAround(s, block) ==
  block_insert(block_merge_next(block_merge_prev(s, block), MergedInto(s, block)),
               MergedInto(s, block))

Freed(s, ptr) ==
  MergeAround(block_mark_as_free(s, block_from_ptr(ptr)), block_from_ptr(ptr))

tlsf_free(ptr) ==
  /\ ptr \in DOMAIN live
  /\ t' = Freed(t, ptr)
  /\ live' = Dropped(live, ptr)
  /\ res' = Met
  /\ UNCHANGED pools

(***************************************************************************)
(* Growing into the next block when that is free and large enough, moving   *)
(* otherwise; a move that fails leaves the block as it was.                *)
(***************************************************************************)
Move(ptr, adjust, size) ==
  \/ Fail(adjust)
  \/ /\ ClassFor(t, adjust) # <<>>
     /\ t' = Freed(block_prepare_used(Taken(adjust), Located(adjust), adjust), ptr)
     /\ live' = Dropped(Held(block_to_ptr(Located(adjust)), size, ALIGN_SIZE), ptr)
     /\ res' = Met
     /\ UNCHANGED pools

Grown(block, adjust) ==
  IF adjust > t.hdr[block].size THEN block_mark_as_used(block_merge_next(t, block), block)
  ELSE t

tlsf_realloc(ptr, size) ==
  LET block  == block_from_ptr(ptr)
      next   == NextOf(t, block)
      adjust == adjust_request_size(size, ALIGN_SIZE)
      combined == t.hdr[block].size + t.hdr[next].size + block_header_overhead
  IN  /\ ptr \in DOMAIN live
      /\ IF adjust > t.hdr[block].size /\ (~t.hdr[next].free \/ adjust > combined)
         THEN Move(ptr, adjust, size)
         ELSE /\ t' = block_trim_used(Grown(block, adjust), block, adjust)
              /\ live' = Held(ptr, size, live[ptr].align)
              /\ res' = Met
              /\ UNCHANGED pools

AddPool(i) ==
  /\ i \in DOMAIN Pools \ pools
  /\ t' = tlsf_add_pool(t, Pools[i][1], Pools[i][2])
  /\ pools' = pools \cup {i}
  /\ res' = Met
  /\ UNCHANGED live

\* Where the pool ends: the address of its sentinel.
Sentinel(i) == Pools[i][1] + PoolBytes(Pools[i][2])

InPool(i, block) == block \in FirstBlock(Pools[i][1]) .. Sentinel(i)

\* Its caller has freed all of the pool.
RemovePool(i) ==
  /\ i \in pools \ {1}
  /\ \A p \in DOMAIN live : ~InPool(i, block_from_ptr(p))
  /\ t' = [tlsf_remove_pool(t, Pools[i][1])
             EXCEPT !.hdr = [b \in {x \in DOMAIN @ : ~InPool(i, x)} |-> @[b]]]
  /\ pools' = pools \ {i}
  /\ res' = Met
  /\ UNCHANGED live

Next == \/ \E align \in Aligns, size \in Sizes : malloc_aligned(align, size)
        \/ \E ptr \in DOMAIN live : tlsf_free(ptr)
        \/ \E ptr \in DOMAIN live, size \in ReallocSizes : tlsf_realloc(ptr, size)
        \/ \E i \in DOMAIN Pools : AddPool(i)
        \/ \E i \in DOMAIN Pools : RemovePool(i)

Spec == Init /\ [][Next]_vars

(***************************************************************************)
(* Properties.                                                             *)
(***************************************************************************)
Blocks == {b \in DOMAIN t.hdr : t.hdr[b].size > 0}

FreeBlocks == {b \in Blocks : t.hdr[b].free = TRUE}

\* The walk of tlsf_check_pool: the headers are the first block of each pool
\* and whatever a block ends at, up to the sentinel; and each header tells
\* the truth about the block before it.
PoolTiled ==
  /\ DOMAIN t.hdr = {FirstBlock(Pools[i][1]) : i \in pools} \cup {NextOf(t, b) : b \in Blocks}
  /\ DOMAIN t.hdr \ Blocks = {Sentinel(i) : i \in pools}
  /\ \A b \in Blocks : LET next == t.hdr[NextOf(t, b)]
                       IN  /\ next.prev_free = t.hdr[b].free
                           /\ next.prev_free => next.prev_phys = b

\* tlsf_check: the free lists hold the free blocks, each in the class of its
\* size, both bitmaps say which lists are not empty, and free neighbours have
\* been merged.
ListsExact ==
  /\ \A class \in DOMAIN t.blocks :
       LET list == t.blocks[class]
       IN  /\ {list[n] : n \in DOMAIN list} = {b \in FreeBlocks : mapping_insert(t.hdr[b].size) = class}
           /\ Len(list) = Cardinality({list[n] : n \in DOMAIN list})
           /\ (class[2] \in t.sl_bitmap[class[1]]) <=> list # <<>>
  /\ t.fl_bitmap = {fl \in DOMAIN t.sl_bitmap : t.sl_bitmap[fl] # {}}
  /\ \A b \in FreeBlocks : /\ t.hdr[b].size >= block_size_min
                           /\ ~t.hdr[b].prev_free /\ ~t.hdr[NextOf(t, b)].free

\* What malloc, memalign and realloc gave out is still there: a used block of
\* the size and alignment asked for.
LiveBlocksHold ==
  \A p \in DOMAIN live :
    /\ block_from_ptr(p) \in Blocks
    /\ LET b == t.hdr[block_from_ptr(p)]
       IN  b.free = FALSE /\ b.size >= live[p].size /\ p % live[p].align = 0

\* Once all is freed, each pool is one block again: nothing leaks.
NothingLeaks ==
  live = <<>> => Blocks = {FirstBlock(Pools[i][1]) : i \in pools}

\* A request fails only when no free block exceeds it by as much as one part
\* in SL_INDEX_COUNT, the grain of the second-level lists.
FailsOnlyWhenFull ==
  ~res.ok /\ res.need # 0 =>
    \A b \in FreeBlocks : t.hdr[b].size < res.need + res.need \div SL_INDEX_COUNT

=============================================================================
