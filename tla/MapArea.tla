------------------------------ MODULE MapArea ------------------------------
(***************************************************************************)
(* The areas of an address space (kernel/mm/maparea), one record for the   *)
(* seven kinds: private and shared anonymous memory, the segments of an    *)
(* ELF file, the stack, private and shared mappings of a file, and System V *)
(* shared memory.  Functions on the kernel record of AddrSpace.            *)
(***************************************************************************)
EXTENDS Integers, FiniteSetsExt, Functions, TLC

-----------------------------------------------------------------------------
(***************************************************************************)
(* The page table of a user address space (arch/riscv/pagetable) and the   *)
(* physical pages it points to (kernel/mm/page.rs), as functions on the    *)
(* kernel record of AddrSpace.  An address is a page number, a permission  *)
(* a set of "R", "W", "X".  The accessed and dirty bits are left out: in   *)
(* the build without swap they only send the user back to the same access. *)
(***************************************************************************)

CONSTANTS Frames,     \* the physical pages, numbers
          NoFrame,    \* the ppn of an entry never written
          Values,     \* what a page may hold
          Zero        \* what alloc_zeroed leaves in a page

ASSUME PageAssumption == /\ IsFiniteSet(Frames) /\ Frames \subseteq Nat
                         /\ NoFrame \notin Frames
                         /\ Zero \in Values

Perms == SUBSET {"R", "W", "X"}

\* An entry; nothing reads the ppn munmap leaves in an invalid one.
Pte == [valid : BOOLEAN, page : Frames \cup {NoFrame}, perm : Perms]
EmptyPte == [valid |-> FALSE, page |-> NoFrame, perm |-> {}]
Entry(frame, perm) == [valid |-> TRUE, page |-> frame, perm |-> perm]

Panic(q) == [q EXCEPT !.panic = TRUE]

\* What the hardware lets through: a leaf without R, W and X is no leaf.
Permits(pte, access) == pte.valid /\ access \in pte.perm

(* Each works on every page of a set S at once; frames: page -> physical page. *)

mmap(q, a, frames, perm) ==
    IF \E p \in DOMAIN frames : q.as[a].pt[p].valid THEN Panic(q)
    ELSE [q EXCEPT !.as[a].pt = [p \in DOMAIN @ |->
                                     IF p \in DOMAIN frames THEN Entry(frames[p], perm) ELSE @[p]]]

mmap_replace(q, a, p, frame, perm) == [q EXCEPT !.as[a].pt[p] = Entry(frame, perm)]

mmap_replace_perm(q, a, S, perm) ==
    [q EXCEPT !.as[a].pt = [p \in DOMAIN @ |->
                                IF p \in S THEN Entry(@[p].page, perm) ELSE @[p]]]

\* find_pte(vaddr).expect("PTE not found for munmap").
munmap(q, a, S) ==
    IF \E p \in S : ~q.as[a].pt[p].valid THEN Panic(q)
    ELSE [q EXCEPT !.as[a].pt = [p \in DOMAIN @ |->
                                     IF p \in S THEN EmptyPte ELSE @[p]]]

-----------------------------------------------------------------------------
(* Physical pages: q.mem is a function on the allocated ones.               *)

FreeFrames(q) == Frames \ DOMAIN q.mem
NextFrame(q) == Min(FreeFrames(q))

\* alloc, alloc_zero: "Out of physical memory" is a panic.
alloc(q, value) ==
    IF FreeFrames(q) = {} THEN Panic(q)
    ELSE [q EXCEPT !.mem = [f \in DOMAIN @ \cup {NextFrame(q)} |->
                                IF f = NextFrame(q) THEN value ELSE @[f]]]

-----------------------------------------------------------------------------
CONSTANTS Files,     \* what can be mapped
          NoFile     \* the file of an area without one

ASSUME FileAssumption == NoFile \notin Files

(* frames is a function on the pages of the area, the base its first page.
   file_offset and file_length count pages; file, entry are used by the areas
   that have one.                                                            *)
Kinds == {"anon", "anon_shared", "elf", "stack", "file", "shared_file", "shm"}

Slot == [st : {"Unallocated", "Allocated", "Cow"}, f : Frames \cup {NoFrame}]
Unallocated == [st |-> "Unallocated", f |-> NoFrame]
Allocated(f) == [st |-> "Allocated", f |-> f]
Cow(f) == [st |-> "Cow", f |-> f]

NewArea(kind, perm, base, pages) ==
    [kind |-> kind, perm |-> perm, frames |-> [p \in base..(base + pages - 1) |-> Unallocated],
     file |-> NoFile, file_offset |-> 0, file_length |-> 0, entry |-> 0]

FileArea(kind, perm, base, pages, file, offset, length) ==
    [NewArea(kind, perm, base, pages) EXCEPT
        !.file = file, !.file_offset = offset, !.file_length = length]

base_of(area) == Min(DOMAIN area.frames)
end_of(area) == Max(DOMAIN area.frames) + 1
present(area) == {p \in DOMAIN area.frames : area.frames[p].st # "Unallocated"}

\* The areas that copy on write, and those with no split or set_perm.
Private(area) == area.kind \in {"anon", "elf", "stack", "file"}
NoSplit(area) == area.kind \in {"stack", "shm", "shared_file"}
NoSetPerm(area) == area.kind \in {"stack", "shm"}

-----------------------------------------------------------------------------
(* Owners of physical pages.                                                *)

\* The slots with an Arc of f.
Holders(q, f) ==
    UNION {UNION {{<<a, p>> : p \in {x \in DOMAIN area.frames : area.frames[x].f = f}}
                      : area \in Range(q.as[a].areas)}
               : a \in DOMAIN q.as}

AllAreas(q) == UNION {Range(q.as[a].areas) : a \in DOMAIN q.as}

OwnedFrames(q) ==
    UNION ({{s.f : s \in Range(area.frames)} : area \in AllAreas(q)}
           \cup {Range(e.shared) : e \in Range(q.entries)}
           \cup {Range(s.frames) : s \in Range(q.shms)})

\* A MappedFileEntry is held by the MANAGER and by the areas.
HeldEntries(q) == Range(q.mapped) \cup {area.entry : area \in AllAreas(q)}

-----------------------------------------------------------------------------
(* Mapped files: MANAGER of filemap/shared.rs.  q.mapped: file -> entry.    *)

FileValue(q, file, i) == IF i \in DOMAIN q.files[file] THEN q.files[file][i] ELSE Zero

open_mapped_file(q, file) ==
    IF file \in DOMAIN q.mapped THEN [q EXCEPT !.entries[q.mapped[file]].ref_count = @ + 1]
    ELSE LET e == Min((1..(Cardinality(DOMAIN q.entries) + 1)) \ DOMAIN q.entries)
         IN  [q EXCEPT !.mapped = @ @@ (file :> e),
                       !.entries = @ @@ (e :> [file |-> file, shared |-> <<>>, ref_count |-> 1])]

close_mapped_file(q, file) ==
    IF file \notin DOMAIN q.mapped THEN q
    ELSE LET e == q.mapped[file]
             less == [q EXCEPT !.entries[e].ref_count = @ - 1]
         IN  IF less.entries[e].ref_count = 0
             THEN [less EXCEPT !.mapped = Restrict(@, DOMAIN @ \ {file})]
             ELSE less

\* MappedFileEntry::get_page: the page of the entry, read in if it is not there.
get_page(q, e, i) ==
    IF i \in DOMAIN q.entries[e].shared THEN q
    ELSE IF FreeFrames(q) = {} THEN Panic(q)
    ELSE [alloc(q, FileValue(q, q.entries[e].file, i)) EXCEPT
             !.entries[e].shared = @ @@ (i :> NextFrame(q))]

\* Drop: the last Arc of an entry writes its pages back, and frees them.  All of
\* them, those past the end of the file too, which grows; a gap reads as zeros.
WrittenBack(q) ==
    LET gone(file) == {e \in DOMAIN q.entries \ HeldEntries(q) : q.entries[e].file = file}
        last(file) == Max({-1} \cup DOMAIN q.files[file]
                              \cup UNION {DOMAIN q.entries[e].shared : e \in gone(file)})
        page(file, i) ==
            LET from == {e \in gone(file) : i \in DOMAIN q.entries[e].shared}
            IN  IF from = {} THEN FileValue(q, file, i)
                ELSE q.mem[q.entries[CHOOSE e \in from : TRUE].shared[i]]
    IN  [file \in DOMAIN q.files |-> [i \in 0..last(file) |-> page(file, i)]]

\* What every call ends with: the Arcs that are gone, and what they owned.
Dropped(q) ==
    LET r == [q EXCEPT !.files = WrittenBack(q),
                       !.entries = Restrict(@, DOMAIN @ \cap HeldEntries(q))]
    IN  [r EXCEPT !.mem = Restrict(@, DOMAIN @ \cap OwnedFrames(r))]

-----------------------------------------------------------------------------
(* The operations of an area: the one of address space a at base b.         *)

The(q, a, b) == q.as[a].areas[b]
SetSlot(q, a, b, p, slot) == [q EXCEPT !.as[a].areas[b].frames[p] = slot]
pages_in(area, st) == {p \in DOMAIN area.frames : area.frames[p].st = st}
without_w(perm) == perm \ {"W"}

\* What a page not loaded yet stands for.
InitialValue(q, area, p) ==
    LET i == p - base_of(area)
    IN  IF area.file # NoFile /\ i < area.file_length
        THEN FileValue(q, area.file, area.file_offset + i) ELSE Zero

\* allocate_page, load_page.
load_page(q, a, b, p) ==
    LET f == NextFrame(q)
        loaded == alloc(q, InitialValue(q, The(q, a, b), p))
    IN  IF FreeFrames(q) = {} THEN Panic(q)
        ELSE SetSlot(mmap(loaded, a, p :> f, The(q, a, b).perm), a, b, p, Allocated(f))

\* cow_to_allocated: Arc::try_unwrap keeps the page of the last owner, except in a
\* private file mapping, which always copies.
takes_over(q, area, p) == area.kind # "file" /\ Cardinality(Holders(q, area.frames[p].f)) = 1

copy_on_write_page(q, a, b, p) ==
    LET area == The(q, a, b)
        f == area.frames[p].f
        only == takes_over(q, area, p)
        n == IF only THEN f ELSE NextFrame(q)
        copied == IF only THEN q ELSE alloc(q, q.mem[f])
    IN  IF ~only /\ FreeFrames(q) = {} THEN Panic(q)
        ELSE mmap_replace(SetSlot(copied, a, b, p, Allocated(n)), a, p, n, area.perm)

\* translate_write looks at the permission only in these.
refuses_write(area) == "W" \notin area.perm /\ area.kind \in {"anon", "anon_shared", "file"}

\* The kernel's own access to page p: the kernel after it, and the page, NoFrame
\* for EFAULT.  A shared file mapping computes an address that is never mapped:
\* kpage + uaddr & PGSIZE is (kpage + uaddr) & PGSIZE.  A shared memory area gives
\* the start of the page whatever the offset in it: the page is right, the place in
\* it, which a page number does not have, is not.
translate(q, a, b, p, write) ==
    LET area == The(q, a, b)
        st == area.frames[p].st
        r == IF area.kind = "shared_file" THEN Panic(q)
             ELSE CASE st = "Unallocated" -> load_page(q, a, b, p)
                    [] st = "Cow" /\ write -> copy_on_write_page(q, a, b, p)
                    [] OTHER -> q
    IN  IF p \notin DOMAIN area.frames \/ (write /\ refuses_write(area))
        THEN [q |-> q, f |-> NoFrame]
        ELSE [q |-> r, f |-> The(r, a, b).frames[p].f]

\* try_to_fix_memory_fault: the kernel after it, and whether the user may retry.
Fixed(q) == [q |-> q, fixed |-> TRUE]
NotFixed(q) == [q |-> q, fixed |-> FALSE]

fix_shm(q, a, b, p) ==
    Fixed(mmap(q, a, p :> The(q, a, b).frames[p].f, The(q, a, b).perm))

fix_shared_file(q, a, b, p) ==
    LET area == The(q, a, b)
        got == get_page(q, area.entry, p - b)
        f == got.entries[area.entry].shared[p - b]
    IN  Fixed(IF area.frames[p].st = "Allocated" \/ got.panic THEN got
              ELSE SetSlot(mmap(got, a, p :> f, area.perm), a, b, p, Allocated(f)))

fix_nofile(q, a, b, p, access) ==
    LET area == The(q, a, b)
        st == area.frames[p].st
    IN  CASE st = "Unallocated" -> Fixed(load_page(q, a, b, p))
          [] st = "Allocated" -> IF area.kind = "file" THEN NotFixed(q) ELSE Fixed(Panic(q))
          [] st = "Cow" /\ access = "W" -> Fixed(copy_on_write_page(q, a, b, p))
          [] st = "Cow" /\ access # "W" -> Fixed(Panic(q))

fix_fault(q, a, b, p, access) ==
    LET area == The(q, a, b)
    IN  IF p \notin DOMAIN area.frames \/ (area.kind = "stack" /\ access = "X") THEN NotFixed(q)
        ELSE CASE area.kind = "shm" -> fix_shm(q, a, b, p)
               [] area.kind = "shared_file" -> fix_shared_file(q, a, b, p)
               [] area.kind \notin {"shm", "shared_file"} -> fix_nofile(q, a, b, p, access)

-----------------------------------------------------------------------------
(* fork.                                                                    *)

ParentArea(area) ==
    IF ~Private(area) THEN area
    ELSE [area EXCEPT !.frames = [p \in DOMAIN @ |->
              IF @[p].st = "Unallocated" THEN @[p] ELSE Cow(@[p].f)]]

ChildArea(area) ==
    CASE Private(area) -> ParentArea(area)
      [] area.kind = "shared_file" ->
            [area EXCEPT !.frames = [p \in DOMAIN @ |-> Unallocated]]
      [] OTHER -> area

\* Mutant: the stack is forgotten.
protects_no_stack(area) ==
    CASE area.kind = "elf" -> present(area)
      [] area.kind = "anon" /\ "W" \in area.perm -> pages_in(area, "Allocated")
      [] area.kind = "file" -> pages_in(area, "Allocated")
      [] OTHER -> {}

\* The pages the parent loses the right to write, area by area.
parent_protects(area) ==
    CASE area.kind \in {"elf", "stack"} -> present(area)
      [] area.kind = "anon" /\ "W" \in area.perm -> pages_in(area, "Allocated")
      [] area.kind = "file" -> pages_in(area, "Allocated")
      [] OTHER -> {}

child_maps(area) == IF area.kind \in {"shm", "shared_file"} THEN {} ELSE present(area)
child_perm(area) == IF Private(area) THEN without_w(area.perm) ELSE area.perm

\* Area::fork of the area at b of a, for the address space c.
area_fork(q, a, b, c) ==
    LET area == The(q, a, b)
        child == [q EXCEPT !.as[c].areas = @ @@ (b :> ChildArea(area))]
        shown == mmap(child, c, [p \in child_maps(area) |-> area.frames[p].f], child_perm(area))
    IN  [mmap_replace_perm(shown, a, parent_protects(area), without_w(area.perm))
            EXCEPT !.as[a].areas[b] = ParentArea(area)]

-----------------------------------------------------------------------------
(* split, set_perm, unmap.                                                  *)

\* The part of an area on the pages S, an interval: frames, file_offset and
\* file_length follow the split.
part(area, S) ==
    LET cut == Min(S) - base_of(area)
        size == Cardinality(S)
        left == Max({area.file_length - cut, 0})
    IN  [area EXCEPT !.frames = Restrict(@, S),
                     !.file_offset = @ + cut,
                     !.file_length = Min({left, size})]

\* The pages whose entry set_perm writes with perm, and those it writes without W.
set_perm_full(area) ==
    IF area.kind \in {"anon", "anon_shared"} THEN present(area) ELSE pages_in(area, "Allocated")
set_perm_cow(area) == IF area.kind = "elf" THEN pages_in(area, "Cow") ELSE {}

\* Mutant: every area does what an anonymous one does.
set_perm_all(q, a, area, perm) == mmap_replace_perm(q, a, present(area), perm)

set_perm(q, a, area, perm) ==
    IF area.kind \in {"anon", "anon_shared"} /\ area.perm = perm THEN q
    ELSE mmap_replace_perm(mmap_replace_perm(q, a, set_perm_full(area), perm),
                           a, set_perm_cow(area), without_w(perm))

unmap(q, a, area) ==
    LET r == munmap(q, a, present(area))
    IN  IF area.kind = "shared_file" THEN close_mapped_file(r, area.file) ELSE r

=============================================================================
