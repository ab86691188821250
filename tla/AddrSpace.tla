----------------------------- MODULE AddrSpace -----------------------------
(***************************************************************************)
(* The user address spaces (kernel/mm/addrspace.rs), the manager of their  *)
(* areas (maparea/manager.rs), the calls that change them (syscall/mm.rs,  *)
(* shared memory of syscall/ipc.rs, fork, exec, exit) and the accesses of  *)
(* the user and of the kernel, in the build without swap-memory.           *)
(***************************************************************************)
EXTENDS MapArea, SequencesExt

CONSTANTS Spaces,      \* Arc<AddrSpace>s, numbers
          Pages,       \* the user's page numbers
          BrkBase,     \* USER_BRK_BASE
          MapBase,     \* USER_MAP_BASE
          StackBase,   \* USER_STACK_TOP - USER_STACK_PAGE_COUNT_MAX
          StackTop,    \* USER_STACK_TOP
          PgSize,      \* PGSIZE, in bytes
          Args,        \* what push_argv_envp_auxv leaves in the stack
          Keys,        \* of shared memory, IPC_PRIVATE excepted
          InitialFiles,\* file -> page -> what it holds
          Workloads    \* name -> what the programs do

(* A workload has
     calls   the operations the programs use
     spaces  how many of the address spaces exist at a time
     image   what load_elf maps, a sequence of records [base, pages, perm, file, length]
     maps    the arguments of mmap: records [kind, pages, perm, addr, fixed, file, offset]
     ranges  the arguments of munmap and mprotect: pairs <<first page, pages>>
     prots   the permissions mprotect sets
     brk     the largest break, in bytes from BrkBase
     shms    how many segments of shared memory are created, in all
     refs    the largest reference count of a mapped file or segment
     shmaddr the addresses of shmat, shmperm its permissions
     touch   the pages the programs access, values what they store           *)
AllCalls == {"mmap", "munmap", "mprotect", "brk", "shmget", "shmat", "shmctl",
             "fork", "exec", "exit", "store", "load", "fetch", "kstore", "kload"}

IsWorkload(w) ==
    /\ w.calls \subseteq AllCalls
    /\ {w.spaces, w.brk, w.shms, w.refs} \subseteq Nat
    /\ \A m \in w.maps : m.perm \in Perms /\ m.addr \in {0} \cup Pages /\ m.pages \in Nat \ {0}
    /\ w.prots \subseteq Perms /\ w.touch \subseteq Pages /\ w.values \subseteq Values

ASSUME SpaceAssumption ==
    /\ Spaces \subseteq Nat /\ Spaces # {} /\ Args \in Values
    /\ Pages \subseteq Nat \ {0} /\ {BrkBase, MapBase, StackBase} \subseteq Pages
    /\ \A name \in DOMAIN Workloads : IsWorkload(Workloads[name])

(* The kernel:
     as       address space -> [live, areas, pt, brk]; areas: base -> area,
              brk: [ubrk, page_count], ubrk counted from BrkBase
     mem      allocated physical page -> what it holds
     files    file -> page -> what it holds
     mapped, entries            MANAGER of filemap/shared.rs
     shms, next_shmid           SHM_MANAGER
     load     the workload                                                   *)
VARIABLE k

Load == Workloads[k.load]
Uses(a, call) == ~k.panic /\ k.as[a].live /\ call \in Load.calls

\* create_pagetable: the trampoline and the other fixed pages are left out.
NoSpace == [live |-> FALSE, areas |-> <<>>, pt |-> [p \in Pages |-> EmptyPte],
            brk |-> [ubrk |-> 0, page_count |-> 0]]
NewSpace == [NoSpace EXCEPT !.live = TRUE]

-----------------------------------------------------------------------------
(* maparea::Manager.                                                        *)

Bases(q, a) == DOMAIN q.as[a].areas

\* The order of the BTreeMap.
ascending(S) == SelectSeq([p \in 1..Max(Pages) |-> p], LAMBDA p : p \in S)

\* self.areas.range(..=uaddr).next_back()
has_area(q, a, p) == \E b \in Bases(q, a) : b <= p
area_at(q, a, p) == Max({b \in Bases(q, a) : b <= p})

\* find_overlapped_areas, is_map_range_overlapped, is_range_mapped.
overlapped(q, a, lo, hi) == {b \in Bases(q, a) : b < hi /\ end_of(The(q, a, b)) > lo}

\* The first gap of n pages from USER_MAP_BASE on; 0 for None.
find_mmap_ubase(q, a, n) ==
    LET step(c, b) == IF c.found \/ c.at + n <= b THEN [c EXCEPT !.found = TRUE]
                      ELSE [c EXCEPT !.at = Max({@, end_of(The(q, a, b))})]
        c == FoldLeft(step, [at |-> MapBase, found |-> FALSE], ascending(Bases(q, a)))
    IN  IF c.found \/ c.at + n <= StackBase THEN c.at ELSE 0

insert(q, a, area) == [q EXCEPT !.as[a].areas = (base_of(area) :> area) @@ @]

map_area(q, a, area) ==
    IF overlapped(q, a, base_of(area), end_of(area)) # {} THEN Panic(q) ELSE insert(q, a, area)

remove(q, a, b) == [q EXCEPT !.as[a].areas = Restrict(@, DOMAIN @ \ {b})]

\* Split the areas that reach over an end of [lo, hi).
carve(q, a, lo, hi) ==
    LET step(r, b) ==
            LET area == The(r, a, b)
                below == {p \in DOMAIN area.frames : p < lo}
                above == {p \in DOMAIN area.frames : hi <= p}
                inside == DOMAIN area.frames \ (below \cup above)
                parts == {below, inside, above} \ {{}}
            IN  IF parts # {inside} /\ NoSplit(area) THEN Panic(r)
                ELSE FoldSet(LAMBDA S, c : insert(c, a, part(area, S)), remove(r, a, b), parts)
    IN  FoldLeft(step, q, ascending(overlapped(q, a, lo, hi)))

unmap_area(q, a, lo, hi) ==
    LET carved == carve(q, a, lo, hi)
    IN  FoldLeft(LAMBDA r, b : unmap(remove(r, a, b), a, The(r, a, b)),
                 carved, ascending(overlapped(carved, a, lo, hi)))

map_area_fixed(q, a, area) ==
    LET r == unmap_area(q, a, base_of(area), end_of(area))
    IN  IF r.panic THEN r ELSE insert(r, a, area)

set_map_area_perm(q, a, lo, hi, perm) ==
    LET carved == carve(q, a, lo, hi)
        step(r, b) == IF NoSetPerm(The(r, a, b)) THEN Panic(r)
                      ELSE [set_perm(r, a, The(r, a, b), perm) EXCEPT !.as[a].areas[b].perm = perm]
    IN  FoldLeft(step, carved, ascending(overlapped(carved, a, lo, hi)))

increase_userbrk(q, a, ubrk) ==
    LET old == q.as[a].brk
        page_count == (ubrk + PgSize - 1) \div PgSize
        more == NewArea("anon", {"R", "W"}, BrkBase + old.page_count, page_count - old.page_count)
        grown == IF page_count > old.page_count THEN map_area(q, a, more) ELSE q
    IN  IF ubrk < old.ubrk THEN q
        ELSE [grown EXCEPT !.as[a].brk = [ubrk |-> ubrk,
                                          page_count |-> Max({page_count, old.page_count})]]

\* Manager::try_to_fix_memory_fault: the area must allow the access.
fix_memory_fault(q, a, p, access) ==
    IF has_area(q, a, p) /\ access \in The(q, a, area_at(q, a, p)).perm
    THEN fix_fault(q, a, area_at(q, a, p), p, access)
    ELSE [q |-> q, fixed |-> FALSE]

translate_user(q, a, p, write) ==
    IF has_area(q, a, p) THEN translate(q, a, area_at(q, a, p), p, write)
    ELSE [q |-> q, f |-> NoFrame]

\* UserStack::new and push_argv_envp_auxv: the arguments fill the last page.
create_user_stack(q, a) ==
    LET f == NextFrame(q)
        stack == [NewArea("stack", {"R", "W"}, StackBase, StackTop - StackBase) EXCEPT
                     !.frames[StackTop - 1] = Allocated(f)]
        pushed == mmap(alloc(q, Args), a, (StackTop - 1) :> f, {"R", "W"})
    IN  IF FreeFrames(q) = {} THEN Panic(q) ELSE map_area(pushed, a, stack)

\* A new address space with the program in it.
load_program(q, c, image) ==
    LET segment(r, s) == map_area(r, c, FileArea("elf", s.perm, s.base, s.pages, s.file, 0, s.length))
    IN  create_user_stack(FoldLeft(segment, [q EXCEPT !.as[c] = NewSpace], image), c)

-----------------------------------------------------------------------------
(* Shared memory: SHM_MANAGER.                                              *)

\* A segment lives as long as its key is known or an area holds its frames:
\* fork and exit do not count, and shmdt is not there to call detach.
find_key(q, key) == {id \in DOMAIN q.shms : q.shms[id].key = key /\ ~q.shms[id].deleted}

\* ShmFrames::new does not zero its pages: they hold v.
create_shm(q, key, pages, v) ==
    LET add(r, i) == IF FreeFrames(r) = {} THEN Panic(r)
                     ELSE [alloc(r, v) EXCEPT !.shms[q.next_shmid].frames = @ @@ (i :> NextFrame(r))]
        shm == [key |-> key, frames |-> <<>>, ref_count |-> 0, deleted |-> FALSE]
    IN  FoldLeft(add, [q EXCEPT !.shms = @ @@ (q.next_shmid :> shm), !.next_shmid = @ + 1],
                 [i \in 1..pages |-> i - 1])

\* The code passes page_count * PGSIZE where is_map_range_overlapped takes pages.
attach(q, a, id, addr, perm) ==
    LET shm == q.shms[id]
        pages == Cardinality(DOMAIN shm.frames)
        taken == overlapped(q, a, addr, addr + pages * PgSize) # {}
        base == IF addr = 0 THEN find_mmap_ubase(q, a, pages) ELSE addr
        area == [NewArea("shm", perm, base, pages) EXCEPT
                    !.frames = [p \in DOMAIN @ |-> Allocated(shm.frames[p - base])]]
    IN  IF base = 0 \/ (addr # 0 /\ taken) THEN q
        ELSE map_area([q EXCEPT !.shms[id].ref_count = @ + 1], a, area)

mark_remove(q, id) ==
    IF q.shms[id].ref_count = 0 THEN [q EXCEPT !.shms = Restrict(@, DOMAIN @ \ {id})]
    ELSE [q EXCEPT !.shms[id].deleted = TRUE]

-----------------------------------------------------------------------------
(* The calls and the accesses, each one segment of the kernel.  A call that
   fails with an error leaves the state alone.                               *)

Live == {a \in Spaces : k.as[a].live}
Spare == Min(Spaces \ Live)
HasSpare == Cardinality(Live) < Load.spaces

End(q) == k' = IF q.panic THEN Panic(k) ELSE Dropped(q)

mmap_area(q, m, base) ==
    CASE m.kind \in {"anon", "anon_shared"} -> NewArea(m.kind, m.perm, base, m.pages)
      [] m.kind = "file" -> FileArea("file", m.perm, base, m.pages, m.file, m.offset, m.pages)
      [] m.kind = "shared_file" ->
            [FileArea("shared_file", m.perm, base, m.pages, m.file, m.offset, m.pages)
                EXCEPT !.entry = q.mapped[m.file]]

sys_mmap(q, a, m) ==
    LET opened == IF m.kind = "shared_file" THEN open_mapped_file(q, m.file) ELSE q
        taken == overlapped(q, a, m.addr, m.addr + m.pages) # {}
        base == IF m.addr = 0 \/ (~m.fixed /\ taken) THEN find_mmap_ubase(q, a, m.pages) ELSE m.addr
        area == mmap_area(opened, m, base)
    IN  IF base = 0 THEN opened
        ELSE IF m.fixed THEN map_area_fixed(opened, a, area) ELSE map_area(opened, a, area)

FewRefs(m) == m.kind = "shared_file" /\ m.file \in DOMAIN k.mapped
                  => k.entries[k.mapped[m.file]].ref_count < Load.refs

Mmap(a) == /\ Uses(a, "mmap")
           /\ \E m \in Load.maps : FewRefs(m) /\ End(sys_mmap(k, a, m))

Munmap(a) == /\ Uses(a, "munmap")
             /\ \E r \in Load.ranges : End(unmap_area(k, a, r[1], r[1] + r[2]))

Mprotect(a) == /\ Uses(a, "mprotect")
               /\ \E r \in Load.ranges, perm \in Load.prots :
                      End(set_map_area_perm(k, a, r[1], r[1] + r[2], perm))

Brk(a) == /\ Uses(a, "brk")
          /\ \E ubrk \in 0..Load.brk : End(increase_userbrk(k, a, ubrk))

\* get_or_create finds a segment or fails, or creates one as here; key 0 is IPC_PRIVATE.
Shmget(a) == /\ Uses(a, "shmget") /\ k.next_shmid <= Load.shms
             /\ \E key \in {0} \cup Keys, pages \in {1, 2}, v \in Load.values :
                    /\ key = 0 \/ find_key(k, key) = {}
                    /\ End(create_shm(k, key, pages, v))

Shmat(a) == /\ Uses(a, "shmat")
            /\ \E id \in DOMAIN k.shms, addr \in Load.shmaddr, perm \in Load.shmperm :
                   /\ k.shms[id].ref_count < Load.refs
                   /\ End(attach(k, a, id, addr, perm))

Shmctl(a) == /\ Uses(a, "shmctl")
             /\ \E id \in DOMAIN k.shms : End(mark_remove(k, id))

fork(q, a, c) ==
    FoldSet(LAMBDA b, r : IF r.panic THEN r ELSE area_fork(r, a, b, c),
            [q EXCEPT !.as[c] = [NewSpace EXCEPT !.brk = q.as[a].brk]], Bases(q, a))

Fork(a) == /\ Uses(a, "fork") /\ HasSpare
           /\ End(fork(k, a, Spare))

\* The caller gets a new address space; the old one goes with its last task.
Exec(a) == /\ Uses(a, "exec") /\ HasSpare
           /\ \E last \in BOOLEAN :
                 LET q == load_program(k, Spare, Load.image)
                 IN  End(IF last THEN [q EXCEPT !.as[a] = NoSpace] ELSE q)

\* The last task of the address space is gone.  Areas are dropped, not unmapped.
Exit(a) == /\ Uses(a, "exit") /\ Live # {a}
           /\ End([k EXCEPT !.as[a] = NoSpace])

\* The user's access, when the page table lets it through.
Store(a) == /\ Uses(a, "store")
            /\ \E p \in Load.touch, v \in Load.values :
                  /\ Permits(k.as[a].pt[p], "W")
                  /\ k' = [k EXCEPT !.mem[k.as[a].pt[p].page] = v]

\* memory_fault: an access that is not fixed is a SIGSEGV, see Process.
PageFault(a) ==
    \E call \in {"store", "load", "fetch"}, p \in Load.touch :
        LET access == CASE call = "store" -> "W" [] call = "load" -> "R" [] call = "fetch" -> "X"
        IN  /\ Uses(a, call) /\ ~Permits(k.as[a].pt[p], access)
            /\ End(fix_memory_fault(k, a, p, access).q)

\* copy_to_user_buffer, copy_from_user_buffer, get_user_string: page by page.
KernelStore(a) ==
    /\ Uses(a, "kstore")
    /\ \E p \in Load.touch, v \in Load.values :
           LET t == translate_user(k, a, p, TRUE)
           IN  End(IF t.q.panic \/ t.f = NoFrame THEN t.q ELSE [t.q EXCEPT !.mem[t.f] = v])

KernelLoad(a) == /\ Uses(a, "kload")
                 /\ \E p \in Load.touch : End(translate_user(k, a, p, FALSE).q)

\* The first process, loaded.
Boot(load, files) ==
    [load |-> load, as |-> [a \in Spaces |-> NoSpace], mem |-> <<>>, files |-> files,
     mapped |-> <<>>, entries |-> <<>>, shms |-> <<>>, next_shmid |-> 1, panic |-> FALSE]

Init == \E load \in DOMAIN Workloads :
            k = load_program(Boot(load, InitialFiles), Min(Spaces), Workloads[load].image)

Next == \E a \in Spaces :
            \/ Mmap(a) \/ Munmap(a) \/ Mprotect(a) \/ Brk(a)
            \/ Shmget(a) \/ Shmat(a) \/ Shmctl(a)
            \/ Fork(a) \/ Exec(a) \/ Exit(a)
            \/ Store(a) \/ PageFault(a) \/ KernelStore(a) \/ KernelLoad(a)

Spec == Init /\ [][Next]_k

-----------------------------------------------------------------------------
(* What the programs see, and the refinement of Memory.                     *)

Covered(q, a) == UNION {DOMAIN area.frames : area \in Range(q.as[a].areas)}
area_of(q, a, p) == The(q, a, area_at(q, a, p))
IsMapped(q, x) == \E b \in Bases(q, x[1]) : x[2] \in DOMAIN The(q, x[1], b).frames
IsShared(q, x) == IsMapped(q, x) /\ ~Private(area_of(q, x[1], x[2]))

\* The page at <<a, p>> as the next access will find it.
Sees(q, x) ==
    LET b == area_at(q, x[1], x[2])
        area == The(q, x[1], b)
        slot == area.frames[x[2]]
        pages == q.entries[area.entry].shared
    IN  CASE area.kind = "shared_file" /\ x[2] - b \in DOMAIN pages -> q.mem[pages[x[2] - b]]
          [] area.kind = "shared_file" /\ x[2] - b \notin DOMAIN pages -> FileValue(q, area.file, x[2] - b)
          [] area.kind # "shared_file" /\ slot.st # "Unallocated" -> q.mem[slot.f]
          [] area.kind # "shared_file" /\ slot.st = "Unallocated" -> InitialValue(q, area, x[2])

\* The memory behind a place of a shared mapping; a shared anonymous page has none
\* to share before it is touched.
Behind(q, x) ==
    LET b == area_at(q, x[1], x[2])
        area == The(q, x[1], b)
        slot == area.frames[x[2]]
    IN  CASE area.kind = "shared_file" -> <<"entry", area.entry, x[2] - b>>
          [] area.kind # "shared_file" /\ slot.st # "Unallocated" -> <<"frame", slot.f, 0>>
          [] area.kind # "shared_file" /\ slot.st = "Unallocated" -> <<"place", x[1], x[2]>>

Places == Spaces \X Pages
Seen == [x \in Places |-> IF IsMapped(k, x) THEN Sees(k, x) ELSE "Unmapped"]

Same == LET shared == {x \in Places : IsShared(k, x)}
        IN  [x \in shared |-> {y \in shared : Behind(k, y) = Behind(k, x)}]

Flat == INSTANCE Memory WITH Unmapped <- "Unmapped", view <- Seen, same <- Same

-----------------------------------------------------------------------------
(* Properties.                                                              *)

\* The kernel record is well formed; the areas stay on pages of the user, each at its
\* base, and do not overlap, whatever map_area_fixed, munmap and mprotect split.
TypeOK ==
    /\ k.panic \in BOOLEAN /\ k.load \in DOMAIN Workloads
    /\ DOMAIN k.mem \subseteq Frames /\ Range(k.mem) \subseteq Values
    /\ \A a \in Spaces : k.as[a].pt \in [Pages -> Pte]
    /\ \A a \in Spaces : \A b \in Bases(k, a) :
          LET area == The(k, a, b)
          IN  /\ area.kind \in Kinds /\ area.perm \in Perms /\ Range(area.frames) \subseteq Slot
              /\ b = base_of(area) /\ DOMAIN area.frames = b..(end_of(area) - 1)
              /\ DOMAIN area.frames \subseteq Pages
              /\ \A c \in Bases(k, a) : b < c => end_of(area) <= c

\* Address spaces are flat memories: no fault, split, copy on write, change of
\* protection or death of a relative shows in what a program finds in its pages,
\* and a store shows only there and in the shared mappings of the same memory.
IsFlatMemory == Flat!Spec

\* The page table agrees with the areas: an entry leads to the page its area has
\* there, which is allocated; it allows no more than the area; it lets the user
\* write a private page only if no other slot holds the page; and a page an
\* area of the process has brought in is in the page table.
EntriesAreBacked ==
    \A a \in Spaces, p \in Pages :
        LET pte == k.as[a].pt[p]
            area == area_of(k, a, p)
            slot == area.frames[p]
        IN  IF p \notin Covered(k, a) THEN ~pte.valid
            ELSE /\ pte.valid => /\ pte.page = slot.f /\ slot.f \in DOMAIN k.mem
                                 /\ pte.perm \subseteq area.perm
                                 /\ Private(area) /\ "W" \in pte.perm
                                        => Holders(k, slot.f) = {<<a, p>>}
                 /\ area.kind # "shm" /\ slot.st # "Unallocated" => pte.valid

\* A fault the kernel says it fixed is fixed: the access goes through when the user
\* comes back to it, and does not fault for ever.
FixedFaultsPass ==
    ~k.panic => \A a \in Live, p \in Load.touch, access \in {"R", "W", "X"} :
        LET r == fix_memory_fault(k, a, p, access)
        IN  ~Permits(k.as[a].pt[p], access) /\ r.fixed => Permits(r.q.as[a].pt[p], access)

\* find_mmap_ubase is first fit: the lowest free range between USER_MAP_BASE and the
\* stack, and none only if there is none.
FirstFit ==
    \A a \in Live, n \in 1..3 :
        LET free == {b \in MapBase..(StackBase - n) : overlapped(k, a, b, b + n) = {}}
        IN  find_mmap_ubase(k, a, n) = IF free = {} THEN 0 ELSE Min(free)

\* No assertion, expect or unimplemented! of the areas and of the page table fires.
NoPanic == ~k.panic

\* Areas, page table and search agree after every call, fault and death, and none
\* of their assertions fires.
AreasSound == TypeOK /\ EntriesAreBacked /\ FixedFaultsPass /\ FirstFit /\ NoPanic

=============================================================================
