# A TLA+ model of KernelX

KernelX is a Unix-like kernel for RISC-V written in Rust, with C libraries for ext4
(lwext4), the heap (TLSF) and small services (klib). This directory holds TLA+ modules
that model its concurrent core (tasks, processes, signals, timers, futexes, pipes and
poll), its virtual memory, its heap and its ext4 file system with the journal; the TLC
configurations that check them on small instances; and proofs that TLAPS checks about
the scheduler, processes, futexes, the block allocator and the ring of a pipe, for every
value of the constants. `PROJECT.json` maps every definition to the lines it models and
lists the runs, the mutants, the hazards, the finding and the theorems.

## The system

| Part | State it keeps | Operations | Talks to |
|---|---|---|---|
| scheduler (`kernel/scheduler`, `kernel/kthread`) | FIFO ready queue; state and `wakeup_event` of each Task | push, fetch, run, block, unblock, wakeup | everything that blocks |
| processes (`kernel/task`, `syscall/task.rs`) | PCBs: state, parent, children, threads, `waiting_task`; TCBs; the PCBS table | clone, vfork, exec, exit, exit_group, wait4 | scheduler, signals, futex |
| signals (`kernel/ipc/signal`) | pending signal and mask of a thread, queue and actions of a process | kill, tgkill, sigaction, delivery at trap return | processes, scheduler |
| timer (`kernel/event/timer`) | heap of timers | add, remove, expire in the timer interrupt | sleeps, poll, futex, itimers |
| futex (`kernel/usync/futex`) | wait list per address | wait, wake, requeue, wake at thread exit | scheduler, timer |
| pipes (`kernel/ipc/pipe`) | byte ring, two wait queues, writer count | read, write, poll registration, drop | scheduler, descriptors |
| poll, select (`syscall/event.rs`) | entries in wait queues, a timer | poll, select | pipes, timer, terminal |
| memory (`kernel/mm`) | areas, page tables, frames; LRU and swap slots in the swap build | fault, fork, mmap, munmap, mprotect, brk, swap | processes, files |
| shared memory (`kernel/ipc/shm`) | segments, reference counts | get, attach, remove | memory |
| heap (`clib/lib/tlsf`, `clib/src/klib/malloc.c`) | block headers, two-level bitmaps, free lists | malloc, memalign, realloc, free | everything |
| files (`kernel/task/fdtable.rs`, `fs/vfs`) | descriptors, dentries, inodes, mounts | open, dup, close, lookup, read, write | ext4, drivers |
| ext4 wrapper (`lib/lwext4_rust/src`, `fs/ext4`) | none of its own | lookup, create, link, unlink, rename, read_at, write_at, set_len | VFS above, lwext4 below |
| lwext4 (`lib/lwext4_rust/c/lwext4`) | bitmaps, group descriptors, inodes, extent trees, directories and their index, attributes, block cache, journal, mount table | the ext4 file system, by inode and by path | block devices |
| drivers (`driver`, `arch`) | terminal line and buffer, block queues | interrupt, read, write | poll, signals |

What is hard to get right: a wakeup races a block, a signal or a timeout races the
event waited for, an interrupted call leaves an entry or a timer behind, a thread is
killed while it sleeps in a call, parents and children exit in any order, relatives
share pages that are copied, split, protected and dropped in any order, neighbours in
the heap merge and split, the power fails between two writes, the disk runs full in the
middle of a call, and directory blocks split while names come and go.

### What the kernel uses of lwext4

The kernel does not use the interface of `ext4.c`, extended attributes or the journal
(the wrapper leaves `bd.journal` null). Through `lib/lwext4_rust/src` it calls
`ext4_fs_init` and `fini`, inode references, inode allocation, finding, adding, removing
and iterating directory entries, the extent functions, truncation, link counts and the
block cache. Directories that the wrapper creates have no index; the kernel meets one
only on images made elsewhere. The modules `Ext4`, `Ext4File`, `Xattr`, `Mounts` and
those of the journal therefore model a library that the repository ships, not a path of
the running kernel; `Files` and `Lwext4` model what the kernel runs.

### Execution model

The kernel is built with feature `no-smp` (one hart) and does not preempt kernel
code: interrupts are taken in user mode and in the idle loop of `run_tasks` only,
every system call ends in `current::schedule`, and the block drivers poll. What
runs between two switches is therefore atomic. A `SpinLock` that is locked while
held panics (`klib/ksync.rs`), and `debug_assert!` and `unreachable!` are live.

So a step of the composed models is a *segment*: the head of the ready queue gets
the hart and either returns to user mode (signals are delivered there) and makes
one system call, or resumes a call it blocked in; it runs until it blocks, exits
or goes back to the end of the queue. Timer interrupts come between segments. A call of
the file system does not block, so it is one step; what can come in between are power
failures, which the journal's model puts after every single write.

## Modules

| Module | Models | Notes |
|---|---|---|
| `TaskOps` | trait Task and the ready queue | functions on a record `[state, event, queue]` that every other module reuses |
| `Scheduler` | `run_tasks` and every caller that changes a task's state | the finest grain: every lock-protected step is an action; processes are sets of tasks |
| `TaskProofs` | | lemmas on the operators of `TaskOps`, shared by the next proofs |
| `SchedulerProofs` | | the inductive invariant and nine theorems |
| `Segments` | a segment of a task | `k` is the kernel record, `k.fate` turns to `"panic"` or `"halted"` |
| `Process` | `ipc/signal`: send, queue, receive; PCB, TCB, clone, exec, exit, wait4, kill | extends `Segments` |
| `ProcessProofs`, `ProcessCalls`, `ProcessTheorems` | | the inductive invariant and what waking, signals and the end of a process do to it; vfork, exit, exec and clone; the actions and four theorems |
| `Timer` | `event/timer` | functions on `k`; equal deadlines expire in any order |
| `Futex` | futex calls, nanosleep, thread exit | composes `Timer` and `Segments` |
| `FutexProofs` | | three theorems; the inductive invariant is in `Futex` |
| `Ring` | the byte ring of a pipe | pure functions and three theorems; a byte is its number in the stream |
| `Pipe` | `PipeInner`, `Pipe`, `WaitQueue` | composes `Ring` and `Segments` |
| `Poll` | poll and select | extends `Pipe` with `Timer` |
| `MapArea` | a user page table, physical pages; `kernel/mm/maparea`: the seven kinds of area | functions on `k`; entries by page number; one record for all kinds, the operations differ by `kind` |
| `AddrSpace` | `AddrSpace`, the area manager, the memory calls, shared memory, faults, kernel accesses | extends `MapArea`; a call is one step |
| `Memory` | | abstract: what the programs see, refined by `AddrSpace` |
| `Tlsf` | `tlsf.c`, `malloc.c` | operations on headers, bitmaps and lists; the heap with its callers |
| `Blockdev`, `Bcache` | `ext4_blockdev.c`, `ext4_bcache.c` | below and above the point where a write-back calls the journal; `Bcache` ends with the journal's checkpoint, which it calls |
| `Jbd`, `Recovery` | `ext4_journal.c`, `ext4_trans.c` | transactions and log; replay, start and stop |
| `Journal` | transactions of a file system with crashes | composes the four above; the writes of a call are kept in order, and a crash leaves a prefix |
| `AtomicStore` | | abstract: a durable and a visible image, refined by `Journal` |
| `Alloc` | `ext4_bitmap.c`, `ext4_balloc.c`, `ext4_ialloc.c`, block groups of `ext4_fs.c` | functions on a state record |
| `AllocProofs` | | four theorems on the block allocator |
| `Extent`, `Inode` | block references and inodes of `ext4_fs.c`, `ext4_extent.c` | both ways to map a file, and what is the same over both |
| `Files` | the file operations of the wrapper | composes `Alloc`, `Extent` and `Inode` |
| `FileMap` | | abstract: files as functions from offsets to bytes, refined by `Files` |
| `Dir` | `ext4_dir.c`, `ext4_dir_idx.c`, klib's `qsort` | a block is the sequence of its entries; the index lies in the slack of an entry, as on the disk |
| `Xattr` | `ext4_xattr.c` | areas of entries and values |
| `Ext4`, `Ext4File` | `ext4.c`: names; open files, links, attributes, listing | functions on the record of a mounted file system |
| `Lwext4` | `lwext4_rust/src/fs.rs`, `inode/dir.rs`, `fs/vfs/dentry.rs` | the kernel's calls over the same record, with dentries |
| `Mounts` | device and mount tables of `ext4.c` | |
| `Names` | programs and a kernel that call all of these | composes the six above |
| `NameSpace` | | abstract: a tree of named nodes and open files, refined by `Names` |
| `MCProcess`, `MCFutex`, `MCPoll`, `MCAddrSpace`, `MCJournal`, `MCFiles`, `MCNames` | | workloads, images and bounds for TLC |

Names of definitions are the names in the source (`wakeup_task`, `PCB_exit` for
`PCB::exit`, `ext4_ext_insert_extent`); an action that continues a call after its block
is named `...Resume`. What is abstracted:

- registers, memory contents and arguments that no property reads;
- the uid, umask, cwd, time counters and limits of tasks;
- a futex word is a value of an abstract address, a byte of a pipe its sequence
  number, time a count of ticks;
- a page holds one abstract value and is read and written as a whole; the accessed and
  dirty bits are left out (without swap they only repeat the access);
- in `Futex`, `Pipe` and `Poll` a signal is what it does to a sleeper (the wake with
  `Event::Signal`); `Process` has the queues, masks and delivery;
- on the disk: times, owners, checksums (they always verify), generation numbers and the
  superblock's statistics; the device does not fail and writes a block whole or not at
  all, and memory for the library's own objects does not run out;
- a name is a model value with a length and a hash, the hash is any function, with
  collisions; lengths in directories and attributes are counted in words of four bytes;
- entries have a file type (`EXT4_FINCOM_FILETYPE`), and the calls of `ext4.c` run without
  a journal, as in a mount that does not start it; the journal has its own run.

A *workload*, *job* or *image* is what the programs of a run do or find: the calls they
make, the state they start from and the bounds. `Init` picks one. Properties that hold
only when, say, nobody is killed name the calls (`Never({"kill"})`) and are checked by the
workload without them; the other workloads of the run check the rest.

In the file system's modules a state that the code does not handle is *registered*: the
operator adds a name to `odd` and goes on as the code does, where that is defined. A call
that leads to a situation outside the constant `Admitted` is not made. Of the passing
runs only `names` admits any (`locked twice`, `writes left delayed`); the section on
situations left out lists them all.

## Runs

| Run | Shows |
|---|---|
| `scheduler` | four Task objects, one ordinary event. `IInv`: queue entries have different tids (the `debug_assert` of `push_task`), no Ready task is missing from the queue, Running means on the hart, a woken task finds its event, live tids are unique. Exited is final, an uninterruptible block ends only by the child's exec or exit or by death, the FIFO starves nobody |
| `process_safety` | four Task objects. Five workloads: all calls without signals; one signal among threads, among children, during waits for a pid; vfork alone. `FamiliesSound`: exit codes are handed out once, the family tree is whole, exec and exit leave no thread. `AssertionsHold`. `SleepersHaveReason`: a single-threaded process other than init never sleeps in `wait_any_child` on an exited child; without kills and threads a vfork parent always has a child that will wake it |
| `process_fair` | SIGKILL ends a process that does not block, also from behind other queued signals; `wait_any_child` returns after an exit |
| `futex` | three threads, two futexes, two ticks, timeouts that can and that cannot be read. `SleepsCanEnd`: waiters are listed, nobody oversleeps. `ListsSound`: without signals and timed waits the lists hold exactly the waiters and nothing panics |
| `pipe_poll_safety` | seven workloads of up to three threads and two pipes. `SleepersHaveReason`: no reader or poller sleeps through its event. `StreamsSound`: the writer count is exact, the stream is in order while the ring does not fill up and the buffers written from are mapped. `QueuesSound`: without poll, signals and timeouts no stale entry is left and nothing panics; nor does anything panic on a single pipe without poll and select, signals or not |
| `pipe_poll_fair` | readers see end of file after the close, timed polls return |
| `memory` | eleven workloads of two or three address spaces. `AreasSound`: areas never overlap, the page table agrees with the areas and lets nobody write a page that another owns, a fault reported fixed does not come back, `find_mmap_ubase` is first fit, no assertion fires. `IsFlatMemory`: the address spaces implement `Memory` |
| `tlsf` | all sequences of calls on a heap of 76 bytes and a second pool: blocks tile their pools and their headers agree, bitmaps and lists name exactly the free blocks, allocations are disjoint, aligned and large enough, no two free blocks are neighbours and nothing leaks, a request fails only when no class can serve it |
| `journal` | three workloads over a log that wraps, up to two power failures, each after any write, also during recovery: the journal implements `AtomicStore` (a mount finds all of a transaction or nothing, and no revoked block is replayed over file data), only commits and data writes change what a mount finds, the recovery flag is off only when everything is home, no buffer stays referenced |
| `files` | four images, up to two files, five operations: a block has one owner and what is marked used is owned (`OwnedOnce`), free counts, bitmaps and block counts agree (`CountersAgree`), extent trees stay search trees within the file's size (`TreesSound`), and the files implement `FileMap`: bytes of a former owner never show, also when the disk runs full |
| `names` | linear and indexed directories, hard links, open files, symbolic links, attributes, listings, the kernel's calls with dentries, mount tables: the calls implement `NameSpace` with their results; every entry is found by the search; directory blocks are tiled and no block is lost; link counts are exact and the names form a tree; locks and delayed writes are given back on every path but the three that `CallsBalanced` names, a full disk in a write or a symbolic link and two calls that take their own lock again; a listing gives each name that stayed once, also when the entry it would give next is removed, unless a block of an indexed directory is split meanwhile; attributes do not overlap; cached dentries are fresh; devices are open just while mounted |
| `names_missorted` | violation: with the order in which klib's `qsort` really leaves the entries, a split puts an entry where its hash does not lead, and the lookup misses a file that is there |

The last run is the finding in `PROJECT.json`. `_qsort_inner`
(`clib/src/klib/stdlib.c:12`) keeps `pivot` as a pointer into the array it swaps, so
the pivot changes under the comparisons: (6, 8, 4, 2) becomes (2, 6, 4, 8). Its only
caller is `ext4_dir_dx_split_data` (`ext4_dir_idx.c:961`), whose caller's comment
(`ext4_dir_idx.c:1316`) says the split "includes sorting by hash value". The passing
`names` run leaves out the splits in which the result is not sorted.

**The abstract specifications.** `Memory` has a function `view` from places (an address
space and a page) to contents, and for each place of a shared mapping the set `same` of
places with the same memory. A store changes the view at one place and at those that are
the same; a fork gives the child the parent's view; mmap, munmap and mprotect change only
the caller's own mapping; faults, kernel reads and failed calls change nothing. In
`AddrSpace`, `Seen` and `Same` compute both from areas, frames, mapped files and segments
(a page not loaded yet counts as what loading it would give). So copy on write, lazy
loading, write-back and the take-over of a page by its last owner must not show.

`AtomicStore` has the image the next mount finds and the image the running system reads.
The mapping is computed by what recovery would do: the durable image of `Journal` is the
disk after `jbd_recover`, so a step that changes it by writing one block too early, or by
freeing the log too soon, is not a step of the abstract store. `FileMap` maps `read_at` of
every file; `NameSpace` maps what the calls return and what a walk finds. A call of the
abstract name space may fail for lack of space, but then leaves everything or, for a path
it creates, a prefix of the path.

**Bounds.** Task objects are used once, so four of them are four lives: enough for a
parent with two children, a vfork child that execs, two threads waiting for one
child, and an orphan. Two futexes are what requeue needs, three threads what a stale
entry in front of a waiter needs. The ring has four bytes and pages of two, so that
reads and writes wrap and a write spans chunks; the capacity is twice the ring, as in
the code. Two ticks separate an expired timer from a pending one. `entries`, `waiters`,
`kills`, `timers` and `bytes` keep lists that the code never shortens finite.

The memory run has nine pages: text, data, two of the break, three between
`USER_MAP_BASE` and the stack, two of the stack. Three pages let a cut leave a part on
both sides; three address spaces are a parent, a child and a grandchild that share one
page. Every workload touches one or two pages, `refs` bounds reference counts that never
go down.

The heap has two levels of classes, four second-level classes each, words of two bytes
and up to three live pointers: enough for a block with a live or a free neighbour on
either side, and for sizes on both sides of a class boundary. The log has 14 blocks, two
tags to a descriptor and one address to a revoke block, so that a transaction fills its
descriptor and the log wraps; the cache has four buffers, fewer than the blocks
in use, so that it evicts. The disk of `files` has two groups, the second short, blocks of
two bytes and nodes of two entries, so that a file of three blocks has a tree of depth
two. A directory block of `names` has room for four names, an index root for two entries,
an index node for five: images with nine names split leaves, split the root into a second
level and split nodes. The root of an index with checksums has room for one entry at this
block size, so it splits at once and the next walk refuses the node; the indexes that grow
are without checksums. Five inodes and the few free blocks of most images let the disk run
full. The number of operations of an image is its bound (`MaxOps`, `ops`). The two calls
that `names` lets hang end the behaviour; a write or a link cut short by a full disk
counts in `cut`, which bounds the delayed writes left on.

**Deadlock** is checked in the memory and heap runs. In the others it is not: a run may
end with every task asleep or exited, with init gone (the kernel halts), with all Task
objects used up, or with the operations of the image done.

**Fairness.** `Scheduler`: the loop of `run_tasks` goes on, kernel code ends in
`schedule` and the timer interrupt takes the hart back from user code, so fetching,
dropping, scheduling and taking an event are weakly fair; nothing is assumed of
wakeups or of what programs call. The composed models: some segment of a ready task
runs and the timer interrupt comes (`WF(Segment)`; `Process` writes the enabling
condition of `WF(Next)` out: the hart is `Idle` over and over, or keeps taking steps). The heap and the file
system have no liveness properties: their calls run to the end in one step.

**Mutants.** Each property of a passing run is paired with a change of the modelled
code that it catches: a forgotten push, a push without a look, a dropped requeue entry,
`<` for `<=` in the timer, a revocation that is not looked up, a merge that leaves the
next block's back pointer, a boundary hash without its collision mark, writes left delayed
on a way out. They stand beside the definition
they change.

## Disagreements that have no run

Each of these is in the model, and its hazard in `PROJECT.json` has the lines; the
passing runs state their properties for programs that stay clear of them.

- `wait_child` (`pcb.rs:257`), woken by another child's exit, sleeps on a child that
  exited meanwhile; `docs/utask.md:170` says it blocks only when no child has exited.
- The entry an interrupted futex wait leaves (`syscall/futex.rs:66`) uses up a wake,
  against `docs/ipc.md:87`.
- The capacity of a pipe (`pipe/inner.rs:270`) is twice its ring, so that a full ring
  reads as empty and its bytes are lost; the comment at line 278 says "If buffer is full,
  wait for space". Theorem `FilledReadsAsEmpty` shows it for every size.
- The timer that poll leaves behind (`syscall/event.rs:302`) ends a later read in the
  `unreachable!` of `pipe/inner.rs:201`.
- A read that a signal interrupts leaves its entry in the wait queue (`pipe/inner.rs:196`);
  with a second pipe the entry wakes a later write of the same thread with an event that
  ends in `unreachable!`. `NoPanic` claims the single pipe only.
- A futex wait whose timeout cannot be read returns `EFAULT` when the caller is already
  listed (`syscall/futex.rs:61`), and so leaves an entry as an interrupted one does.
- A write from a buffer that ends in unmapped memory stores the chunks before it and
  returns the full length (`ubuf.rs:50` ends the iteration without an error). A read into
  one keeps the bytes in the ring, as it should.
- `mprotect` after a fork (`anonymous.rs:291`) makes copy-on-write pages of anonymous
  memory writable in place, against the comment at line 296.
- Truncation to a length whose last block is in a hole (`ext4_extent.c:1724`) removes
  nothing; `ext4_extent.h:59` says "Release all data blocks starting from specified
  logical block."

Others (an interrupted kernel-buffer read returns 0, `read_to_user` wakes no writer,
`wait_event` ignores a write end polled for both directions, a thread that exited alone
swallows a signal, the exit of a thread that is still listed on its own futex, the parent
of a killed vfork child that nobody wakes) are in the hazards.

## Situations left out of the passing runs

The memory workloads stay clear of

- calls that end in a panic: munmap of shared memory never touched, a cut through or
  mprotect of a stack or of shared memory, a cut through a shared file mapping, a kernel
  access to a shared file mapping, a break that grows into a mapping placed by hint;
- calls that lose coherence: fork and munmap of a shared file mapping (fork does not count
  the child), mprotect of copy-on-write anonymous or private file pages, private and
  shared mappings of one file at a time, an offset in a shared file mapping (the code
  ignores it);
- permissions with W and without R, which RISC-V reserves.

A shared anonymous page that no one touched before the fork is not shared after it;
`Same` says so. The last holder of a shared file mapping writes back every page it
touched, those past the end of the file too, which grows; the model has this. The
kernel's access to shared memory gives the start of the page whatever the offset in it:
pages are the unit of the model, so it has the right page and not the wrong place in it.

In the file system's modules the names below are members of `odd` or guards on
`Admitted`. What the code does there is modelled up to the point where it is undefined.

| Module | Situation | The code |
|---|---|---|
| `Journal` | `abort after free`, `free after change` | a transaction that released a block is aborted (`ext4.c:648`), or releases a block it changed before (`ext4_balloc.c:152`): the revocation and the buffer do not meet |
| | `restart` | a session after a clean stop starts with transaction number 0 again (`ext4.c:489`) |
| | `unflagged replay` | a crash during the replay of a log whose flag a stop, itself cut short, has cleared |
| `Alloc` | `far goal` | a goal before the first block, in a group that does not exist (`ext4_balloc.c:363`), or past the end of a short last group, where the length of the search wraps (`ext4_bitmap.c:94`): bits outside the bitmap are searched |
| `Extent` | `mixed extent`, `prepend` | an insertion joins extents of different kinds (1267), or extends one to the front without moving its physical start (1279) |
| | `failed split` | the disk runs full while a node is split: entries already moved are lost (1123), a length is restored without its mark (1897) |
| | `hole`, `middle` | truncation that starts in a hole (1724); a write into the middle of an unwritten extent (1921) |
| `Files` | `hole write`, `hole fill` | `write_bytes` to a block that is not there (`file.rs:59`), or a new block of which a part is written and the rest is old |
| | `lost growth`, `lost write` | the disk runs full in `set_len` (296) or `write_at` (190) after the size or the segment changed |
| `Dir` | `missorted`, `half empty split` | `qsort` leaves the hashes out of order; half of the block has no entries (`ext4_dir_idx.c:961`) |
| | `lost entry`, `unread block` | the result of the insertion after a split is dropped (1323); a block that was not read is put (1288) |
| | `refused node` | an index node with a wrong limit or count (567, 617): its block is put for the root's, or twice (761, 1274). With checksums every node that a split makes is one: its limit leaves no room for the tail (1159, 1203) |
| `Ext4` | `locked twice` | `ext4_readlink` and the failing walk of `removexattr` take the lock of the mount point again; `names` admits it and the call hangs |
| | `dangling entry` | the entry of a new directory stays when its dots cannot be written (`ext4.c:251`) |
| | `moved below itself` | rename does not look whether the target is below the source |
| | `freed while open`, `linked child`, `directory kept` | removal frees an open inode (1520), `ext4_dir_rm` truncates a file with other links (2994) or stops at a link count (3090) |
| `Ext4File` | `written read-only` | `O_RDONLY` is 0, so the test for it (1852) refuses nothing |
| | `position past the end` | another open file shortened the file (1709, 1874) |
| | `writes left delayed` | a full disk in the middle of `ext4_fwrite` (1962) or of a long symbolic link (2477); `names` admits it |
| | `stale offset` | the entry a listing would give next is gone and its place written over (`ext4_dir.c:159`) |
| `Xattr` | `empty value moved`, `old value lost`, `finder not set`, `full body` | offsets of empty values are moved (`ext4_xattr.c:1384`), a value that moves to the block and does not fit is gone (1541), the block is searched with a finder nobody set (1417), a body without room for the last word (1534) |
| `Lwext4` | `inode leaked` | create fails after it made the inode, which stays (`fs.rs:168`) |
| | `special file kept`, `freed while held`, `parent not found` | unlink of a FIFO or device fails after its entry is gone (`fs.rs:257`); an inode is freed that a dentry holds; `..` of an indexed directory is not found (209) |
| | `entry lost`, `target lost` | rename unlinks the target before it looks for the source and before it adds the entry (206) |
| | `second entry`, `stale dentry`, `dentries left behind` | link over an existing name (`dentry.rs:177`); rename leaves the dentries of the replaced name and below the moved directory (190) |
| `Mounts` | `device mounted twice`, `name mounted twice`, `unmounted twice` | the tables are not searched for the device (`ext4.c:411`), the first free slot comes before a mounted one of that name (363), a slot keeps its name (460) |

A split of an indexed directory sorts the entries of the block and moves half of them to
the end, so a listing in progress may give a name twice or not at all; `ListingComplete`
makes no claim there. No tag of a log names block 0: the library writes the superblock
past the log, and the branch of the replay for it (`ext4_journal.c:927`) is left out.

Also met: `ext4_fremove` of a directory returns `EOK` and does nothing; the search for
`.` and `..` in an index fails; link counts are 16 bits with no check for the limit; the
inode allocator's `continue` (`ext4_ialloc.c`) does not go to the next group, so a group
with a free count and no clear bit loops for ever; `tlsf_realloc` with a size of
`block_size_max` or more computes `adjust` as 0, trims the block and returns it as if it
had room (the heap run asks for no such size); a path goes to the first mount point whose
name is a prefix of it.

## Proofs

`SchedulerProofs` proves, for any set of tasks and events (assumptions:
`NoTask \notin Tasks`, `InitTask \in Tasks` and `NoEvent` is no event), that `IInv` is an
invariant and from it the type invariant and `QueuedTidsDiffer`, `ReadyTasksAreQueued`,
`RunningIsCurrent`, `WakeupHasEvent`, `LiveTidsDiffer`, `ExitedIsFinal` and
`UninterruptibleEndsWithVFork`.

None of the properties is inductive. `QueuedTidsDiffer` needs that the queue only
holds tasks that are Ready or have exited, so that a wakeup, which looks for Blocked,
never pushes a queued task; the push of `wakeup_task_uninterruptible`, which does not
look, needs that a task someone waits for in vfork is still in its uninterruptible
block or has exited for good (`VForkParents`); and since exec gives the caller's tid to
a new object, equal tids in the queue are excluded by showing that all but one of the
tasks that share a tid have exited and are in nobody's queue (`SharedTidsAreRetired`,
`Retired`). `IInv` is the conjunction; the proof has one step per action and, under it,
one per conjunct the action touches. TLC checks `IInv` too, in run `scheduler`.
The two action properties follow from `IInv`, action by action: only
`wake_parent_waiting_vfork` and the end of a process touch a task in an uninterruptible
block.

`ProcessProofs`, `ProcessCalls` and `ProcessTheorems` prove the three properties of run
`process_safety` for any number of tasks and any workload: `FamiliesSound`,
`AssertionsHold` and `SleepersHaveReason`. The assumptions are `NoTaskAssumption` and
`ProcessAssumption`: tasks are numbered from 1 as the tids are, init is one of them, and
the workloads are well formed. The inductive invariant `IInv` is stated of a kernel record
in the middle of a segment of task `run`, so that it can be carried through the calls a
segment makes one after the other. Its conjuncts, and what asks for each:

- `Typed`, `Queueing` and `Fresh` hold always. `Queueing` is the argument of
  `SchedulerProofs` again, over segments: whoever may still come to the queue (`Active`)
  has a tid of its own, although `exec` hands its tid on. `Fresh`: what `clone` has not
  handed out yet is blank, so that a new thread or process starts clean.
- `Families` adds to `FamilyTree` that a parent is older than its children. Without that,
  `reparent_to_init` could be handed a process that is its own ancestor, or init as an
  orphan.
- `Threads`: the lists of a process hold threads of its own, so that the end of a process,
  which goes through its lists, leaves no thread alive.
- `Sleeping`: where a task can sleep and which event it can find when it wakes. It makes
  the `unreachable!()` after each block unreachable.
- `Waiting`: the only thread of a process in `wait_any_child` is registered in
  `waiting_task`, no child has exited behind it, and an event that names a child names
  one it can reap. The property only says that no child has exited; it is kept by
  `PCB::exit`, which wakes what is registered.
- `Peaceful` and `VForked`: without kill and threads SIGCHLD, which is ignored, is the only
  signal, hence a vfork child ends by its own `exec` or `exit` only; the parent in its
  uninterruptible block has a child alive or is being woken by the task that runs.

The conjuncts from `Families` on are claimed while `fate` is `"up"`: the exit of init halts
the machine in the middle of a segment.

`FutexProofs` proves the two properties of run `futex`, `SleepsCanEnd` and `ListsSound`,
for any threads, addresses and workloads (`FutexAssumption`: finitely many tasks, and well
formed workloads). `IInv`, at the end of `Futex`, adds to them that a timed sleep has its
timer and no timer left is in the past (`SleepsAreTimed`, from which `NoOversleep`
follows), and that without timeouts and signals each sleeper has one entry or one timer
and finds the event it waits for (`EachWaitsOnce`). The work is in wake and requeue: that
the entries picked from one list and those left or moved to another are all of them, in
order, once.

Both rest on `TaskProofs`: pushing, taking and waking, and `Picked`, the entries of a
sequence that stand at some places. `Picked` is a recursive function; the lemmas on it
come from a minimal counterexample (`WFMin`), since the induction theorems of the library
take an operator, which no prover here can instantiate.

`AllocProofs` is about the operators of `Alloc`, for every number of blocks, group size,
bitmap and goal (assumption `AllocAssumption`: the superblock's geometry is sane, and the
bits searched near the goal are a multiple of a byte). From a state whose counts are those
of its bitmaps (`CountsExact`), and for a goal that has a bit in a bitmap or is the first
past its end (not a `far goal`), `ext4_balloc_alloc_block` hands out a block that was free,
takes no other, keeps the counts exact, and fails only when no block is free
(`AllocBlockTakesAFreeBlock`); `ext4_balloc_try_alloc_block` takes its block just when it
is free; freeing a block or a run within a group frees just those. The argument goes
through the searches: the search near the goal, in the goal's group from the goal and from
its start, and in the other groups, covers every clear bit, and each returns a clear bit
or none. One lemma is of interest: `ext4_bmap_bit_find_clr` answers with its start, not
with the bit it found, for a clear bit before the first byte boundary. This is harmless
because the search near the goal ends at a byte boundary and has looked at those bits
before; it is why the proof needs the assumption on `NearGoal` (64 in the code).

`Ring` proves, for every ring and page size (`RingAssumption`), that popping drops the
oldest bytes and leaves the rest in order, that pushing bytes that leave a place free
appends them and overwrites nothing, and that pushing as many as there are free places,
which `push_back_ubuf` does when the whole buffer is mapped, leaves a ring that reads as empty.

Only model-checked:

- all liveness (the prover has no fairness) and the refinements of `Memory`,
  `AtomicStore`, `FileMap` and `NameSpace`;
- the invariants of `Pipe` and `Poll`. They hold for the workloads of the run and not for
  every value of the constants: a poller has no entry for a descriptor that cannot give
  what it asks for. A theorem would need the workloads' shape as an assumption;
- `AreasSound` of `AddrSpace`: a kernel that runs out of pages panics, so it holds for
  images that fit and not for every number of pages;
- the heap, the journal, `Files` and `Names`, and everything that a recursion computes,
  such as extent trees, the walks of a path and `qsort` (induction over data is out of the
  prover's reach, and modules with `RECURSIVE` operators hold no theorems).

## Not modelled, and why

- Swap (off in the default build): the LRU passes, dirty bits, slots, the family chain.
- Descriptor tables, path walks over several directories and mounts, symbolic links in
  kernel paths, the inode cache, the table of superblocks, and the memory file systems.
- The remaining signal calls (sigaction, sigprocmask, sigreturn, sigsuspend,
  sigtimedwait, setitimer) and the line discipline of the terminal.
- Of the file system: `ext4_mkfs`, the partition table and checksums (pure layout, not
  called by the kernel); attribute blocks shared by several inodes (this code never makes
  one); open files across an unmount; a journal under the calls of `ext4.c` (each was
  checked alone); I/O errors. The mount tables are checked beside the file calls, not
  under them.
- libfdt: sequential reading of one blob at boot; byte layout without state.
- Register-level drivers and firmware, ELF parsing, procfs text, the layouts of the user
  ABI, C test programs and host tools.

Next, in this order of interest: `Swap`; the descriptor table and the VFS over `Lwext4`;
the journal under `Ext4`; the remaining signal calls; proofs that the streams of pipes
are sound and that the heap's blocks tile their pool.
