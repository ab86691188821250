-------------------------------- MODULE Pipe --------------------------------
(***************************************************************************)
(* Pipes (ipc/pipe) over the scheduler: readers and writers that block,    *)
(* end of file, signals, and threads that die in a call.  read and write   *)
(* of a user buffer are read_to_user and write_from_user; readv, writev    *)
(* and sendfile go through the kernel-buffer versions.                     *)
(***************************************************************************)
EXTENDS Ring, Timer, Segments, FiniteSets

CONSTANTS Pipes,
          Capacity,     \* config::PIPE_CAPACITY, twice RingSize in the code
          Workloads     \* name -> what the threads of a run do

AllCalls == {"read", "write", "readv", "writev", "nonblock", "flood", "close",
             "kill", "die", "poll", "select", "unmapped_read", "unmapped_write"}

\* The calls threads make ("nonblock": the descriptors may be O_NONBLOCK; "flood":
\* programs do not keep the unread bytes of a pipe below RingSize; "unmapped_read",
\* "unmapped_write": pages of a user buffer may be missing), the sizes of reads and
\* writes, how many threads and pipes there are; and the bounds: bytes written to
\* one pipe, and the length of a wait queue at which a call is still made (an
\* interrupted call leaves its entry behind).
IsWorkload(w) ==
    /\ w.calls \subseteq AllCalls
    /\ w.lens \subseteq Nat \ {0}
    /\ w.threads \in 1..Cardinality(Tasks) /\ w.pipes \in 1..Cardinality(Pipes)
    /\ {w.bytes, w.waiters} \subseteq Nat

ASSUME PipeAssumption ==
    /\ Capacity \in Nat
    /\ \A name \in DOMAIN Workloads : IsWorkload(Workloads[name])

(* The kernel record k has the fields of Segments and Timer, and
     load      the name of the workload
     pipes     the pipes that were created
     fifo, read_waiter, write_waiter, writer_count: fields of PipeInner
     open      the pipes whose write end is in a descriptor table
     holds     task -> the write ends (Arc<Pipe>) its blocked call holds
     sent      pipe -> bytes the write calls said they took; a byte is its number
     got       pipe -> bytes the read calls returned
     garbled   pipes from which a read returned a byte out of turn
   pc[t].arg is [p, n] in a read or write: the pipe and the size.           *)

Load == Workloads[k.load]

ReadReady == [type |-> "ReadReady", arg |-> 0]
WriteReady == [type |-> "WriteReady", arg |-> 0]
SignalEvent == [type |-> "Signal", arg |-> 0]

-----------------------------------------------------------------------------
(* WaitQueue and PipeInner.                                                 *)

\* WaitQueue::remove: the first entry of t.
remove_waiter(w, t) ==
    LET mine == {i \in 1..Len(w) : w[i].task = t}
    IN  IF mine = {} THEN w ELSE Picked(w, 1..Len(w) \ {Min(mine)})

wake_readers(q, p) == wake_all([q EXCEPT !.read_waiter[p] = <<>>], q.read_waiter[p])
wake_writers(q, p) == wake_all([q EXCEPT !.write_waiter[p] = <<>>], q.write_waiter[p])

\* wait_current: block, then push_back.
wait_read(q, p, where, n) ==
    [BlockAt(q, where, [p |-> p, n |-> n]) EXCEPT
        !.read_waiter[p] = Append(@, Waiter(Me, ReadReady))]

wait_write(q, p, where, n) ==
    [BlockAt(q, where, [p |-> p, n |-> n]) EXCEPT
        !.write_waiter[p] = Append(@, Waiter(Me, WriteReady)),
        !.holds[Me] = {p}]

\* The bytes leave the ring for the caller's buffer.
take_bytes(q, p, n) ==
    LET m == Least(n, len(q.fifo[p]))
        bytes == SubSeq(contents(q.fifo[p]), 1, m)
    IN  [q EXCEPT !.fifo[p] = pop(@, m),
                  !.got[p] = @ + m,
                  !.garbled = IF \A i \in 1..m : bytes[i] = q.got[p] + i
                              THEN @ ELSE @ \cup {p}]

\* The next n bytes of the stream.
fresh_bytes(q, p, n) == [i \in 1..n |-> q.sent[p] + i]

\* Mutant: readers are not told that the last writer left.
decrement_silently(q, p) == [q EXCEPT !.writer_count[p] = @ - 1]

\* decrement_writer_count, with its assertion; pollers are told HangUp.
decrement_writer_count(q, p) ==
    LET hung_up(w) == IF w.arg.type = "PollReadReady"
                      THEN [w EXCEPT !.arg.type = "PollHangUp"] ELSE w
        less == [q EXCEPT !.writer_count[p] = @ - 1,
                          !.read_waiter[p] = [i \in DOMAIN @ |-> hung_up(@[i])]]
    IN  CASE q.writer_count[p] = 0 -> Panic(q)
          [] q.writer_count[p] = 1 -> wake_readers(less, p)
          [] OTHER -> [q EXCEPT !.writer_count[p] = @ - 1]

\* Drop for Pipe, when an Arc of the write end went away and it was the last.
drop_write_end(q, p) ==
    IF p \in q.open \/ \E u \in Tasks : p \in q.holds[u]
    THEN q
    ELSE decrement_writer_count(q, p)

-----------------------------------------------------------------------------
(* Calls.                                                                   *)

UserCall(c) == c \in Load.calls /\ CanRun /\ k.pc[Me].at = "user"
Blocking == IF "nonblock" \in Load.calls THEN BOOLEAN ELSE {TRUE}

\* Whether the user buffer of a read is there, and how many pages of one of n bytes
\* a write finds.
Mapped == IF "unmapped_read" \in Load.calls THEN BOOLEAN ELSE {TRUE}
MappedPages(n) ==
    LET all == (n + PageSize - 1) \div PageSize
    IN  IF "unmapped_write" \in Load.calls THEN 0..all ELSE {all}

\* read_to_user, from the lock of the ring on.  The ring keeps the bytes when the
\* copy to the user faults.
read_to_user(q, p, n, blocked, mapped) ==
    IF is_empty(q.fifo[p])
    THEN IF q.writer_count[p] > 0 /\ blocked THEN wait_read(q, p, "read", n)
         ELSE Return(q)
    ELSE Return(IF mapped THEN take_bytes(q, p, n) ELSE q)

Read == UserCall("read") /\
    \E p \in k.pipes, n \in Load.lens, blocked \in Blocking, mapped \in Mapped :
        /\ Len(k.read_waiter[p]) < Load.waiters
        /\ k' = read_to_user(Fetched, p, n, blocked, mapped)

ReadResume ==
    /\ Resume("read")
    /\ LET a == k.pc[Me].arg
       IN  \E mapped \in Mapped :
           k' = CASE k.event[Me].type = "ReadReady" -> read_to_user(Resumed, a.p, a.n, TRUE, mapped)
                  [] k.event[Me].type = "Signal" -> Return(Resumed)
                  [] OTHER -> Panic(Resumed)

\* PipeInner::read.  Writers are woken by its loop, which one byte, read before
\* the loop, does not reach.
ReadV == UserCall("readv") /\
    \E p \in k.pipes, n \in Load.lens, blocked \in Blocking :
        /\ Len(k.read_waiter[p]) < Load.waiters
        /\ LET q == take_bytes(Fetched, p, n)
           IN  k' = IF is_empty(k.fifo[p])
                    THEN IF k.writer_count[p] > 0 /\ blocked
                         THEN wait_read(Fetched, p, "readv", n)
                         ELSE Return(Fetched)
                    ELSE Return(IF Least(n, len(k.fifo[p])) > 1
                                THEN wake_writers(q, p) ELSE q)

\* The event that woke it is neither looked at nor taken.
ReadVResume ==
    /\ Resume("readv")
    /\ LET a == k.pc[Me].arg
       IN  k' = IF is_empty(k.fifo[a.p])
                THEN Return(Fetched)
                ELSE Return(wake_writers(take_bytes(Fetched, a.p, a.n), a.p))

\* The program of the run writes n bytes more to p.
CanWrite(p, n) ==
    /\ p \in k.open /\ Len(k.write_waiter[p]) < Load.waiters
    /\ k.sent[p] + n <= Load.bytes
    /\ "flood" \in Load.calls \/ k.sent[p] - k.got[p] + n < RingSize

\* The end of a write call that pushed the bytes and reports m of them.
written(q, p, m) ==
    drop_write_end(wake_readers([q EXCEPT !.sent[p] = @ + m, !.holds[Me] = {}], p), p)

\* write_from_user ("write") and PipeInner::write ("writev") below the capacity,
\* from the look at the room on.  The first says it took all n bytes, whatever
\* push_back_ubuf pushed.
write_small(q, p, n, where, blocked, pages) ==
    LET bytes == fresh_bytes(q, p, n)
        pushed == [q EXCEPT !.fifo[p] = IF where = "write" THEN push_back_ubuf(@, bytes, pages)
                                        ELSE push(@, bytes)]
    IN  CASE Capacity - len(q.fifo[p]) >= n -> Return(written(pushed, p, n))
          [] Capacity - len(q.fifo[p]) < n /\ blocked -> wait_write(q, p, where, n)
          [] OTHER -> Return(q)

\* The same two, of a buffer of the capacity or more: never blocks.
write_large(q, p, n, where, pages) ==
    LET room == RingSize - len(q.fifo[p])
        m == IF where = "write" THEN Least(n, room) ELSE n - len(q.fifo[p])
        pushed == [q EXCEPT !.fifo[p] =
                      IF where = "write" THEN push_back_ubuf(@, fresh_bytes(q, p, n), pages)
                      ELSE push(@, fresh_bytes(q, p, m))]
    IN  Return(written(pushed, p, m))

Write == \E where \in {"write", "writev"} :
    /\ UserCall(where)
    /\ \E p \in k.pipes, n \in Load.lens, blocked \in Blocking :
          /\ CanWrite(p, n)
          /\ \E pages \in MappedPages(n) :
                k' = IF n >= Capacity THEN write_large(Fetched, p, n, where, pages)
                     ELSE write_small(Fetched, p, n, where, blocked, pages)

WriteResume == \E where \in {"write", "writev"} :
    /\ Resume(where)
    /\ LET a == k.pc[Me].arg
       IN  \E pages \in MappedPages(a.n) :
           k' = CASE k.event[Me].type = "WriteReady" ->
                       write_small(Resumed, a.p, a.n, where, TRUE, pages)
                  [] k.event[Me].type = "Signal" ->
                       Return(drop_write_end([Resumed EXCEPT !.holds[Me] = {}], a.p))
                  [] OTHER -> Panic(Resumed)

\* The write end leaves the last descriptor table.
Close == UserCall("close") /\
    \E p \in k.open : k' = Return(drop_write_end([Fetched EXCEPT !.open = @ \ {p}], p))

\* A signal with a handler for thread t.
Kill == UserCall("kill") /\
    \E t \in Tasks : k' = Return(wakeup_task(Fetched, t, SignalEvent))

\* The process of thread t is killed by another: what t holds on its kernel stack
\* is never dropped, since the stack is not unwound.
Die == UserCall("die") /\
    \E t \in {u \in Tasks \ {Me} : k.state[u] # "None"} : k' = Return(mark_exited(Fetched, {t}))

-----------------------------------------------------------------------------
\* Pipe::create of every pipe, before the threads of the run start.
Init == \E name \in DOMAIN Workloads : \E all \in Orders(Tasks),
            pipes \in kSubset(Workloads[name].pipes, Pipes) :
    LET order == SubSeq(all, 1, Workloads[name].threads) IN k =
    [load |-> name,
     pipes |-> pipes,
     state |-> [t \in Tasks |-> IF t \in Entries(order) THEN "Ready" ELSE "None"],
     event |-> [t \in Tasks |-> NoEvent],
     queue |-> order,
     pc |-> [t \in Tasks |-> User],
     fate |-> "up",
     now |-> 0, timers |-> {}, next_timer_id |-> 0,
     fifo |-> [p \in Pipes |-> new(0)],
     read_waiter |-> [p \in Pipes |-> <<>>],
     write_waiter |-> [p \in Pipes |-> <<>>],
     writer_count |-> [p \in Pipes |-> IF p \in pipes THEN 1 ELSE 0],
     open |-> pipes,
     holds |-> [t \in Tasks |-> {}],
     sent |-> [p \in Pipes |-> 0],
     got |-> [p \in Pipes |-> 0],
     garbled |-> {}]

Next ==
    \/ DropFetched \/ Read \/ ReadResume \/ ReadV \/ ReadVResume
    \/ Write \/ WriteResume \/ Close \/ Kill \/ Die

-----------------------------------------------------------------------------
(* Properties.                                                              *)

BlockedIn(t, S) == k.state[t] = "Blocked" /\ k.pc[t].at \in S
ListedIn(t, w) == \E i \in DOMAIN w : w[i].task = t

\* Rings, wait queues, counts and holders have their types.
TypeOK ==
    /\ k.state \in [Tasks -> TaskState]
    /\ Entries(k.queue) \subseteq Tasks
    /\ \A p \in Pipes : /\ {k.fifo[p].head, k.fifo[p].tail} \subseteq 0..(RingSize - 1)
                        /\ \A w \in Entries(k.read_waiter[p]) : w.task \in Tasks
                        /\ \A w \in Entries(k.write_waiter[p]) : w.task \in Tasks
                        /\ k.writer_count[p] \in {0, 1}
    /\ k.holds \in [Tasks -> SUBSET Pipes]

\* No lost wakeup: a reader sleeps only on an empty ring that still has a writer,
\* and its entry is in the queue the next write or the last close drains.
ReaderHasReason ==
    \A t \in Tasks : BlockedIn(t, {"read", "readv"}) =>
        LET p == k.pc[t].arg.p
        IN  is_empty(k.fifo[p]) /\ k.writer_count[p] > 0 /\ ListedIn(t, k.read_waiter[p])

\* No thread makes any of these calls.
Never(S) == Load.calls \cap S = {}

\* While less than RingSize bytes are unread and writers pass buffers that are
\* mapped, readers get the bytes the writers wrote, in order, and the ring holds the
\* rest, also after reads that fault.
StreamInOrder == Never({"flood", "unmapped_write"}) =>
    \A p \in Pipes : /\ p \notin k.garbled
                     /\ len(k.fifo[p]) = k.sent[p] - k.got[p]

\* writer_count counts the write end exactly while a descriptor or a blocked
\* call holds it.
WriterCountIsHolders ==
    \A p \in Pipes : k.writer_count[p] > 0 <=>
        p \in k.open \/ \E t \in Tasks : p \in k.holds[t]

\* Once the write end is closed every reader of the pipe gets back to user mode.
ReadersSeeEof ==
    \A t \in Tasks, p \in Pipes :
        k.pc[t].at \in {"read", "readv"} /\ k.pc[t].arg.p = p /\ p \notin k.open
        ~> k.pc[t].at = "user"

=============================================================================
