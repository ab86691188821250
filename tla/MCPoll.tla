------------------------------- MODULE MCPoll -------------------------------
(* Pipe and Poll for TLC. *)
EXTENDS Poll, TLC

Symmetry == Permutations(Tasks) \cup Permutations(Pipes)

\* The read end of p for POLLIN, the write end for POLLOUT.
In(p) == [p |-> p, writable |-> FALSE, want |-> {"in"}]
Out(p) == [p |-> p, writable |-> TRUE, want |-> {"out"}]

\* Every pipe alone, every pair of different pipes, a read end with a write end.
Singles == {<<In(p)>> : p \in Pipes}
Pairs == {<<In(x[1]), In(x[2])>> : x \in {y \in Pipes \X Pipes : y[1] # y[2]}}
WithWriteEnd == {<<In(p), Out(p)>> : p \in Pipes}
AllLists == Singles \cup Pairs \cup WithWriteEnd

NoTimeout == {{}}
SomeTimeouts == {{}, {0}, {1}}

\* Programs that use pipes, and do not poll.
PipeLoad(calls, threads, pipes, lens, bytes, waiters) ==
    [calls |-> calls, threads |-> threads, pipes |-> pipes, lens |-> lens, bytes |-> bytes,
     waiters |-> waiters, fds |-> {}, timeouts |-> NoTimeout, time |-> 0, timers |-> 0]

\* Programs that poll.
PollLoad(calls, threads, pipes, bytes, waiters, fds, timeouts, timers) ==
    [calls |-> calls, threads |-> threads, pipes |-> pipes, lens |-> {1}, bytes |-> bytes,
     waiters |-> waiters, fds |-> fds, timeouts |-> timeouts, time |-> 2, timers |-> timers]

SafetyWorkloads ==
    [block |-> PipeLoad({"read", "write", "flood", "close", "kill", "die"},
                        3, 1, {3, 6}, 9, 2),
     large |-> PipeLoad(AllCalls \ {"poll", "select", "nonblock", "unmapped_read", "unmapped_write"},
                        2, 1, {3, 6, 8}, 11, 2),
     unmapped |-> PipeLoad({"read", "write", "flood", "close", "unmapped_read", "unmapped_write"},
                           2, 1, {3, 6}, 9, 2),
     two |-> PipeLoad({"read", "write", "flood", "close"}, 3, 2, {3, 6}, 9, 2),
     stream |-> PipeLoad({"read", "write", "readv", "writev", "nonblock", "close", "kill", "unmapped_read"},
                         2, 1, {1, 2, 3}, 7, 3),
     poll |-> PollLoad({"poll", "select", "read", "write", "close", "kill"},
                       2, 2, 1, 2, Pairs \cup WithWriteEnd, {{}, {1}}, 1),
     select |-> PollLoad({"select", "read", "write", "close"},
                         3, 2, 2, 3, AllLists, NoTimeout, 0)]

FairWorkloads ==
    [eof |-> PipeLoad({"read", "readv", "write", "writev", "close"}, 3, 1, {1, 2}, 3, 3),
     poll |-> PollLoad({"poll", "select", "write", "close"},
                       2, 1, 1, 2, AllLists, SomeTimeouts, 2)]

=============================================================================
