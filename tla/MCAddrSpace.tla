---------------------------- MODULE MCAddrSpace ----------------------------
(***************************************************************************)
(* Small instances of AddrSpace: text at 1, data at 2, the break at 3, the *)
(* mappings from 5, the stack at 8 and 9.                                  *)
(***************************************************************************)
EXTENDS AddrSpace

MCSpaces == 1..3
MCPages == 1..9
MCFrames == 1..12
MCValues == {"0", "a", "b", "args"}

\* Two programs, and two files to map.
MCFiles == {"text", "data", "f", "g"}
MCInitialFiles == [text |-> [i \in {0} |-> "a"], data |-> [i \in {0} |-> "a"],
                   f |-> [i \in 0..1 |-> IF i = 0 THEN "a" ELSE "b"], g |-> [i \in {0} |-> "a"]]

RW == {"R", "W"}
Text == [base |-> 1, pages |-> 1, perm |-> {"R", "X"}, file |-> "text", length |-> 1]
Data == [base |-> 2, pages |-> 1, perm |-> RW, file |-> "data", length |-> 1]

NoLoad == [calls |-> {}, spaces |-> 2, image |-> <<Text, Data>>, maps |-> {}, ranges |-> {},
           prots |-> {}, brk |-> 0, shms |-> 0, refs |-> 2, shmaddr |-> {0}, shmperm |-> {RW},
           touch |-> {}, values |-> {"b"}]

Anon(kind, pages, addr, fixed) ==
    [kind |-> kind, pages |-> pages, perm |-> RW, addr |-> addr, fixed |-> fixed,
     file |-> NoFile, offset |-> 0]
OfFile(kind, pages, file, offset) ==
    [kind |-> kind, pages |-> pages, perm |-> RW, addr |-> 0, fixed |-> FALSE,
     file |-> file, offset |-> offset]

MCWorkloads ==
    [cow     |-> [NoLoad EXCEPT !.calls = {"fork", "exit", "store", "load", "kstore"},
                                !.spaces = 3, !.touch = {2}],
     stack   |-> [NoLoad EXCEPT !.calls = {"fork", "exit", "store", "load", "kstore", "fetch"},
                                !.touch = {8, 9}, !.image = <<Text>>],
     anon    |-> [NoLoad EXCEPT !.calls = {"mmap", "munmap", "fork", "exit", "store", "load"},
                                !.maps = {Anon("anon", 2, 0, FALSE), Anon("anon_shared", 2, 0, FALSE)},
                                !.ranges = {<<5, 1>>, <<6, 2>>}, !.touch = {5}, !.image = <<>>],
     split   |-> [NoLoad EXCEPT !.calls = {"mmap", "munmap", "mprotect", "store", "load"},
                                !.maps = {Anon("anon", 3, 0, FALSE), Anon("anon", 1, 6, TRUE),
                                          Anon("anon", 2, 6, FALSE)},
                                !.ranges = {<<5, 1>>, <<6, 1>>, <<6, 2>>}, !.prots = {{}, {"R"}, RW},
                                !.touch = {6, 7}],
     protect |-> [NoLoad EXCEPT !.calls = {"mprotect", "fork", "exit", "store", "load", "fetch", "kload"},
                                !.ranges = {<<2, 1>>}, !.prots = {{"R"}, RW}, !.touch = {2}],
     text    |-> [NoLoad EXCEPT !.calls = {"fork", "exit", "fetch", "kload", "store"}, !.touch = {1}],
     private |-> [NoLoad EXCEPT !.calls = {"mmap", "munmap", "fork", "exit", "store", "load", "kload"},
                                !.maps = {OfFile("file", 3, "f", 0)}, !.image = <<>>,
                                !.ranges = {<<5, 1>>, <<6, 1>>}, !.touch = {6}],
     mapped  |-> [NoLoad EXCEPT !.calls = {"mmap", "munmap", "exec", "store", "load"},
                                !.maps = {OfFile("shared_file", 2, "g", 0)}, !.image = <<>>,
                                !.ranges = {<<5, 2>>}, !.touch = {5, 6}],
     mappedf |-> [NoLoad EXCEPT !.calls = {"mmap", "fork", "exit", "store", "load"},
                                !.maps = {OfFile("shared_file", 2, "g", 0)}, !.image = <<>>,
                                !.touch = {5}],
     shm     |-> [NoLoad EXCEPT !.calls = {"shmget", "shmat", "shmctl", "fork", "exit", "store", "load"},
                                !.shms = 1, !.shmaddr = {0, 6}, !.shmperm = {{"R"}, RW},
                                !.touch = {5, 6}, !.image = <<>>],
     exec    |-> [NoLoad EXCEPT !.calls = {"exec", "exit", "brk", "kstore"},
                                !.image = <<Text>>, !.brk = 3, !.touch = {4}]]

=============================================================================
