----------------------------- MODULE MCProcess -----------------------------
(* Process for TLC: Task objects, tids and pids are small numbers. *)
EXTENDS Process

T4 == 1..4

Programs(calls, signals, kills) ==
    [calls |-> calls, signals |-> signals, kills |-> kills]

\* Every call where nobody is killed; one signal among threads, among children
\* and during waits for a pid; and vfork where nothing cuts it short.
SafetyWorkloads ==
    [calls |-> Programs(AllCalls \ {"kill", "tgkill"}, {}, 0),
     threads |-> Programs({"yield", "fork", "thread", "exec", "exit", "exit_group",
                           "wait_any", "kill"}, {"KILL", "CONT"}, 1),
     children |-> Programs(AllCalls \ {"thread", "wait_child", "tgkill"},
                           {"KILL", "CONT"}, 1),
     waits |-> Programs({"yield", "fork", "thread", "exit", "wait_child", "kill"},
                        {"KILL", "CONT"}, 1),
     vfork |-> Programs({"yield", "fork", "vfork", "exec", "exit", "exit_group",
                         "wait_any"}, {}, 0)]

\* Signals where nothing blocks; and waiting for children.
FairWorkloads ==
    [signals |-> Programs({"yield", "fork", "exit", "kill", "tgkill"},
                          {"KILL", "CONT"}, 2),
     wait |-> Programs({"yield", "fork", "wait_any", "exit", "kill"},
                       {"KILL", "CONT"}, 1)]

=============================================================================
