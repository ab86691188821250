----------------------------- MODULE MCJournal -----------------------------
EXTENDS Journal

MCRoles0 == (2 :> "meta") @@ (3 :> "meta") @@ (4 :> "free")

begin           == <<[op |-> "begin", b |-> 0, v |-> 0]>>
end             == <<[op |-> "end", b |-> 0, v |-> 0]>>
change(b, v)    == <<[op |-> "change", b |-> b, v |-> v]>>
alloc(b, v)     == <<[op |-> "alloc", b |-> b, v |-> v]>>
allocData(b, v) == <<[op |-> "alloc data", b |-> b, v |-> v]>>
writeData(b, v) == <<[op |-> "write data", b |-> b, v |-> v]>>
free(b)         == <<[op |-> "free", b |-> b, v |-> 0]>>

MCWorkloads ==
  << \* two blocks changed in turn until the log wraps
     begin \o change(2, 1) \o end
       \o begin \o change(2, 2) \o change(3, 1) \o end
       \o begin \o change(3, 2) \o end
       \o begin \o change(2, 3) \o end
       \o begin \o change(3, 3) \o end,
     \* a metadata block released, then taken for file data
     begin \o change(2, 1) \o change(3, 1) \o end
       \o begin \o free(2) \o end
       \o begin \o allocData(2, 2) \o end \o writeData(2, 3),
     \* a block allocated, released and allocated again
     begin \o alloc(4, 1) \o change(4, 2) \o end
       \o begin \o free(4) \o change(3, 1) \o end
       \o begin \o alloc(4, 3) \o end >>
=============================================================================
