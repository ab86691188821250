------------------------------ MODULE MCFiles -------------------------------
(***************************************************************************)
(* A disk of two block groups, blocks 1..8 and 9..13, with blocks of two   *)
(* bytes, extent nodes of two entries and a root of one.                   *)
(***************************************************************************)
EXTENDS Files

MCMeta == {1, 2, 9}

MCItableEnd == [g \in 0..1 |-> IF g = 0 THEN 3 ELSE 10]

Free(used, g) == Cardinality(GroupBlocks(g) \ used)

\* A file system with inodes ino, blocks disk, and groups un not initialised.
Image(ino, disk, used, un) ==
  [used |-> used \cup (Meta \ UNION {GroupBlocks(g) : g \in un}), uninit |-> un,
   bgfree |-> [g \in Group |-> Free(used \cup Meta, g)],
   sbfree |-> Free(used \cup Meta, 0) + Free(used \cup Meta, 1),
   iused |-> DOMAIN ino, iuninit |-> un,
   bgifree |-> [g \in Group |-> InodesPerGroup - Cardinality({i \in DOMAIN ino : (i - 1) \div InodesPerGroup = g})],
   sbifree |-> TotalInodes - Cardinality(DOMAIN ino),
   dirs |-> [g \in Group |-> 0], itu |-> [g \in Group |-> 0], last |-> 0,
   ino |-> ino, disk |-> [b \in 0..TotalBlocks - 1 |-> IF b \in DOMAIN disk THEN disk[b] ELSE Stale],
   r |-> "EOK", b |-> 0, path |-> <<>>, odd |-> {}, seg |-> <<>>, n |-> 0, seen |-> <<>>, ops |-> 0]

Full(i, l) == Data([o \in 0..BlockSize - 1 |-> Own(i, l * BlockSize + o)])

Fresh == Image([i \in {} |-> 0], [b \in {} |-> Stale], {}, {1})

\* File 1 has block 0, a hole, and block 2 unwritten, in a tree of depth 1.
Sparse ==
  Image([i \in {1} |-> [BlankInode("file") EXCEPT !.ext = TRUE, !.size = 6, !.blocks = 3,
           !.root = ExtNode(1, RootMax, <<[f |-> 0, p |-> 5]>>)]],
        [b \in {4, 5} |-> IF b = 4 THEN Full(1, 0)
           ELSE ExtNode(0, NodeMax, <<[f |-> 0, n |-> 1, p |-> 4, u |-> FALSE],
                                      [f |-> 2, n |-> 1, p |-> 7, u |-> TRUE]>>)],
        {4, 5, 7}, {})

\* File 1 has block references, and an extended attribute block.
Mapped ==
  Image([i \in {1} |-> [BlankInode("file") EXCEPT !.size = 2, !.blocks = 2, !.acl = 8,
           !.direct[0] = 6]],
        [b \in {6} |-> Full(1, 0)], {6, 8}, {})

MCWrites == {<<0, 2>>, <<0, 3>>, <<1, 1>>, <<1, 5>>, <<2, 4>>, <<3, 1>>, <<5, 1>>}

MCLengths == {0, 1, 3, 4, 6}

Ext(f, p) == [f |-> f, n |-> 1, p |-> p, u |-> FALSE]

\* Two files whose blocks alternate, file 1 in a tree of depth 2; one free block.
Fragmented ==
  Image([i \in {1, 2} |-> [BlankInode("file") EXCEPT
           !.ext = TRUE, !.size = IF i = 1 THEN 6 ELSE 3, !.blocks = IF i = 1 THEN 6 ELSE 3,
           !.root = ExtNode(3 - i, RootMax, <<[f |-> 0, p |-> IF i = 1 THEN 11 ELSE 12]>>)]],
        3 :> Full(1, 0) @@ 5 :> Full(1, 1) @@ 7 :> Full(1, 2) @@ 4 :> Full(2, 0) @@ 6 :> Full(2, 1)
        @@ 8 :> ExtNode(0, NodeMax, <<Ext(0, 3), Ext(1, 5)>>) @@ 10 :> ExtNode(0, NodeMax, <<Ext(2, 7)>>)
        @@ 11 :> ExtNode(1, NodeMax, <<[f |-> 0, p |-> 8], [f |-> 2, p |-> 10]>>)
        @@ 12 :> ExtNode(0, NodeMax, <<Ext(0, 4), Ext(1, 6)>>),
        {3, 4, 5, 6, 7, 8, 10, 11, 12}, {})

MCImages == {Fresh, Sparse, Mapped, Fragmented}
=============================================================================
