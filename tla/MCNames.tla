------------------------------ MODULE MCNames -------------------------------
(***************************************************************************)
(* Blocks of 12 words: a leaf of a directory has room for four names of    *)
(* one word, the root of an index for two entries, a node for five.        *)
(***************************************************************************)
EXTENDS Names

MCName == {"a", "b", "c", "d", "e", "f", "g", "h", "i", "j", "l", "m"}

MCNameLen == [n \in MCName |-> IF n = "d" THEN 2 ELSE 1]

\* Names b and c, and f, g and h, share a hash.
MCHash == [n \in MCName |-> CASE n = "a" -> 2 [] n \in {"b", "c"} -> 4 [] n = "d" -> 6 [] n = "e" -> 8
                              [] n \in {"f", "g", "h"} -> 10 [] n = "i" -> 12 [] n \in {"j", "m"} -> 14 [] n = "l" -> 16]

MCAttrLen == [n \in {"u", "v", "w"} |-> IF n = "w" THEN 2 ELSE 1]

MCDevice == {"d1", "d2", "d3"}

MCMountName == {"/", "/x/"}

MCUnder == [n \in MCMountName |-> IF n = "/" THEN {"/"} ELSE {"/", "/x/"}]

MCKind == [b \in MCDevice |-> CASE b = "d1" -> "good" [] b = "d2" -> "bad" [] b = "d3" -> "ro"]

MCTexts == {<<>>, <<1>>, <<1, 2>>, <<1, 2, 3>>}

MCValues == {<<>>, <<1>>, <<2, 2>>, <<1, 2, 1>>}

RootChild == [ino |-> Root, t |-> "dir"]

LinearRoot(csum) ==
  [NoInode EXCEPT !.t = "dir", !.links = 2, !.mode = 511,
     !.blk = <<Leaf(<<ext4_dir_write_entry(3, RootChild, "."),
                      ext4_dir_write_entry(Room(csum) - 3, RootChild, "..")>>, csum)>>]

Blank(free, csum, dx, locks, extra) ==
  [ino |-> [i \in Ino |-> IF i = Root THEN LinearRoot(csum) ELSE NoInode], free |-> free, csum |-> csum,
   dx |-> dx, ro |-> FALSE, locks |-> locks, lock |-> 0, wb |-> 0, cur |-> Root, up |-> Root, goal |-> "",
   r |-> "EOK", out |-> <<>>, h |-> [j \in Handle |-> Closed], d |-> NoReader,
   v |-> [j \in Handle |-> NoDentry], extra |-> extra, odd |-> {}]

\* The root directory of a file system with indexed directories.
Indexed(s) ==
  LET x == ext4_dir_dx_init([DirOf(s, Root) EXCEPT !.blk = <<>>, !.free = @ + 1], RootChild, RootChild)
  IN PutDir(s, Root, [x EXCEPT !.idx = TRUE])

Clean(s) == [s EXCEPT !.r = "EOK", !.out = <<>>, !.cur = Root, !.up = Root, !.goal = ""]

BlocksOf(s) == s.free + FoldFunctionOnSet(+, 0, [i \in Ino |-> FileBlocks(s.ino[i])], Ino)

Job(acts, paths, from, types) ==
  [acts |-> acts, paths |-> paths, from |-> from, types |-> types, modes |-> Modes, names |-> {"a", "b"}, cost |-> 1]

Image(s, job, ops) ==
  [s |-> Clean(s), m |-> NothingMounted, seen |-> Seen(Clean(s)), call |-> NoCall, kept |-> {}, cut |-> 0, hung |-> NoCall,
   mal |-> {}, job |-> job,
   total |-> BlocksOf(s), ops |-> ops]

Tree == {<<"a">>, <<"b">>, <<"a", "a">>, <<"b", "a">>}

TreeActs == {"mk", "mknod", "link", "rename", "remove", "rm"}

TreeImages ==
  {Image(Blank(3, FALSE, FALSE, TRUE, FALSE), Job(TreeActs, Tree, Tree, {"fifo"}), 4),
   Image([ext4_dir_mk(Blank(3, FALSE, FALSE, TRUE, FALSE), <<"a">>) EXCEPT !.ro = TRUE],
         [Job(TreeActs \cup {"exist", "fopen", "symlink", "setattr", "setxattr", "removexattr"}, Tree \cup {<<>>}, Tree, {"fifo"})
            EXCEPT !.cost = 0], 1)}
  \cup {Image(Indexed(Blank(7, csum, TRUE, FALSE, FALSE)), Job(TreeActs, Tree, Tree, {"fifo"}), 4) : csum \in BOOLEAN}

\* A directory with many names of one file.
Named(s, names) == FoldLeft(LAMBDA t, n : ext4_flink(t, <<names[1]>>, <<n>>),
                            ext4_mknod(s, <<names[1]>>, "fifo", 0), Tail(names))

GrowJob(names) == Job({"link", "remove"}, {<<n>> : n \in names}, {<<"a">>}, {})

GrowImages ==
  {Image(Named(Indexed(Blank(8, FALSE, TRUE, FALSE, FALSE)), <<"a", "b", "c", "e">>),
         GrowJob({"c", "d", "f", "g", "h"}), 5),
   Image(Named(Indexed(Blank(12, FALSE, TRUE, FALSE, FALSE)), <<"a", "b", "c", "d", "e", "f", "g", "i", "j">>),
         GrowJob({"b", "f", "h", "j", "l"}), 5),
   Image(Named(Indexed(Blank(14, FALSE, TRUE, FALSE, FALSE)), <<"a", "e", "g", "f", "h", "j", "b", "l", "d">>),
         GrowJob({"c", "f", "i", "l", "m"}), 5),
   Image(Named(Indexed(Blank(8, FALSE, TRUE, FALSE, FALSE)), <<"e", "f", "b">>),
         [GrowJob({"a", "c", "f"}) EXCEPT !.from = {<<"e">>}], 4)}

FileImages ==
  {Image(Blank(3, FALSE, FALSE, TRUE, FALSE),
         Job({"fopen", "fopen2", "fclose", "fwrite", "fread", "ftruncate", "fseek", "remove"}, {<<"a">>}, {}, {}), 4)}

MetaImages ==
  {Image(ext4_dir_mk(Blank(2, FALSE, FALSE, locks, FALSE), <<"b">>),
         Job({"symlink", "readlink", "setattr", "getattr", "mknod", "remove"}, {<<"a">>, <<"b">>}, {}, {"chr", "reg"}), 3)
     : locks \in BOOLEAN}

AttrImages ==
  {Image(ext4_dir_mk(Blank(2, FALSE, FALSE, extra, extra), <<"a">>),
         [Job({"setxattr", "getxattr", "listxattr", "removexattr"}, {<<"a">>, <<"b">>}, {}, {}) EXCEPT !.cost = 0], 1)
     : extra \in BOOLEAN}

ListImages ==
  {Image(Named(Blank(3, csum, FALSE, TRUE, FALSE), <<"a", "b", "d">>),
         Job({"dir_open", "link", "remove"}, {<<>>, <<"b">>, <<"c">>, <<"d">>}, {<<"a">>}, {}), 7) : csum \in BOOLEAN}
  \cup {Image(Named(Indexed(Blank(4, FALSE, TRUE, FALSE, FALSE)), <<"e", "b", "a", "c">>),
               Job({"dir_open", "link", "remove"}, {<<>>, <<"a">>, <<"d">>}, {<<"e">>}, {}), 8)}

KernelJob == Job({"kernel"}, {}, {}, {"reg", "dir"})

KernelImages ==
  {Image(Blank(2, FALSE, FALSE, FALSE, FALSE), KernelJob, 3),
   Image(create(create(Blank(3, FALSE, FALSE, FALSE, FALSE), Root, "b", "dir"), Root, "a", "reg"), KernelJob, 3)}

MountImages ==
  {Image(Blank(1, FALSE, FALSE, FALSE, FALSE), Job({"mount"}, {}, {}, {}), 6)}

MCImages == TreeImages \cup GrowImages \cup FileImages \cup MetaImages \cup AttrImages \cup ListImages
            \cup KernelImages \cup MountImages
=============================================================================
