--------------------------- MODULE MCDescriptors ---------------------------
(***************************************************************************)
(* All archives of up to three entries made of a few directories and       *)
(* files, in any order: with and without their parents, with a leading "./"*)
(* as tar writes it, a hidden file, an extended header, and files of       *)
(* less and more than a block.  Not every archive is one of a tree.  Then  *)
(* a table of three descriptors, for the frame buffer, a file or nothing.   *)
(***************************************************************************)
EXTENDS Descriptors

Dir(path) == [path |-> path, slash |-> TRUE, type |-> "5", size |-> 0]
File(path, size) == [path |-> path, slash |-> FALSE, type |-> "0", size |-> size]

MCEntries ==
  {Dir(<<".">>), Dir(<<".", "dev">>), Dir(<<"lib">>), Dir(<<"lib", "modules">>),
   File(<<"test">>, 3), File(<<"lib", "modules", "test">>, 2),
   File(<<".", "lib", "test">>, 5), File(<<"dev", "test">>, 1), File(<<".test">>, 1),
   [path |-> <<"pax">>, slash |-> FALSE, type |-> "x", size |-> 3]}

MCArchives == UNION {[1..n -> MCEntries] : n \in 0..3}

MCundotted ==
  [n \in {".", ".test", "test", "dev", "lib", "modules", "fb0", "pax"} |->
     CASE n = "." -> "" [] n = ".test" -> "test" [] OTHER -> n]

MCNames == {".", "test", "dev", "lib", "modules", "fb0"}
MCOpenedPaths == {<<"dev", "fb0">>, <<"test">>, <<"lib", "dev">>}
MCBuffers == [addr : {6, 8, 15}, size : {2}]
MCFds == -1..3
MCPaths == UNION {[1..n -> MCNames] : n \in 0..3}
=============================================================================
