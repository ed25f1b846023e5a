------------------------------ MODULE MCPages -------------------------------
(* The map: Science/ with one book, and a folder of two files below it that *)
(* stand for 98 books and one, so a hundred in all: a single book is below  *)
(* the floor of a bar's segment, and all but one above its ceiling.  The    *)
(* library may lose one.                                                    *)
(* The commands: every mode of the node, with what else devices.yaml may    *)
(* say that bears on a command; two categories, one of which may be missing.*)
EXTENDS Pages

A == <<"S", "a">>
B == <<"S", "P", "b">>
C == <<"S", "P", "c">>
MCDirs == {<<"S">>, <<"S", "P">>}
MCFiles == {A, B, C}
MCWeight == (A :> 1) @@ (B :> 98) @@ (C :> 1)
MCIndexes == {MCFiles, MCFiles \ {C}}
MCSituations == {[held |-> h, stale |-> s] : h \in SUBSET MCFiles, s \in {{}, {A}, {B}}}
MCTrueSituations == {s \in MCSituations : s.stale \subseteq s.held}
-----------------------------------------------------------------------------
MCSkipped == {".data"}
MCVault == ".data"
MCLibraries == {{"Science", "Fiction", ".data"}, {"Science", ".data"}, {}}
Node(mode, fullSync, prune, excludes, atRoot, storesTimes) ==
  [mode |-> mode, fullSync |-> fullSync, prune |-> prune, excludes |-> excludes,
   atRoot |-> atRoot, storesTimes |-> storesTimes]
MCDeclared ==
  {Node(m, TRUE, TRUE, TRUE, FALSE, TRUE) : m \in {"books", "mirror", "upstream"}}
  \cup {Node("books", fs, p, FALSE, FALSE, TRUE) : fs, p \in BOOLEAN}
  \cup {Node("books", TRUE, TRUE, FALSE, TRUE, FALSE), Node("mirror", FALSE, FALSE, FALSE, TRUE, TRUE)}
=============================================================================
