--------------------------- MODULE MCFolderOrder ---------------------------
(* A small instance of FolderOrder for TLC.                                 *)
EXTENDS FolderOrder, TLC

Symmetry == Permutations(Workers)

=============================================================================
