----------------------------- MODULE MCWorkspace -----------------------------
(* Small instances of Workspace for TLC. *)
EXTENDS Workspace, TLC

Symmetry == Permutations(Folders) \cup Permutations(Clips) \cup Permutations(Workers)
ClipSymmetry == Permutations(Clips)

=============================================================================
