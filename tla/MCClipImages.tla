---------------------------- MODULE MCClipImages ----------------------------
(* Small instances of ClipImages for TLC. *)
EXTENDS ClipImages, TLC

Symmetry == Permutations(Images) \cup Permutations(Clips) \cup Permutations(Workers)

=============================================================================
