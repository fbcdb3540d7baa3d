------------------------------ MODULE MCBilling ------------------------------
(* Small instances of Billing for TLC. *)
EXTENDS Billing, TLC

Symmetry == Permutations(Attempts) \cup Permutations(CustomerKeys)
              \cup Permutations(Workers)

=============================================================================
