---------------------------- MODULE MCAuthSession ----------------------------
(* Small instances of AuthSession for TLC. *)
EXTENDS AuthSession, TLC

Symmetry == Permutations(Identities) \cup Permutations(Users) \cup Permutations(Accounts) \cup
            Permutations(Sessions) \cup Permutations(Nonces) \cup
            Permutations(Browsers) \cup Permutations(Workers)

=============================================================================
