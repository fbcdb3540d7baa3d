----------------------------- MODULE MCRowLocks -----------------------------
EXTENDS RowLocks
CONSTANT Observed
\* One workspace (row 1) with its subscription (2), two folders (3, 4), a clip (5) in the first.
MCSubscriptionOf == [w \in Workspaces |-> 2]
MCWorkspaceOf == [f \in Folders |-> 1]
MCFolderOf == [c \in Clips |-> 3]

(* The transaction under observation ends, whatever it has to wait for. Nothing *)
(* tells transactions apart, so this is Ended. *)
ObservedEnds == EndedOf(Observed)
=============================================================================
