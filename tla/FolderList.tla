----------------------------- MODULE FolderList -----------------------------
(***************************************************************************)
(* What the user of the folder list sees: new folders come last, a folder  *)
(* is dragged to the place before or after another one, or deleted.        *)
(* Each window may have asked for one change that is not made yet.         *)
(* `spoilt' says that something has happened after which the numbers that  *)
(* order the folders promise nothing about the places in the list.         *)
(*                                                                         *)
(* The list is the order of its folders: the pairs of folders of which the *)
(* first comes before the second, or is the second.                        *)
(***************************************************************************)
CONSTANTS Folders, Windows
VARIABLES list, asked, spoilt

vars == <<list, asked, spoilt>>

Nothing == [kind |-> "nothing"]
Changes == [kind : {"add"}] \cup
           [kind : {"before", "after"}, folder : Folders, reference : Folders]

Init == list = {} /\ asked = [w \in Windows |-> Nothing] /\ spoilt = FALSE

Members == {f \in Folders : <<f, f>> \in list}
Ahead(r) == {g \in Members \ {r} : <<g, r>> \in list}
Without(f) == {p \in list : f \notin {p[1], p[2]}}

(* Folder f comes right behind the others in `front'.                       *)
PutBehind(front, f) ==
  list' = Without(f) \cup {<<f, f>>}
            \cup {<<g, f>> : g \in (Members \cap front) \ {f}}
            \cup {<<f, g>> : g \in (Members \ front) \ {f}}

Add(f) == f \notin Members /\ PutBehind(Members, f)
Drag(f, r, front) == f # r /\ {f, r} \subseteq Members /\ PutBehind(front, f)

Ask(w) ==
  /\ asked[w] = Nothing
  /\ \E c \in Changes : asked' = [asked EXCEPT ![w] = c]
  /\ UNCHANGED list

Make(w) ==
  LET c == asked[w] IN
  /\ asked' = [asked EXCEPT ![w] = Nothing]
  /\ \/ UNCHANGED list
     \/ c.kind = "add" /\ \E f \in Folders : Add(f)
     \/ c.kind = "before" /\ Drag(c.folder, c.reference, Ahead(c.reference))
     \/ /\ c.kind = "after"
        /\ Drag(c.folder, c.reference, Ahead(c.reference) \cup {c.reference})

Drop(f) == f \in Members /\ list' = Without(f) /\ UNCHANGED asked

Next ==
  \/ UNCHANGED spoilt /\ \/ \E w \in Windows : Ask(w) \/ Make(w)
                         \/ \E f \in Folders : Drop(f)
  \/ spoilt'

Spec == Init /\ [][Next]_vars

=============================================================================
