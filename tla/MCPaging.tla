------------------------------ MODULE MCPaging ------------------------------
(* A small instance of Paging for TLC: every kind of list, with pages of    *)
(* one or two of three rows.                                                *)
EXTENDS Paging

List(kind, search, limit) == [kind |-> kind, search |-> search, limit |-> limit]

MCLists ==
  {List("folder", TRUE, 1), List("liked", FALSE, 2), List("recent", FALSE, 1),
   List("recent", TRUE, 1), List("viewed", FALSE, 2)}
    \cup {List("trash", FALSE, n) : n \in {1, 2}} \cup {List("due", FALSE, n) : n \in 1..3}

(* The rows of a search and of the batch begin in one order, with a tie; the *)
(* others in all.                                                            *)
MCInit ==
  /\ Init
  /\ list.search \/ list.kind = "due" => \A i \in Items : row[i].at = i % 2
MCSpec == MCInit /\ [][Next]_vars /\ BatchFairness

=============================================================================
