---------------------------- MODULE FolderOrder ----------------------------
(***************************************************************************)
(* The numbers that order the folders of a Pro workspace.  A new folder    *)
(* gets the last number plus one; a folder that is moved gets the middle   *)
(* of its new neighbours, or the number one below or above the end.  Both  *)
(* requests read, without a lock, what they compute with; only the write   *)
(* is a transaction under the lock of the subscription row.                *)
(*                                                                         *)
(* `order' is a floating-point number.  Here it is a whole number of       *)
(* steps: Unit steps are 1, and two numbers less than two steps apart have *)
(* no number between them.                                                 *)
(***************************************************************************)
EXTENDS Integers, FiniteSets

CONSTANTS
  Folders,   \* identifiers, numbers: ties are listed by identifier
  Workers,   \* requests at the same time
  Unit,      \* steps that make 1
  Low, High, \* bounds on the orders, in steps: -Low .. High
  MaxEdits,  \* bound on the writes to Folder rows
  None       \* null

ASSUME OrderAssumption ==
  /\ Folders \subseteq Nat /\ None \notin Workers /\ Unit \in Nat \ {0}
  /\ {Low, High, MaxEdits} \subseteq Nat /\ None \notin Folders \cup Int

VARIABLES
  folder,  \* Folder rows
  req,     \* the request each worker is handling
  edits,   \* how often they were written
  spoilt   \* history: a number was computed that may be out of place

vars == <<folder, req, edits, spoilt>>

Orders == -Low .. High
Rows == [state : {"new", "active", "trash"}, order : Orders]
Idle == [step |-> "idle"]

Init ==
  /\ folder = [f \in Folders |-> [state |-> "new", order |-> 0]]
  /\ req = [w \in Workers |-> Idle]
  /\ edits = 0 /\ spoilt = FALSE

-----------------------------------------------------------------------------
Active == {f \in Folders : folder[f].state = "active"}
New == {f \in Folders : folder[f].state = "new"}
OrdersOf(fs) == {folder[f].order : f \in fs}
MaxOf(s) == CHOOSE x \in s : \A y \in s : y <= x
MinOf(s) == CHOOSE x \in s : \A y \in s : y >= x

(* findLastFolderOrder, then `lastOrder ? lastOrder + 1 : 1'.               *)
OrderByCount(fs) == Unit * (Cardinality(fs) + 1)
OrderAfterLast(fs) ==
  IF fs = {} \/ MaxOf(OrdersOf(fs)) = 0 THEN Unit ELSE MaxOf(OrdersOf(fs)) + Unit

(* The nearest order on the asked side of the reference, without the folder *)
(* that is moved.                                                           *)
AtOrBeyond(r, f) ==
  IF r.before THEN folder[f].order <= r.order ELSE folder[f].order >= r.order
Beyond(r, f) == IF r.before THEN folder[f].order < r.order ELSE folder[f].order > r.order
Nearest(r) ==
  LET s == OrdersOf({f \in Active \ {r.target} : Beyond(r, f)})
  IN IF s = {} THEN None ELSE IF r.before THEN MaxOf(s) ELSE MinOf(s)

(* calculateReorderedFolderOrder.  An order of 0 is taken for none, and the *)
(* middle of two numbers without one between them is either.                *)
Absent(n) == n \in {None, 0}
Middles(a, b) == {(a + b) \div 2, (a + b + 1) \div 2}
NewOrders(r, n) ==
  IF Absent(n) THEN {IF r.before THEN r.order - Unit ELSE r.order + Unit}
  ELSE Middles(n, r.order)

(* What stands next to the reference: room for a folder, a number that is   *)
(* taken for none, or a number with none between it and the reference's.    *)
Gap(r, n) ==
  IF n = 0 THEN "zero" ELSE IF n # None /\ (n - r.order) \in {-1, 1} THEN "closed" ELSE "open"

-----------------------------------------------------------------------------
Goto(w, r) == req' = [req EXCEPT ![w] = r]

(* The folders whose numbers request r has read and does not read again.    *)
Used(r) == CASE r.step \in {"create", "move"} -> Folders
             [] r.step = "neighbour" -> {r.ref}
             [] r.step = "reference" -> {}

(* Folder f is written by request w, or by none of them: every request that *)
(* is under way has read something before that.                             *)
Write(f, row, w) ==
  /\ edits < MaxEdits /\ edits' = edits + 1
  /\ folder' = [folder EXCEPT ![f] = row]
  /\ req' = [v \in Workers |->
               IF v = w \/ req[v] = Idle THEN Idle
               ELSE [req[v] EXCEPT !.stale = TRUE,
                                   !.written = @ \cup ({f} \cap Used(req[v]))]]

ReadLast(w) ==
  /\ req[w] = Idle
  /\ OrderAfterLast(Active) \in Orders
  /\ Goto(w, [step |-> "create", order |-> OrderAfterLast(Active), ref |-> None,
              stale |-> FALSE, written |-> {}])
  /\ UNCHANGED <<folder, edits, spoilt>>

(* Identifiers (cuid) begin with the time: they grow.                        *)
Create(w, f) ==
  /\ req[w].step = "create"
  /\ New # {} /\ f = MinOf(New)
  /\ Write(f, [state |-> "active", order |-> req[w].order], w)
  /\ spoilt' = (spoilt \/ req[w].stale)

(* execute of ReorderFolderUseCase: the target, the reference and then the  *)
(* neighbour are three statements.  The request names one reference, and    *)
(* never the target itself.                                                 *)
ValidMove(t, ref) == ref # t

ReadTarget(w, t, ref, before) ==
  /\ req[w] = Idle
  /\ t \in Active /\ ValidMove(t, ref)
  /\ Goto(w, [step |-> "reference", target |-> t, targetOrder |-> folder[t].order,
              ref |-> ref, before |-> before, order |-> None, gap |-> "open",
              stale |-> FALSE, written |-> {}])
  /\ UNCHANGED <<folder, edits, spoilt>>

ReadReference(w) ==
  /\ req[w].step = "reference" /\ req[w].ref \in Active
  /\ Goto(w, [req[w] EXCEPT !.step = "neighbour", !.order = folder[req[w].ref].order])
  /\ UNCHANGED <<folder, edits, spoilt>>

ReadNeighbour(w) ==
  LET r == req[w]
      n == Nearest(r) IN
  /\ r.step = "neighbour"
  /\ \E o \in NewOrders(r, n) \cap Orders :
       Goto(w, IF o = r.targetOrder THEN Idle
               ELSE [r EXCEPT !.step = "move", !.order = o, !.targetOrder = None,
                              !.gap = Gap(r, n)])
  /\ UNCHANGED <<folder, edits, spoilt>>

Move(w) ==
  LET r == req[w] IN
  /\ r.step = "move" /\ r.target \in Active
  /\ Write(r.target, [state |-> "active", order |-> r.order], w)
  /\ spoilt' = (spoilt \/ r.stale \/ r.gap # "open")

(* Not found, no access, an error of the database, a crash.                 *)
Stop(w) ==
  /\ req[w] # Idle
  /\ Goto(w, Idle)
  /\ UNCHANGED <<folder, edits, spoilt>>

SoftDelete(f) ==
  /\ f \in Active
  /\ Write(f, [folder[f] EXCEPT !.state = "trash"], None)
  /\ UNCHANGED spoilt

(* restoreItems, one of its folders: it comes back with the number it had.  *)
Restore(f) ==
  /\ folder[f].state = "trash"
  /\ Write(f, [folder[f] EXCEPT !.state = "active"], None)
  /\ spoilt' = TRUE

Next ==
  \/ \E w \in Workers :
       \/ ReadLast(w) \/ ReadReference(w) \/ ReadNeighbour(w) \/ Move(w) \/ Stop(w)
       \/ \E f \in Folders : Create(w, f)
       \/ \E t, ref \in Folders, before \in BOOLEAN : ReadTarget(w, t, ref, before)
  \/ \E f \in Folders : SoftDelete(f) \/ Restore(f)

Spec == Init /\ [][Next]_vars

-----------------------------------------------------------------------------
(* findFoldersByWorkspaceId: by order, then by identifier.                  *)
Listed(f, g) ==
  \/ folder[f].order < folder[g].order
  \/ folder[f].order = folder[g].order /\ f < g

(* What the user sees of that and of the requests.                          *)
Shown == {p \in Active \X Active : p[1] = p[2] \/ Listed(p[1], p[2])}
AskedBy(r) ==
  IF r = Idle THEN [kind |-> "nothing"]
  ELSE IF r.step = "create" THEN [kind |-> "add"]
  ELSE [kind |-> IF r.before THEN "before" ELSE "after",
        folder |-> r.target, reference |-> r.ref]
Asked == [w \in Workers |-> AskedBy(req[w])]
List == INSTANCE FolderList WITH list <- Shown, asked <- Asked, Windows <- Workers

(* Requests that do not overlap, without a restore, a neighbour at zero or  *)
(* an exhausted gap, keep the list as the user arranged it.                 *)
ListKept == List!Spec

(* Whatever runs at the same time: a new folder is listed after every folder *)
(* that nobody wrote since the last number was read.  A folder that is moved *)
(* is on the asked side of its reference, if nobody wrote the reference and  *)
(* there was a number to take, even next to a neighbour at zero; and where   *)
(* there was room, no folder that nobody wrote is between the two.           *)
Kept(r) == Active \ r.written
Side(r, x, y) == IF r.before THEN x < y ELSE x > y
PlacedAsAsked ==
  [][\A w \in Workers :
       LET r == req[w]
           at(f) == folder[f].order
           new == folder'[r.target].order
       IN edits' # edits /\ r # Idle /\ req'[w] = Idle =>
            /\ r.step = "create" => \A f \in New \ New', g \in Kept(r) : Listed(g, f)'
            /\ r.step = "move" /\ r.ref \in Kept(r) =>
                 /\ r.gap # "closed" => Side(r, new, at(r.ref))
                 /\ r.gap = "open" =>
                      \A g \in Kept(r) \ {r.target} :
                        Side(r, at(g), at(r.ref)) => Side(r, at(g), new)]_vars

=============================================================================
