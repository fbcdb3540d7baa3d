--------------------------- MODULE RowLocksProofs ---------------------------
(***************************************************************************)
(* Theorems about RowLocks, for any numbers of transactions and rows: the  *)
(* order that all handlers keep excludes deadlocks among them, and what    *)
(* they read again under their locks stays true until they write.          *)
(***************************************************************************)
EXTENDS RowLocks, WellFoundedInduction, TLAPS

LEMMA KindsNamed ==
  Kinds = {"list", "folder", "clip", "create", "trashClips", "emptyFolder", "restore",
           "destroy", "emptyTrash", "purgeFolders", "purgeClips", "check", "bill", "close"}
BY DEF Kinds, Plan

\* The order of the tables that every plan but the deletion of an account keeps.
LEMMA PlanOrder ==
  ASSUME NEW kind \in Kinds
  PROVE  /\ Len(Plan[kind]) \in 1..5
         /\ \A i \in 1..Len(Plan[kind]) : Plan[kind][i] \in Tables
         /\ kind # "close" => \A j \in 1..Len(Plan[kind]) :
              /\ Plan[kind][j] # "cascade"
              /\ Plan[kind][j] = "subscription" => j = 1
              /\ Plan[kind][j] = "workspace" => j > 1 /\ Plan[kind][1] = "subscription"
              /\ Plan[kind][j] = "folder" =>
                   \A i \in 1..(j - 1) : Plan[kind][i] \in {"subscription", "workspace"}
              /\ Plan[kind][j] = "clip" =>
                   \A i \in 1..(j - 1) : Plan[kind][i] # "clip"
<1>1. CASE kind = "list"
  BY <1>1 DEF Plan, Tables
<1>2. CASE kind = "folder"
  BY <1>2 DEF Plan, Tables
<1>3. CASE kind = "clip"
  BY <1>3 DEF Plan, Tables
<1>4. CASE kind = "create"
  BY <1>4 DEF Plan, Tables
<1>5. CASE kind = "trashClips"
  BY <1>5 DEF Plan, Tables
<1>6. CASE kind = "emptyFolder"
  BY <1>6 DEF Plan, Tables
<1>7. CASE kind = "restore"
  BY <1>7 DEF Plan, Tables
<1>8. CASE kind = "destroy"
  BY <1>8 DEF Plan, Tables
<1>9. CASE kind = "emptyTrash"
  BY <1>9 DEF Plan, Tables
<1>10. CASE kind = "purgeFolders"
  BY <1>10 DEF Plan, Tables
<1>11. CASE kind = "purgeClips"
  BY <1>11 DEF Plan, Tables
<1>12. CASE kind = "check"
  BY <1>12 DEF Plan, Tables
<1>13. CASE kind = "bill"
  BY <1>13 DEF Plan, Tables
<1>14. CASE kind = "close"
  BY <1>14 DEF Plan, Tables
<1> QED
  BY KindsNamed, <1>1, <1>2, <1>3, <1>4, <1>5, <1>6, <1>7, <1>8, <1>9, <1>10, <1>11,
     <1>12, <1>13, <1>14

-----------------------------------------------------------------------------
\* Subscriptions come before folders, folders before clips.
LEMMA NumbersRise ==
  ASSUME NEW row \in Subscriptions \cup Folders, NEW c \in Clips
  PROVE  row < c
<1>1. row \in Int /\ c \in Int
  BY RowAssumption DEF Rows
<1>2. CASE row \in Folders
  BY <1>2, RowAssumption
<1>3. CASE row \in Subscriptions
  <2>1. FolderOf[c] \in Folders
    BY RowAssumption
  <2>2. row < FolderOf[c] /\ FolderOf[c] < c /\ FolderOf[c] \in Int
    BY <1>3, <2>1, RowAssumption DEF Rows
  <2> QED
    BY <1>1, <2>2
<1> QED
  BY <1>2, <1>3

\* No row of a workspace is a row of another table.
LEMMA WorkspacesApart ==
  ASSUME NEW w \in Workspaces
  PROVE  w \notin Subscriptions /\ w \notin Folders /\ w \notin Clips
<1>0. \A row \in Rows : row \in Int
  BY RowAssumption
<1>1. \A s \in Subscriptions : w < s /\ w \in Int /\ s \in Int
  BY <1>0, RowAssumption DEF Rows
<1>2. SubscriptionOf[w] \in Subscriptions
  BY DEF Subscriptions
<1>3. \A row \in Folders \cup Clips : SubscriptionOf[w] < row /\ row \in Int
  BY <1>0, <1>2, NumbersRise, RowAssumption DEF Rows
<1> QED
  BY <1>1, <1>2, <1>3

\* A nonempty set of rows has a highest one.
LEMMA HighestRow ==
  ASSUME NEW s \in SUBSET Rows, s # {}
  PROVE  \E x \in s : \A y \in s : y <= x
<1>0. Last \in Nat /\ \A x \in s : x \in 1..Last
  BY RowAssumption
<1> DEFINE t == {Last - y : y \in s}
<1>1. t \in SUBSET Nat /\ t # {}
  BY <1>0
<1>2. PICK x \in t : \A y \in t : ~(<<y, x>> \in OpToRel(<, Nat))
  BY <1>1, WFMin, NatLessThanWellFounded, Zenon
<1>3. \A y \in t : ~(y < x)
  BY <1>1, <1>2 DEF OpToRel
<1>4. PICK z \in s : x = Last - z
  BY <1>2
<1>5. \A y \in s : ~(Last - y < Last - z)
  BY <1>3, <1>4
<1> QED
  BY <1>0, <1>5

\* Who waits for a row of a workspace waits for its own, having locked its subscription.
LEMMA WorkspaceWaiter ==
  ASSUME OrderInv, NEW t \in Transactions, tx[t] # Idle, tx[t].kind # "close",
         tx[t].next \in Workspaces
  PROVE  tx[t].next = tx[t].w /\ holder[SubscriptionOf[tx[t].w]] = t
<1> DEFINE r == tx[t]
<1>1. r \in Requests /\ Waiting(r) /\ Ordered(t, r)
  BY DEF OrderInv, Sound, TypeOK
<1>2. r.next # None
  BY RowAssumption DEF Rows
<1>3. r.at \in 1..Len(Plan[r.kind]) /\ r.next \in RowsIn(r.w, Plan[r.kind][r.at])
  BY <1>1, <1>2, PlanOrder DEF Waiting, Requests
<1>4. Plan[r.kind][r.at] \in Tables \ {"cascade"} /\ r.w \in Workspaces
  BY <1>1, <1>3, PlanOrder DEF Requests
<1>5. Plan[r.kind][r.at] = "workspace"
  BY <1>3, <1>4, WorkspacesApart DEF RowsIn, Subscriptions, Tables
<1> QED
  BY <1>1, <1>3, <1>5, PlanOrder DEF RowsIn, Ordered, Requests

\* Who holds a row of a workspace holds the lock of its subscription too.
LEMMA WorkspaceHolder ==
  ASSUME OrderInv, NEW t \in Transactions, tx[t] # Idle, tx[t].kind # "close",
         NEW row \in Workspaces, holder[row] = t
  PROVE  row = tx[t].w /\ holder[SubscriptionOf[row]] = t
<1> DEFINE r == tx[t]
<1>1. r \in Requests /\ Waiting(r) /\ Ordered(t, r)
  BY DEF OrderInv, Sound, TypeOK
<1>2. PICK i \in 1..Len(Plan[r.kind]) : i <= r.at /\ row \in RowsIn(r.w, Plan[r.kind][i])
  BY <1>1 DEF Ordered, Rows
<1>a. Plan[r.kind][i] \in Tables \ {"cascade"} /\ r.w \in Workspaces
  BY <1>1, PlanOrder DEF Requests
<1>3. Plan[r.kind][i] = "workspace"
  BY <1>2, <1>a, WorkspacesApart DEF RowsIn, Subscriptions, Tables
<1> QED
  BY <1>1, <1>2, <1>3, PlanOrder DEF RowsIn, Ordered, Requests

\* Along a circle of waiting transactions the rows that are waited for would rise for ever.
LEMMA NoCircle == ASSUME OrderInv PROVE NoDeadlock
<1> SUFFICES ASSUME NEW ts \in SUBSET {t \in Transactions : tx[t].kind # "close"},
                    Deadlocked(ts)
             PROVE  FALSE
  BY DEF NoDeadlock
<1>1. \A t \in ts : t \in Transactions /\ tx[t] # Idle /\ tx[t].kind # "close"
                    /\ tx[t] \in Requests /\ tx[t].next \in Rows
  BY DEF Deadlocked, WaitsFor, OrderInv, TypeOK, Requests
<1>2. \A t \in ts : tx[t].next \notin Workspaces
  <2> SUFFICES ASSUME NEW t \in ts, tx[t].next \in Workspaces PROVE FALSE
    OBVIOUS
  <2>1. PICK u \in ts : u # t /\ holder[tx[t].next] = u
    BY DEF Deadlocked, WaitsFor
  <2>2. tx[t].next = tx[t].w /\ holder[SubscriptionOf[tx[t].w]] = t
    BY <1>1, WorkspaceWaiter
  <2>3. holder[SubscriptionOf[tx[t].next]] = u
    BY <1>1, <2>1, WorkspaceHolder
  <2> QED
    BY <2>1, <2>2, <2>3
<1>3. \A t \in ts : \E u \in ts : tx[t].next < tx[u].next
  <2> SUFFICES ASSUME NEW t \in ts PROVE \E u \in ts : tx[t].next < tx[u].next
    OBVIOUS
  <2>1. PICK u \in ts : u # t /\ holder[tx[t].next] = u
    BY DEF Deadlocked, WaitsFor
  <2>2. Waiting(tx[u]) /\ Ordered(u, tx[u])
    BY <1>1 DEF OrderInv, Sound
  <2>3. tx[u].next \in tx[u].todo
    BY <1>1, <2>2, RowAssumption DEF Waiting
  <2> QED
    BY <1>1, <1>2, <2>1, <2>2, <2>3 DEF Ordered
<1> DEFINE rows == {tx[t].next : t \in ts}
<1>4. rows \in SUBSET Rows /\ rows # {}
  BY <1>1 DEF Deadlocked
<1>5. PICK x \in rows : \A y \in rows : y <= x
  BY <1>4, HighestRow
<1>6. PICK y \in rows : x < y
  BY <1>3
<1> HIDE DEF rows
<1>7. x \in Int /\ y \in Int /\ y <= x
  BY <1>4, <1>5, <1>6, RowAssumption
<1> QED
  BY <1>6, <1>7

-----------------------------------------------------------------------------
\* The rows that a statement locks are rows of its table.
LEMMA RowSetsInTable ==
  ASSUME TypeOK, NEW r \in Requests, NEW table \in Tables, NEW todo \in RowSets(r, table)
  PROVE  todo \in SUBSET Rows /\ todo \subseteq RowsIn(r.w, table)
<1>0. r.w \in Workspaces /\ r.fs \subseteq Folders /\ r.cs \subseteq Clips
  BY DEF Requests
<1>1. CASE table = "subscription"
  BY <1>0, <1>1 DEF RowSets, RowsIn, Rows, Subscriptions
<1>2. CASE table = "workspace"
  BY <1>0, <1>2 DEF RowSets, RowsIn, Rows
<1>3. CASE table = "folder"
  <2>1. todo = {f \in r.fs \cup Parents(r.cs) : Exists(f)}
    BY <1>3 DEF RowSets
  <2>2. Parents(r.cs) \subseteq Folders
    BY <1>0, RowAssumption DEF Parents
  <2> QED
    BY <1>0, <1>3, <2>1, <2>2 DEF RowsIn, Rows
<1>4. CASE table = "clip"
  <2>1. todo = Candidates(r)
    BY <1>4 DEF RowSets
  <2>2. Candidates(r) \subseteq Clips
    BY <1>0 DEF Candidates, Doomed, ClipsIn
  <2> QED
    BY <1>4, <2>1, <2>2 DEF RowsIn, Rows
<1>5. CASE table = "cascade"
  <2>1. todo = {row \in {SubscriptionOf[r.w]} \cup FoldersOf(r.w) \cup ClipsOf(r.w) :
                 Exists(row)}
    BY <1>5 DEF RowSets
  <2> QED
    BY <1>0, <1>5, <2>1 DEF RowsIn, Rows, Subscriptions, FoldersOf, ClipsOf
<1> QED
  BY <1>1, <1>2, <1>3, <1>4, <1>5 DEF Tables

\* The row to lock next is the first that is left to lock.
LEMMA NextIsFirst ==
  ASSUME NEW kind, NEW todo \in SUBSET Rows, NEW next \in NextRows(kind, todo)
  PROVE  /\ next \in Rows \cup {None}
         /\ todo = {} => next = None
         /\ todo # {} => next \in todo /\ next # None
         /\ kind # "close" => \A row \in todo : next <= row
BY RowAssumption DEF NextRows

\* A step of t leaves what others hold and wait for as it is.
LEMMA OthersSound ==
  ASSUME TypeOK, NEW u \in Transactions, Sound(u),
         tx'[u] = Idle <=> tx[u] = Idle,
         tx[u] # Idle => /\ tx'[u].kind = tx[u].kind /\ tx'[u].w = tx[u].w
                         /\ tx'[u].at = tx[u].at /\ tx'[u].todo = tx[u].todo
                         /\ tx'[u].next = tx[u].next,
         \A row \in Rows : holder'[row] = u <=> holder[row] = u
  PROVE  Sound(u)'
<1>1. CASE tx[u] = Idle
  BY <1>1 DEF Sound
<1>2. CASE tx[u] # Idle
  <2>1. Waiting(tx[u])' /\ tx'[u] # Idle
    BY <1>2 DEF Sound, Waiting, RowsIn
  <2>2. SUFFICES ASSUME tx[u].kind # "close" PROVE Ordered(u, tx[u])'
    BY <1>2, <2>1 DEF Sound
  <2>3. Ordered(u, tx[u])
    BY <1>2, <2>2 DEF Sound
  <2>4. SubscriptionOf[tx[u].w] \in Rows
    BY <1>2 DEF TypeOK, Requests, Rows, Subscriptions
  <2> QED
    BY <1>2, <2>3, <2>4 DEF Ordered, RowsIn
<1> QED
  BY <1>1, <1>2

\* A step of t that goes on as q and takes no lock of others.
LEMMA ReplaceStep ==
  ASSUME OrderInv, NEW t \in Transactions, NEW q \in Requests, tx' = [tx EXCEPT ![t] = q],
         UNCHANGED <<folder, clip, closed>>,
         holder' \in [Rows -> Transactions \cup {None}],
         \A row \in Rows : holder'[row] # holder[row] => holder'[row] = t /\ holder[row] = None,
         Waiting(q), q.kind # "close" => Ordered(t, q)'
  PROVE  OrderInv'
<1>1. tx' \in [Transactions -> {Idle} \cup Requests] /\ tx'[t] = q
      /\ \A u \in Transactions : u # t => tx'[u] = tx[u]
  BY DEF OrderInv, TypeOK
<1>2. TypeOK'
  BY <1>1 DEF OrderInv, TypeOK
<1>3. q # Idle
  BY DEF Idle, Requests
<1>4. Waiting(q)'
  BY DEF Waiting, RowsIn
<1>5. Sound(t)'
  BY <1>1, <1>3, <1>4 DEF Sound
<1>6. ASSUME NEW u \in Transactions, u # t PROVE Sound(u)'
  <2>1. u # None
    BY RowAssumption
  <2>2. \A row \in Rows : holder'[row] = u <=> holder[row] = u
    BY <1>6, <2>1
  <2> QED
    BY <1>1, <1>6, <2>2, OthersSound DEF OrderInv
<1> QED
  BY <1>2, <1>5, <1>6 DEF OrderInv

\* A request that goes to a place of its plan, all earlier places done, is sound.
LEMMA GotoStep ==
  ASSUME OrderInv, NEW t \in Transactions, NEW r \in Requests,
         r.at <= Len(Plan[r.kind]), Goto(t, r, Plan[r.kind][r.at]),
         UNCHANGED <<folder, clip, closed, holder>>,
         r.kind # "close" =>
           /\ \A row \in Rows : holder[row] = t =>
                \E i \in 1..(r.at - 1) : row \in RowsIn(r.w, Plan[r.kind][i])
           /\ r.at > 1 /\ Plan[r.kind][1] = "subscription" =>
                holder[SubscriptionOf[r.w]] = t
  PROVE  OrderInv'
<1> DEFINE table == Plan[r.kind][r.at]
<1>0. r.kind \in Kinds /\ r.at \in 1..Len(Plan[r.kind]) /\ table \in Tables /\ r.w \in Workspaces
  BY PlanOrder DEF Requests
<1>a. PICK todo \in RowSets(r, table) : \E next \in NextRows(r.kind, todo) :
        tx' = [tx EXCEPT ![t] = [r EXCEPT !.todo = todo, !.next = next]]
  BY DEF Goto
<1>1. PICK next \in NextRows(r.kind, todo) :
        tx' = [tx EXCEPT ![t] = [r EXCEPT !.todo = todo, !.next = next]]
  BY <1>a
<1> DEFINE q == [r EXCEPT !.todo = todo, !.next = next]
<1>2. todo \in SUBSET Rows /\ todo \subseteq RowsIn(r.w, table)
  BY <1>0, RowSetsInTable DEF OrderInv
<1>3. /\ next \in Rows \cup {None}
      /\ todo = {} => next = None
      /\ todo # {} => next \in todo /\ next # None
      /\ r.kind # "close" => \A row \in todo : next <= row
  BY <1>2, NextIsFirst
<1>4. /\ q \in Requests /\ q.kind = r.kind /\ q.w = r.w /\ q.at = r.at
      /\ q.todo = todo /\ q.next = next
  BY <1>2, <1>3 DEF Requests
<1>8. Waiting(q)
  BY <1>0, <1>2, <1>3, <1>4 DEF Waiting
<1>9. ASSUME r.kind # "close" PROVE Ordered(t, q)'
  <2>1. ASSUME NEW row \in Rows \ Workspaces, holder[row] = t, NEW later \in todo \ Workspaces
        PROVE  row < later
    <3>1. PICK i \in 1..(r.at - 1) : row \in RowsIn(r.w, Plan[r.kind][i])
      BY <1>9, <2>1
    <3>2. i \in 1..Len(Plan[r.kind]) /\ Plan[r.kind][i] \in Tables
          /\ Plan[r.kind][i] # "cascade" /\ table # "cascade"
      BY <1>0, <1>9, PlanOrder
    <3>3. table \in {"folder", "clip"}
      BY <1>0, <1>2, <1>9, <2>1, <3>1, PlanOrder DEF RowsIn, Tables
    <3>4. CASE table = "folder"
      <4>1. Plan[r.kind][i] \in {"subscription", "workspace"}
        BY <1>0, <1>9, <3>4, PlanOrder
      <4> QED
        BY <1>0, <1>2, <2>1, <3>1, <3>4, <4>1, RowAssumption DEF RowsIn, Subscriptions
    <3>5. CASE table = "clip"
      <4>1. Plan[r.kind][i] \in {"subscription", "workspace", "folder"}
        BY <1>0, <1>9, <3>2, <3>5, PlanOrder DEF Tables
      <4>2. row \in Subscriptions \cup Folders /\ later \in Clips
        BY <1>0, <1>2, <2>1, <3>1, <3>5, <4>1 DEF RowsIn, Subscriptions
      <4> QED
        BY <4>2, NumbersRise
    <3> QED
      BY <3>3, <3>4, <3>5
  <2>2. Ordered(t, q)
    BY <1>0, <1>4, <1>9, <2>1 DEF Ordered
  <2> QED
    BY <2>2 DEF Ordered, RowsIn
<1> HIDE DEF q
<1> QED
  BY <1>1, <1>4, <1>8, <1>9, ReplaceStep DEF q, OrderInv, TypeOK

LEMMA BeginStep ==
  ASSUME OrderInv, NEW t \in Transactions, Begin(t) PROVE OrderInv'
<1>1. PICK kind \in Kinds, w \in Workspaces, fs \in SUBSET Folders, cs \in SUBSET Clips :
        Goto(t, [kind |-> kind, w |-> w, fs |-> fs, cs |-> cs, at |-> 1, todo |-> {},
                 next |-> None, found |-> {}], Plan[kind][1])
  BY DEF Begin
<1> DEFINE r == [kind |-> kind, w |-> w, fs |-> fs, cs |-> cs, at |-> 1, todo |-> {},
                 next |-> None, found |-> {}]
<1>2. r \in Requests /\ r.at = 1 /\ r.kind = kind
  BY DEF Requests
<1>3. \A row \in Rows : holder[row] # t
  BY DEF Begin, OrderInv, Sound
<1>4. 1 <= Len(Plan[kind])
  BY PlanOrder
<1> HIDE DEF r
<1> QED
  BY <1>1, <1>2, <1>3, <1>4, GotoStep DEF Begin, r

LEMMA AdvanceStep ==
  ASSUME OrderInv, NEW t \in Transactions, Advance(t) PROVE OrderInv'
<1> DEFINE p == tx[t]
           r == [ReadAgain(p) EXCEPT !.at = @ + 1]
<1>1. p \in Requests /\ p # Idle /\ Waiting(p) /\ (p.kind # "close" => Ordered(t, p))
  BY DEF Advance, Locked, OrderInv, TypeOK, Sound
<1>2. p.at < Len(Plan[p.kind]) /\ ~SubscriptionGone(t) /\ Goto(t, r, Plan[p.kind][p.at + 1])
  BY DEF Advance
<1>3. ReadAgain(p) \in Requests /\ ReadAgain(p).kind = p.kind /\ ReadAgain(p).w = p.w
      /\ ReadAgain(p).at = p.at
  <2>1. \A fs \in SUBSET Folders : Trashed(fs) \in SUBSET Folders
    BY DEF Trashed
  <2>2. FoldersOf(p.w) \in SUBSET Folders /\ ClipsOf(p.w) \in SUBSET Clips
    BY DEF FoldersOf, ClipsOf
  <2>3. \A cs \in SUBSET Clips : Doomed(p.kind, cs) \in SUBSET Clips
    BY DEF Doomed
  <2>4. Candidates(p) \in SUBSET Clips
    BY <1>1 DEF Candidates, Doomed, ClipsIn, Requests
  <2> QED
    BY <1>1, <2>1, <2>2, <2>3, <2>4 DEF ReadAgain, Requests
<1>4. r \in Requests /\ r.kind = p.kind /\ r.w = p.w /\ r.at = p.at + 1
  BY <1>1, <1>2, <1>3, PlanOrder DEF Requests
<1>5. ASSUME p.kind # "close"
      PROVE  /\ \A row \in Rows : holder[row] = t =>
                  \E i \in 1..(r.at - 1) : row \in RowsIn(r.w, Plan[r.kind][i])
             /\ r.at > 1 /\ Plan[r.kind][1] = "subscription" =>
                  holder[SubscriptionOf[r.w]] = t
  <2>1. p.at \in 1..Len(Plan[p.kind])
    BY <1>1, <1>2, PlanOrder DEF Requests
  <2>2. Plan[p.kind][1] = "subscription" => holder[SubscriptionOf[p.w]] = t
    BY <1>1, <1>2, <1>5, <2>1 DEF SubscriptionGone, Table, Ordered
  <2>3. \A row \in Rows : holder[row] = t =>
          \E i \in 1..p.at : row \in RowsIn(p.w, Plan[p.kind][i])
    BY <1>1, <1>5, <2>1 DEF Ordered
  <2>4. r.at - 1 = p.at
    BY <1>4, <2>1
  <2> HIDE DEF r
  <2> QED
    BY <1>4, <2>2, <2>3, <2>4
<1>6. r.at <= Len(Plan[r.kind]) /\ Goto(t, r, Plan[r.kind][r.at])
  BY <1>1, <1>2, <1>4, PlanOrder DEF Requests
<1> HIDE DEF r
<1> QED
  BY <1>4, <1>5, <1>6, GotoStep DEF Advance

\* The row that is locked comes before those that are left.
LEMMA LockStep ==
  ASSUME OrderInv, NEW t \in Transactions, Lock(t) PROVE OrderInv'
<1> DEFINE r == tx[t]
           row == r.next
           todo == r.todo \ {row}
<1>1. r \in Requests /\ r # Idle /\ Waiting(r) /\ (r.kind # "close" => Ordered(t, r))
  BY DEF Lock, OrderInv, TypeOK, Sound
<1>2. /\ row # None /\ row \in r.todo /\ row \in Rows
      /\ r.at \in 1..Len(Plan[r.kind]) /\ row \in RowsIn(r.w, Plan[r.kind][r.at])
  BY <1>1, PlanOrder DEF Lock, Waiting, Requests
<1>3. PICK next \in NextRows(r.kind, todo) :
        tx' = [tx EXCEPT ![t].todo = @ \ {row}, ![t].next = next]
  BY DEF Lock
<1>4. todo \in SUBSET Rows
  BY <1>1 DEF Requests
<1>5. /\ next \in Rows \cup {None}
      /\ todo = {} => next = None
      /\ todo # {} => next \in todo /\ next # None
      /\ r.kind # "close" => \A later \in todo : next <= later
  BY <1>4, NextIsFirst
<1>6. PICK q \in Requests : /\ q.kind = r.kind /\ q.w = r.w /\ q.at = r.at
                            /\ q.todo = todo /\ q.next = next
                            /\ tx' = [tx EXCEPT ![t] = q]
  <2> DEFINE p == [r EXCEPT !.todo = todo, !.next = next]
  <2>1. /\ p \in Requests /\ p.kind = r.kind /\ p.w = r.w /\ p.at = r.at
        /\ p.todo = todo /\ p.next = next
    BY <1>1, <1>4, <1>5 DEF Requests
  <2>2. tx' = [tx EXCEPT ![t] = p]
    BY <1>1, <1>3 DEF Requests
  <2> QED
    BY <2>1, <2>2
<1>8. /\ holder' \in [Rows -> Transactions \cup {None}]
      /\ \A other \in Rows : other # row => holder'[other] = holder[other]
      /\ holder'[row] # holder[row] => holder'[row] = t /\ holder[row] = None
  BY <1>2 DEF Lock, OrderInv, TypeOK
<1>11. Waiting(q)
  BY <1>1, <1>2, <1>5, <1>6 DEF Waiting
<1>12. ASSUME r.kind # "close" PROVE Ordered(t, q)'
  <2>0. Ordered(t, r)
    BY <1>1, <1>12
  <2>1. ASSUME NEW held \in Rows, holder'[held] = t
        PROVE  /\ \E i \in 1..Len(Plan[r.kind]) :
                    i <= r.at /\ held \in RowsIn(r.w, Plan[r.kind][i])
               /\ held \notin Workspaces => \A later \in todo \ Workspaces : held < later
    <3>1. CASE holder[held] = t
      BY <2>0, <3>1 DEF Ordered
    <3>2. CASE held = row
      <4>1. \A later \in r.todo : row <= later
        BY <1>1, <1>12 DEF Waiting
      <4>0. \A x \in Rows : x \in Int
        BY RowAssumption
      <4>2. row \in Int /\ \A later \in todo : later \in Int /\ row # later /\ row <= later
        BY <1>2, <1>4, <4>0, <4>1
      <4>3. \A later \in todo : row < later
        BY <4>2
      <4> QED
        BY <1>2, <3>2, <4>3
    <3>3. held # row => holder[held] = t
      BY <1>8, <2>1
    <3> QED
      BY <3>1, <3>2, <3>3
  <2>2. r.at > 1 /\ Plan[r.kind][1] = "subscription" => holder'[SubscriptionOf[r.w]] = t
    <3>1. SubscriptionOf[r.w] \in Rows
      BY <1>1 DEF Requests, Rows, Subscriptions
    <3>2. holder[SubscriptionOf[r.w]] = t => holder'[SubscriptionOf[r.w]] = t
      BY <1>8, <3>1, RowAssumption
    <3> QED
      BY <2>0, <3>2 DEF Ordered
  <2> QED
    BY <1>6, <2>1, <2>2 DEF Ordered, RowsIn
<1>13. \A other \in Rows : holder'[other] # holder[other] =>
        holder'[other] = t /\ holder[other] = None
  BY <1>8
<1> QED
  BY <1>6, <1>8, <1>11, <1>12, <1>13, ReplaceStep DEF Lock

LEMMA PrepareStep ==
  ASSUME OrderInv, NEW t \in Transactions, Prepare(t) PROVE OrderInv'
<1> DEFINE r == tx[t]
<1>1. r \in Requests /\ r # Idle /\ Waiting(r) /\ (r.kind # "close" => Ordered(t, r))
  BY DEF Prepare, Locked, OrderInv, TypeOK, Sound
<1>2. /\ r.next = None /\ ~SubscriptionGone(t) /\ r.at = Len(Plan[r.kind])
      /\ tx' = [tx EXCEPT ![t].at = @ + 1, ![t].found = Found(r)]
  BY DEF Prepare, Locked
<1>3. Found(r) \in SUBSET Clips
  BY <1>1 DEF Found, Doomed, ClipsIn, Requests
<1>4. PICK q \in Requests : /\ q.kind = r.kind /\ q.w = r.w /\ q.at = r.at + 1
                            /\ q.todo = r.todo /\ q.next = r.next
                            /\ tx' = [tx EXCEPT ![t] = q]
  <2> DEFINE p == [r EXCEPT !.at = @ + 1, !.found = Found(r)]
  <2>1. /\ p \in Requests /\ p.kind = r.kind /\ p.w = r.w /\ p.at = r.at + 1
        /\ p.todo = r.todo /\ p.next = r.next
    <3>0. r.kind \in Kinds
      BY <1>1 DEF Requests
    <3>a. Len(Plan[r.kind]) \in 1..5
      BY <3>0, PlanOrder
    <3>b. r.at \in 1..5
      BY <1>2, <3>a
    <3>1. r.at + 1 \in 1..6
      BY <3>b
    <3> QED
      BY <1>1, <1>3, <3>1 DEF Requests
  <2>2. tx' = [tx EXCEPT ![t] = p]
    BY <1>1, <1>2 DEF Requests
  <2> QED
    BY <2>1, <2>2
<1>7. r.todo = {}
  BY <1>1, <1>2, RowAssumption DEF Waiting, Requests
<1>8. Waiting(q)
  BY <1>1, <1>2, <1>4, <1>7, PlanOrder DEF Waiting, Requests
<1>9. ASSUME r.kind # "close" PROVE Ordered(t, q)'
  <2>0. r.at \in 1..5 /\ q.at > r.at
    BY <1>1, <1>2, <1>4, PlanOrder DEF Requests
  <2>1. Plan[r.kind][1] = "subscription" => holder[SubscriptionOf[r.w]] = t
    BY <1>1, <1>2, <1>9, <2>0 DEF SubscriptionGone, Table, Ordered
  <2>2. \A row \in Rows : holder[row] = t =>
          \E i \in 1..Len(Plan[r.kind]) : i <= r.at + 1 /\ row \in RowsIn(r.w, Plan[r.kind][i])
    BY <1>1, <1>9, <2>0 DEF Ordered
  <2>3. Ordered(t, q)
    BY <1>4, <1>7, <2>1, <2>2 DEF Ordered
  <2>4. UNCHANGED holder
    BY DEF Prepare
  <2> QED
    BY <2>3, <2>4 DEF Ordered, RowsIn
<1> QED
  BY <1>4, <1>8, <1>9, ReplaceStep DEF Prepare, OrderInv, TypeOK

\* Who ends holds nothing.
LEMMA EndStep ==
  ASSUME OrderInv, NEW t \in Transactions, NEW saved, EndsSaving(t, saved),
         folder' \in [Folders -> {"active", "trashed", "gone"}],
         clip' \in [Clips -> {"unborn", "active", "trashed", "gone"}],
         closed' \subseteq Workspaces
  PROVE  OrderInv'
<1>1. \A u \in Transactions : tx[u] # Idle =>
        /\ [tx[u] EXCEPT !.found = @ \ saved] \in Requests
        /\ [tx[u] EXCEPT !.found = @ \ saved] # Idle
  BY DEF OrderInv, TypeOK, Requests, Idle
<1>2. \A u \in Transactions :
        tx'[u] = IF u = t \/ tx[u] = Idle THEN Idle ELSE [tx[u] EXCEPT !.found = @ \ saved]
  BY DEF EndsSaving
<1>3. tx' \in [Transactions -> {Idle} \cup Requests]
  BY <1>1 DEF EndsSaving
<1>4. \A row \in Rows : holder'[row] = IF holder[row] = t THEN None ELSE holder[row]
  BY DEF EndsSaving, Released
<1>5. holder' \in [Rows -> Transactions \cup {None}]
  BY DEF EndsSaving, Released, OrderInv, TypeOK
<1>6. TypeOK'
  BY <1>3, <1>5 DEF TypeOK
<1>7. Sound(t)'
  <2>0. t # None
    BY RowAssumption
  <2>1. tx'[t] = Idle /\ \A row \in Rows : holder'[row] # t
    BY <1>2, <1>4, <2>0
  <2> QED
    BY <2>1 DEF Sound
<1>8. ASSUME NEW u \in Transactions, u # t PROVE Sound(u)'
  <2>0. u # None
    BY RowAssumption
  <2>1. \A row \in Rows : holder'[row] = u <=> holder[row] = u
    BY <1>4, <1>8, <2>0
  <2>2. tx'[u] = Idle <=> tx[u] = Idle
    BY <1>1, <1>2, <1>8
  <2>3. ASSUME tx[u] # Idle
        PROVE  /\ tx'[u].kind = tx[u].kind /\ tx'[u].w = tx[u].w /\ tx'[u].at = tx[u].at
               /\ tx'[u].todo = tx[u].todo /\ tx'[u].next = tx[u].next
    <3>1. tx[u] \in Requests
      BY <2>3 DEF OrderInv, TypeOK
    <3>2. tx'[u] = [tx[u] EXCEPT !.found = @ \ saved]
      BY <1>2, <1>8, <2>3
    <3> QED
      BY <3>1, <3>2 DEF Requests
  <2> QED
    BY <2>1, <2>2, <2>3, OthersSound DEF OrderInv
<1> QED
  BY <1>6, <1>7, <1>8 DEF OrderInv

LEMMA CommitStep ==
  ASSUME OrderInv, NEW t \in Transactions, Commit(t) PROVE OrderInv'
<1> DEFINE r == tx[t]
<1>1. r \in Requests
  BY DEF Commit, Ready, OrderInv, TypeOK
<1>2. /\ folder \in [Folders -> {"active", "trashed", "gone"}]
      /\ clip \in [Clips -> {"unborn", "active", "trashed", "gone"}]
      /\ closed \subseteq Workspaces /\ r.w \in Workspaces
  BY <1>1 DEF OrderInv, TypeOK, Requests
<1>3. \A fs : Set(folder, fs, "active") \in [Folders -> {"active", "trashed", "gone"}]
              /\ Set(folder, fs, "trashed") \in [Folders -> {"active", "trashed", "gone"}]
              /\ Set(folder, fs, "gone") \in [Folders -> {"active", "trashed", "gone"}]
  BY <1>2 DEF Set
<1>4. \A cs : Set(clip, cs, "active") \in [Clips -> {"unborn", "active", "trashed", "gone"}]
              /\ Set(clip, cs, "trashed") \in [Clips -> {"unborn", "active", "trashed", "gone"}]
              /\ Set(clip, cs, "gone") \in [Clips -> {"unborn", "active", "trashed", "gone"}]
  BY <1>2 DEF Set
<1>5. Write(r)
  BY DEF Commit
<1>6. /\ folder' \in [Folders -> {"active", "trashed", "gone"}]
      /\ clip' \in [Clips -> {"unborn", "active", "trashed", "gone"}]
      /\ closed' \subseteq Workspaces
  BY <1>2, <1>3, <1>4, <1>5 DEF Write, Destroy
<1> QED
  BY <1>6, EndStep DEF Commit

\* The inductive invariant: what a transaction holds comes before what it waits for,
\* in one order of all rows (prisma-trash.repository.ts:562, prisma-folder-access.ts,
\* prisma-clip-limit.ts).
THEOREM OrderKept == Spec => []OrderInv
<1>1. Init => OrderInv
  <2> SUFFICES ASSUME Init PROVE OrderInv
    OBVIOUS
  <2>1. TypeOK
    BY DEF Init, TypeOK
  <2>2. \A t \in Transactions : Sound(t)
    BY RowAssumption DEF Init, Sound
  <2> QED
    BY <2>1, <2>2 DEF OrderInv
<1>2. OrderInv /\ [Next]_vars => OrderInv'
  <2> SUFFICES ASSUME OrderInv, [Next]_vars PROVE OrderInv'
    OBVIOUS
  <2>1. CASE UNCHANGED vars
    <3>1. TypeOK'
      BY <2>1 DEF OrderInv, TypeOK, vars
    <3>2. ASSUME NEW u \in Transactions PROVE Sound(u)'
      BY <2>1, OthersSound DEF OrderInv, vars
    <3> QED
      BY <3>1, <3>2 DEF OrderInv
  <2>2. ASSUME NEW t \in Transactions, Begin(t) PROVE OrderInv'
    BY <2>2, BeginStep
  <2>3. ASSUME NEW t \in Transactions, Lock(t) PROVE OrderInv'
    BY <2>3, LockStep
  <2>4. ASSUME NEW t \in Transactions, Advance(t) PROVE OrderInv'
    BY <2>4, AdvanceStep
  <2>5. ASSUME NEW t \in Transactions, Prepare(t) PROVE OrderInv'
    BY <2>5, PrepareStep
  <2>6. ASSUME NEW t \in Transactions, Commit(t) PROVE OrderInv'
    BY <2>6, CommitStep
  <2>7. ASSUME NEW t \in Transactions, Ends(t), UNCHANGED <<folder, clip, closed>> PROVE OrderInv'
    BY <2>7, EndStep DEF Ends, OrderInv, TypeOK
  <2> QED
    BY <2>1, <2>2, <2>3, <2>4, <2>5, <2>6, <2>7 DEF Next, Refuse, Fail, Victim
<1> QED
  BY <1>1, <1>2, PTL DEF Spec

\* Handlers, requests of the trash and the daily purge never wait for each other in a
\* circle, however many run at the same time and however many rows they lock.
THEOREM DeadlockFree == Spec => []NoDeadlock
BY OrderKept, NoCircle, PTL
-----------------------------------------------------------------------------
\* Where the plans that write folders or clips lock the folders.
LEMMA DestroyPlaces ==
  ASSUME NEW kind \in {"destroy", "emptyTrash"}
  PROVE  Len(Plan[kind]) = 3 /\ Plan[kind][2] = "folder" /\ Plan[kind][3] = "clip"
BY DEF Plan

LEMMA PurgePlaces ==
  ASSUME NEW kind \in {"purgeFolders", "purgeClips"}
  PROVE  Len(Plan[kind]) = 2 /\ Plan[kind][1] = "folder" /\ Plan[kind][2] = "clip"
BY DEF Plan

LEMMA WriterPlaces ==
  ASSUME NEW kind \in {"folder", "clip", "create", "trashClips", "emptyFolder", "restore",
                       "close"}
  PROVE  \E i \in 1..Len(Plan[kind]) : Plan[kind][i] \in {"folder", "cascade"}
<1>1. CASE kind \in {"folder", "clip"}
  <2>1. Len(Plan[kind]) \in {4, 5} /\ Plan[kind][3] = "folder"
    BY <1>1 DEF Plan
  <2> QED
    BY <2>1
<1>2. CASE kind \in {"create", "trashClips", "emptyFolder", "restore"}
  <2>1. Len(Plan[kind]) \in {3, 4} /\ Plan[kind][2] = "folder"
    BY <1>2 DEF Plan
  <2> QED
    BY <2>1
<1>3. CASE kind = "close"
  <2>1. Len(Plan[kind]) = 2 /\ Plan[kind][2] = "cascade"
    BY <1>3 DEF Plan
  <2> QED
    BY <2>1
<1> QED
  BY <1>1, <1>2, <1>3

LEMMA ExistsFolder ==
  ASSUME NEW f \in Folders, ~Exists(f) PROVE folder[f] = "gone"
<1>1. f \notin Workspaces /\ f \notin Clips
  <2>1. \A x \in Rows : x \in Int
    BY RowAssumption
  <2>2. f \notin Workspaces
    BY WorkspacesApart
  <2>3. ASSUME f \in Clips PROVE FALSE
    BY <2>1, <2>3, NumbersRise DEF Rows
  <2> QED
    BY <2>2, <2>3
<1>2. ASSUME NEW w \in Workspaces PROVE f # SubscriptionOf[w]
  <2>1. SubscriptionOf[w] \in Subscriptions
    BY DEF Subscriptions
  <2>2. SubscriptionOf[w] < f /\ f \in Int
    BY <2>1, RowAssumption DEF Rows
  <2> QED
    BY <2>2
<1> QED
  BY <1>1, <1>2 DEF Exists

\* At the end of its plan a transaction has nothing left to lock, and has, of the folders
\* that it has to do with, those that exist.
LEMMA ReadyHolds ==
  ASSUME IInv, NEW t \in Transactions, tx[t] # Idle, tx[t].at > Len(Plan[tx[t].kind]),
         Reached(tx[t]), NEW f \in Wanted(tx[t]), folder[f] # "gone"
  PROVE  holder[f] = t
<1>1. tx[t] \in Requests /\ Waiting(tx[t]) /\ FoldersHeld(t, tx[t])
  BY DEF IInv, OrderInv, Sound, TypeOK
<1>2. tx[t].todo = {}
  BY <1>1, PlanOrder DEF Waiting, Requests
<1> QED
  BY <1>1, <1>2 DEF FoldersHeld

\* The kinds that write folders or clips have locked the folders when they are ready.
LEMMA ReadyReached ==
  ASSUME NEW r \in Requests, r.at > Len(Plan[r.kind]), r.kind \notin {"list", "check", "bill"}
  PROVE  Reached(r)
<1>1. PICK i \in 1..Len(Plan[r.kind]) : Plan[r.kind][i] \in {"folder", "cascade"}
  <2>1. CASE r.kind \in {"destroy", "emptyTrash"}
    <3>1. Len(Plan[r.kind]) = 3 /\ Plan[r.kind][2] = "folder"
      BY <2>1, DestroyPlaces
    <3> QED
      BY <3>1
  <2>2. CASE r.kind \in {"purgeFolders", "purgeClips"}
    <3>1. Len(Plan[r.kind]) = 2 /\ Plan[r.kind][1] = "folder"
      BY <2>2, PurgePlaces
    <3> QED
      BY <3>1
  <2>3. CASE r.kind \in {"folder", "clip", "create", "trashClips", "emptyFolder", "restore",
                         "close"}
    BY <2>3, WriterPlaces
  <2> QED
    BY <2>1, <2>2, <2>3, KindsNamed DEF Requests
<1>2. i <= r.at
  BY PlanOrder DEF Requests
<1> QED
  BY <1>1, <1>2 DEF Reached

\* What was read again stays true of folders whose lock is held and of clips in them.
LEMMA NarrowedHeld ==
  ASSUME IInv, NEW t \in Transactions, tx[t] # Idle, Narrowed(tx[t]), NEW f \in tx[t].fs
  PROVE  f \in Folders /\ folder[f] = "trashed" /\ holder[f] = t
<1> DEFINE r == tx[t]
<1>1. /\ r \in Requests /\ Waiting(r) /\ FoldersHeld(t, r) /\ ReadTrue(r)
      /\ r.kind \in {"destroy", "emptyTrash", "purgeFolders"}
  BY DEF IInv, OrderInv, Sound, TypeOK, Narrowed
<1>2. folder[f] = "trashed" /\ f \in Wanted(r) /\ f \in Folders
  BY <1>1 DEF ReadTrue, Wanted, Requests
<1>3. \E i \in {1, 2} : /\ Plan[r.kind][i] = "folder" /\ i < r.at /\ Len(Plan[r.kind]) = i + 1
                        /\ Plan[r.kind][i + 1] = "clip"
  <2>1. CASE r.kind = "purgeFolders"
    <3>1. Len(Plan[r.kind]) = 2 /\ Plan[r.kind][1] = "folder" /\ Plan[r.kind][2] = "clip"
      BY <2>1, PurgePlaces
    <3>2. r.at > 1
      BY <2>1 DEF Narrowed
    <3> QED
      BY <3>1, <3>2
  <2>2. CASE r.kind \in {"destroy", "emptyTrash"}
    <3>1. Len(Plan[r.kind]) = 3 /\ Plan[r.kind][2] = "folder" /\ Plan[r.kind][3] = "clip"
      BY <2>2, DestroyPlaces
    <3>2. r.at > 2
      BY <2>2 DEF Narrowed
    <3> QED
      BY <3>1, <3>2
  <2> QED
    BY <1>1, <2>1, <2>2
<1>4. Reached(r) /\ r.at \in 1..6
  BY <1>1, <1>3 DEF Reached, Requests
<1>5. f \notin r.todo
  <2>1. CASE r.at <= Len(Plan[r.kind])
    <3>1. Plan[r.kind][r.at] = "clip"
      BY <1>3, <1>4, <2>1
    <3>2. r.todo \subseteq Clips
      BY <1>1, <2>1, <3>1 DEF Waiting, RowsIn
    <3>3. f \in Int /\ \A c \in r.todo : f < c
      BY <1>2, <3>2, NumbersRise, RowAssumption DEF Rows
    <3> QED
      BY <3>3
  <2>2. CASE ~(r.at <= Len(Plan[r.kind]))
    BY <1>1, <2>2 DEF Waiting
  <2> QED
    BY <2>1, <2>2
<1> QED
  BY <1>1, <1>2, <1>4, <1>5 DEF FoldersHeld

\* What others write leaves what u has read, and what it holds, as it is.
LEMMA OthersKeep ==
  ASSUME IInv, NEW u \in Transactions, tx[u] # Idle, NEW saved \in SUBSET Clips,
         tx'[u] = [tx[u] EXCEPT !.found = @ \ saved],
         \A f \in Folders : holder[f] = u => holder'[f] = u /\ folder'[f] = folder[f],
         \A f \in Folders : folder[f] = "gone" => folder'[f] = "gone",
         \A c \in Clips : holder[FolderOf[c]] = u => clip'[c] = clip[c] /\ c \notin saved
  PROVE  FoldersHeld(u, tx[u])' /\ ReadTrue(tx[u])'
<1> DEFINE r == tx[u]
<1>1. r \in Requests /\ FoldersHeld(u, r) /\ ReadTrue(r)
  BY DEF IInv, OrderInv, TypeOK
<1>2. /\ tx'[u].kind = r.kind /\ tx'[u].w = r.w /\ tx'[u].fs = r.fs /\ tx'[u].cs = r.cs
      /\ tx'[u].at = r.at /\ tx'[u].todo = r.todo /\ tx'[u].found = r.found \ saved
  BY <1>1 DEF Requests
<1>3. Wanted(r) \in SUBSET Folders /\ Wanted(r)' = Wanted(r)
  BY <1>1, <1>2, RowAssumption DEF Wanted, Parents, FoldersOf, Requests
<1>4. FoldersHeld(u, r)'
  BY <1>1, <1>2, <1>3 DEF FoldersHeld, Reached
<1>5. \A c \in Clips : FolderOf[c] \in Folders
  BY RowAssumption
<1>6. ASSUME Narrowed(r)
      PROVE  /\ \A f \in r.fs : folder'[f] = "trashed"
             /\ \A c \in Clips : FolderOf[c] \in r.fs => clip'[c] = clip[c] /\ c \notin saved
  BY <1>5, <1>6, NarrowedHeld
<1>7. ASSUME r.kind \in Destroying, r.at > Len(Plan[r.kind]), NEW c \in r.found
      PROVE  clip'[c] = clip[c] /\ c \notin saved /\ Live(c) /\ FolderOf[c] \in Wanted(r)
             /\ c \in Clips /\ (clip[c] = "trashed" \/ FolderOf[c] \in r.fs)
  <2>1. c \in Clips /\ Live(c) /\ FolderOf[c] \in Wanted(r)
        /\ (clip[c] = "trashed" \/ FolderOf[c] \in r.fs)
    BY <1>1, <1>7 DEF ReadTrue, Requests
  <2>2. Reached(r)
    BY <1>1, <1>7, ReadyReached DEF Destroying
  <2>3. folder[FolderOf[c]] # "gone"
    BY <2>1 DEF IInv
  <2>4. holder[FolderOf[c]] = u
    BY <1>7, <2>1, <2>2, <2>3, ReadyHolds
  <2> QED
    BY <2>1, <2>4
<1>8. r.at > Len(Plan[r.kind]) /\ r.kind \in Destroying => r.kind = "purgeClips" \/ Narrowed(r)
  <2>1. r.at \in 1..6
    BY <1>1 DEF Requests
  <2>2. r.kind \in {"destroy", "emptyTrash"} => Len(Plan[r.kind]) = 3
    BY DestroyPlaces
  <2>3. r.kind = "purgeFolders" => Len(Plan[r.kind]) = 2
    BY PurgePlaces
  <2>4. ASSUME r.at > Len(Plan[r.kind]), r.kind \in {"destroy", "emptyTrash"} PROVE Narrowed(r)
    <3>0. Len(Plan[r.kind]) = 3
      BY <2>2, <2>4
    <3>1. r.at > 2
      BY <2>1, <2>4, <3>0
    <3> QED
      BY <2>4, <3>1 DEF Narrowed
  <2>5. ASSUME r.at > Len(Plan[r.kind]), r.kind = "purgeFolders" PROVE Narrowed(r)
    <3>0. Len(Plan[r.kind]) = 2
      BY <2>3, <2>5
    <3>1. r.at > 1
      BY <2>1, <2>5, <3>0
    <3> QED
      BY <2>5, <3>1 DEF Narrowed
  <2> QED
    BY <2>4, <2>5 DEF Destroying
<1>9. /\ Narrowed(r)' = Narrowed(r)
      /\ \A c \in Clips : Live(c)' <=> clip'[c] \in {"active", "trashed"}
  BY <1>2 DEF Narrowed, Live
<1>10. r.kind = "purgeClips" => r.fs = {}
  BY <1>1 DEF ReadTrue
<1>11. ASSUME Narrowed(r)
       PROVE  r.kind # "purgeFolders" => (ClipsIn(r.fs))' \subseteq r.cs
  <2>1. \A c \in Clips : FolderOf[c] \in r.fs => clip'[c] = clip[c]
    BY <1>6, <1>11
  <2> QED
    BY <1>1, <1>2, <1>11, <2>1 DEF ReadTrue, ClipsIn, Live
<1>12. ASSUME r.kind \in Destroying, r.at > Len(Plan[r.kind])
       PROVE  /\ (ClipsIn(r.fs))' \subseteq r.found \ saved
              /\ \A c \in r.found \ saved : Live(c)'
  <2>1. \A c \in r.found \ saved : Live(c)'
    BY <1>7, <1>12 DEF Live
  <2>2. ASSUME NEW c \in Clips, Live(c)', FolderOf[c] \in r.fs PROVE c \in r.found \ saved
    <3>1. Narrowed(r)
      BY <1>8, <1>10, <1>12, <2>2
    <3>2. Live(c) /\ c \notin saved
      BY <1>6, <2>2, <3>1 DEF Live
    <3>3. ClipsIn(r.fs) \subseteq r.found
      BY <1>1, <1>12 DEF ReadTrue
    <3> QED
      BY <2>2, <3>2, <3>3 DEF ClipsIn
  <2> QED
    BY <1>2, <2>1, <2>2 DEF ClipsIn
<1>13. ReadTrue(r)'
  <2>1. ASSUME r.kind \in Destroying, r.at > Len(Plan[r.kind]), NEW c \in r.found \ saved
        PROVE  FolderOf[c] \in Wanted(r) /\ (clip'[c] = "trashed" \/ FolderOf[c] \in r.fs)
    BY <1>7, <2>1
  <2> QED
    BY <1>2, <1>3, <1>6, <1>9, <1>10, <1>11, <1>12, <2>1 DEF ReadTrue
<1> QED
  BY <1>4, <1>13

\* A step of t that reads and locks, and writes nothing, concerns t only.
LEMMA OwnStep ==
  ASSUME IInv, NEW t \in Transactions, NEW q \in Requests, tx' = [tx EXCEPT ![t] = q],
         UNCHANGED <<folder, clip, closed>>, OrderInv',
         \A row \in Rows : holder'[row] # holder[row] => holder'[row] = t /\ holder[row] = None,
         FoldersHeld(t, q)', ReadTrue(q)
  PROVE  IInv'
<1>1. \A u \in Transactions : tx'[u] = IF u = t THEN q ELSE tx[u]
  BY DEF IInv, OrderInv, TypeOK
<1>2. \A c \in Clips : Live(c)' => folder'[FolderOf[c]] # "gone"
  BY DEF IInv, Live
<1>3. ReadTrue(q)'
  BY DEF ReadTrue, Narrowed, ClipsIn, Live, Wanted, Parents, FoldersOf
<1>4. ASSUME NEW u \in Transactions, u # t, tx[u] # Idle
      PROVE  FoldersHeld(u, tx[u])' /\ ReadTrue(tx[u])'
  <2>1. tx'[u] = [tx[u] EXCEPT !.found = @ \ {}]
    BY <1>1, <1>4 DEF IInv, OrderInv, TypeOK, Requests
  <2>2. u # None /\ Folders \subseteq Rows
    BY RowAssumption DEF Rows
  <2>3. \A f \in Folders : holder[f] = u => holder'[f] = u /\ folder'[f] = folder[f]
    BY <2>2
  <2>4. \A f \in Folders : folder[f] = "gone" => folder'[f] = "gone"
    OBVIOUS
  <2>5. \A c \in Clips : holder[FolderOf[c]] = u => clip'[c] = clip[c] /\ c \notin {}
    OBVIOUS
  <2>6. {} \in SUBSET Clips
    OBVIOUS
  <2> QED
    BY <1>4, <2>1, <2>3, <2>4, <2>5, <2>6, OthersKeep
<1>5. tx'[t] = q
  BY <1>1
<1>6. FoldersHeld(t, tx[t])' /\ ReadTrue(tx[t])'
  BY <1>3, <1>5
<1>7. ASSUME NEW u \in Transactions, tx'[u] # Idle PROVE FoldersHeld(u, tx[u])' /\ ReadTrue(tx[u])'
  BY <1>1, <1>4, <1>6, <1>7
<1> QED
  BY <1>2, <1>7 DEF IInv

\* A statement that locks folders asks for all that exist of those that are wanted.
LEMMA GotoHolds ==
  ASSUME IInv, NEW t \in Transactions, NEW r \in Requests, r.at <= Len(Plan[r.kind]),
         Goto(t, r, Plan[r.kind][r.at]), UNCHANGED <<folder, clip, closed, holder>>, OrderInv',
         Plan[r.kind][r.at] \notin {"folder", "cascade"} /\ Reached(r) =>
           \A f \in Wanted(r) : folder[f] = "gone" \/ holder[f] = t,
         ReadTrue(r)
  PROVE  IInv'
<1> DEFINE table == Plan[r.kind][r.at]
<1>0. /\ r.kind \in Kinds /\ r.at \in 1..Len(Plan[r.kind]) /\ table \in Tables
      /\ r.w \in Workspaces /\ r.fs \subseteq Folders /\ r.cs \subseteq Clips
  BY PlanOrder DEF Requests
<1>1. PICK todo \in RowSets(r, table) : \E next \in NextRows(r.kind, todo) :
        tx' = [tx EXCEPT ![t] = [r EXCEPT !.todo = todo, !.next = next]]
  BY DEF Goto
<1>2. PICK next \in NextRows(r.kind, todo) :
        tx' = [tx EXCEPT ![t] = [r EXCEPT !.todo = todo, !.next = next]]
  BY <1>1
<1>3. todo \in SUBSET Rows
  BY <1>0, RowSetsInTable DEF IInv, OrderInv
<1>4. next \in Rows \cup {None}
  BY <1>3, NextIsFirst
<1> DEFINE q == [r EXCEPT !.todo = todo, !.next = next]
<1>5. /\ q \in Requests /\ q.kind = r.kind /\ q.w = r.w /\ q.fs = r.fs /\ q.cs = r.cs
      /\ q.at = r.at /\ q.found = r.found /\ q.todo = todo
  BY <1>3, <1>4 DEF Requests
<1>6. tx' = [tx EXCEPT ![t] = q]
  BY <1>2
<1> HIDE DEF q
<1>7. Wanted(q) = Wanted(r) /\ Reached(q) = Reached(r) /\ Wanted(r) \in SUBSET Folders
  BY <1>0, <1>5, RowAssumption DEF Wanted, Reached, Parents, FoldersOf
<1>8. ReadTrue(q)
  <2>1. Narrowed(q) = Narrowed(r)
    BY <1>5 DEF Narrowed
  <2> QED
    BY <1>5, <1>7, <2>1 DEF ReadTrue
<1>9. ASSUME Reached(q), NEW f \in Wanted(q)
      PROVE  folder[f] = "gone" \/ holder[f] = t \/ f \in todo
  <2>1. CASE table = "folder"
    <3>1. todo = {g \in r.fs \cup Parents(r.cs) : Exists(g)}
      BY <1>1, <2>1 DEF RowSets
    <3>2. r.kind # "close"
      <4>1. Plan["close"] = <<"workspace", "cascade">>
        BY DEF Plan
      <4> QED
        BY <1>0, <2>1, <4>1
    <3>3. f \in r.fs \cup Parents(r.cs) /\ f \in Folders
      BY <1>7, <1>9, <3>2 DEF Wanted
    <3> QED
      BY <3>1, <3>3, ExistsFolder
  <2>2. CASE table = "cascade"
    <3>1. todo = {row \in {SubscriptionOf[r.w]} \cup FoldersOf(r.w) \cup ClipsOf(r.w) :
                   Exists(row)}
      BY <1>1, <2>2 DEF RowSets
    <3>2. r.kind = "close"
      BY <1>0, <2>2, PlanOrder
    <3>3. f \in FoldersOf(r.w) /\ f \in Folders
      BY <1>7, <1>9, <3>2 DEF Wanted
    <3> QED
      BY <3>1, <3>3, ExistsFolder
  <2> QED
    BY <1>7, <1>9, <2>1, <2>2
<1>10. FoldersHeld(t, q)
  BY <1>5, <1>9 DEF FoldersHeld
<1>11. FoldersHeld(t, q)'
  BY <1>10 DEF FoldersHeld, Reached, Wanted, Parents, FoldersOf
<1>12. \A row \in Rows : holder'[row] = holder[row]
  OBVIOUS
<1> QED
  BY <1>5, <1>6, <1>8, <1>11, <1>12, OwnStep

LEMMA BeginKeeps ==
  ASSUME IInv, NEW t \in Transactions, Begin(t) PROVE IInv'
<1>1. PICK kind \in Kinds, w \in Workspaces, fs \in SUBSET Folders, cs \in SUBSET Clips :
        /\ Names(kind, w, fs, cs)
        /\ Goto(t, [kind |-> kind, w |-> w, fs |-> fs, cs |-> cs, at |-> 1, todo |-> {},
                    next |-> None, found |-> {}], Plan[kind][1])
  BY DEF Begin
<1> DEFINE r == [kind |-> kind, w |-> w, fs |-> fs, cs |-> cs, at |-> 1, todo |-> {},
                 next |-> None, found |-> {}]
<1>2. r \in Requests /\ r.at = 1 /\ r.kind = kind /\ r.fs = fs
  BY DEF Requests
<1>3. Len(Plan[kind]) \in 1..5
  BY PlanOrder
<1>4. kind = "purgeClips" => fs = {}
  BY <1>1 DEF Names
<1> HIDE DEF r
<1>5. ReadTrue(r)
  <2>1. ~Narrowed(r)
    BY <1>2 DEF Narrowed
  <2>2. Len(Plan[r.kind]) \in 1..5 /\ r.at = 1
    BY <1>2, <1>3
  <2>3. ~(r.at > Len(Plan[r.kind]))
    <3>1. PICK n \in 1..5 : n = Len(Plan[r.kind])
      BY <2>2
    <3>2. ~(1 > n)
      OBVIOUS
    <3> QED
      BY <2>2, <3>1, <3>2
  <2> QED
    BY <1>2, <1>4, <2>1, <2>3 DEF ReadTrue
<1>6. Reached(r) => Plan[r.kind][r.at] \in {"folder", "cascade"}
  <2>1. \A i \in 1..Len(Plan[kind]) : i <= 1 => i = 1
    BY <1>3
  <2> QED
    BY <1>2, <2>1 DEF Reached
<1>7. OrderInv'
  BY BeginStep DEF IInv
<1> QED
  BY <1>1, <1>2, <1>3, <1>5, <1>6, <1>7, GotoHolds DEF Begin, r

LEMMA AdvanceKeeps ==
  ASSUME IInv, NEW t \in Transactions, Advance(t) PROVE IInv'
<1> DEFINE p == tx[t]
           a == ReadAgain(p)
           r == [a EXCEPT !.at = @ + 1]
<1>1. /\ p \in Requests /\ p # Idle /\ Waiting(p) /\ FoldersHeld(t, p) /\ ReadTrue(p)
      /\ p.next = None
  BY DEF Advance, Locked, IInv, OrderInv, TypeOK, Sound
<1>2. p.at < Len(Plan[p.kind]) /\ Goto(t, r, Plan[p.kind][p.at + 1])
  BY DEF Advance
<1>3. p.at \in 1..4 /\ Len(Plan[p.kind]) \in 1..5 /\ p.kind \in Kinds
  BY <1>1, <1>2, PlanOrder DEF Requests
<1>4. p.todo = {}
  BY <1>1, RowAssumption DEF Waiting, Requests
<1>5. a \in Requests /\ a.kind = p.kind /\ a.w = p.w /\ a.at = p.at
  <2>1. \A fs \in SUBSET Folders : Trashed(fs) \in SUBSET Folders
    BY DEF Trashed
  <2>2. FoldersOf(p.w) \in SUBSET Folders /\ ClipsOf(p.w) \in SUBSET Clips
    BY DEF FoldersOf, ClipsOf
  <2>3. \A cs \in SUBSET Clips : Doomed(p.kind, cs) \in SUBSET Clips
    BY DEF Doomed
  <2>4. Candidates(p) \in SUBSET Clips
    BY <1>1 DEF Candidates, Doomed, ClipsIn, Requests
  <2> QED
    BY <1>1, <2>1, <2>2, <2>3, <2>4 DEF ReadAgain, Requests
<1>6. /\ r \in Requests /\ r.kind = p.kind /\ r.w = p.w /\ r.at = p.at + 1
      /\ r.fs = a.fs /\ r.cs = a.cs
  BY <1>3, <1>5 DEF Requests
<1>7. ASSUME p.kind \in {"destroy", "emptyTrash"}, p.at = 2
      PROVE  a.fs = Trashed(p.fs) /\ a.cs = Doomed(p.kind, p.cs) \cup ClipsIn(Trashed(p.fs))
  <2>1. a = [p EXCEPT !.fs = Trashed(p.fs), !.cs = Candidates(p)]
    BY <1>7 DEF ReadAgain
  <2>2. a.fs = Trashed(p.fs) /\ a.cs = Candidates(p)
    BY <1>1, <2>1 DEF Requests
  <2>3. Candidates(p) = Doomed(p.kind, p.cs) \cup ClipsIn(Trashed(p.fs))
    BY <1>7 DEF Candidates
  <2> QED
    BY <2>2, <2>3
<1>8. ASSUME p.kind = "purgeFolders", p.at = 1
      PROVE  a.fs = Trashed(p.fs) /\ a.cs = p.cs
  <2>1. a = [p EXCEPT !.fs = Trashed(p.fs)]
    BY <1>8 DEF ReadAgain
  <2> QED
    BY <1>1, <2>1 DEF Requests
<1>9. ASSUME ~(p.kind = "emptyTrash" /\ p.at = 1),
             ~(p.kind \in {"destroy", "emptyTrash"} /\ p.at = 2),
             ~(p.kind = "purgeFolders" /\ p.at = 1)
      PROVE  a = p
  BY <1>9 DEF ReadAgain
<1> HIDE DEF r, a
<1>10. ReadTrue(r)
  <2>1. ~(r.at > Len(Plan[r.kind]))
    BY <1>2, <1>3, <1>6
  <2>2. r.kind = "purgeClips" => r.fs = {}
    BY <1>1, <1>6, <1>9 DEF ReadTrue
  <2>3. ASSUME Narrowed(r)
        PROVE  /\ \A f \in r.fs : folder[f] = "trashed"
               /\ r.kind # "purgeFolders" => ClipsIn(r.fs) \subseteq r.cs
    <3>1. CASE p.kind \in {"destroy", "emptyTrash"}
      <4>1. p.at = 2
        <5>1. Len(Plan[p.kind]) = 3
          BY <3>1, DestroyPlaces
        <5>2. r.at > 2
          BY <1>6, <2>3, <3>1 DEF Narrowed
        <5> QED
          BY <1>2, <1>3, <1>6, <5>1, <5>2
      <4> QED
        BY <1>6, <1>7, <3>1, <4>1 DEF Trashed
    <3>2. CASE p.kind = "purgeFolders"
      <4>1. p.at = 1
        <5>1. Len(Plan[p.kind]) = 2
          BY <3>2, PurgePlaces
        <5> QED
          BY <1>2, <1>3, <5>1
      <4> QED
        BY <1>6, <1>8, <3>2, <4>1 DEF Trashed
    <3> QED
      BY <1>6, <2>3, <3>1, <3>2 DEF Narrowed
  <2> QED
    BY <2>1, <2>2, <2>3 DEF ReadTrue
<1>11. ASSUME Plan[r.kind][r.at] \notin {"folder", "cascade"}, Reached(r), NEW f \in Wanted(r)
       PROVE  folder[f] = "gone" \/ holder[f] = t
  <2>1. Reached(p)
    <3>1. PICK i \in 1..Len(Plan[p.kind]) : i <= r.at /\ Plan[p.kind][i] \in {"folder", "cascade"}
      BY <1>6, <1>11 DEF Reached
    <3>2. i # r.at
      BY <1>6, <1>11, <3>1
    <3>3. i <= p.at
      BY <1>3, <1>6, <3>1, <3>2
    <3> QED
      BY <3>1, <3>3 DEF Reached
  <2>2. f \in Wanted(p)
    <3>1. CASE p.kind \in {"destroy", "emptyTrash"} /\ p.at = 2
      <4>1. p.kind # "close" /\ r.kind # "close"
        BY <1>6, <3>1
      <4>2. r.fs \subseteq p.fs
        BY <1>6, <1>7, <3>1 DEF Trashed
      <4>3. \A c \in r.cs : c \in p.cs \/ FolderOf[c] \in p.fs
        BY <1>6, <1>7, <3>1 DEF Trashed, Doomed, ClipsIn
      <4> QED
        BY <1>11, <4>1, <4>2, <4>3 DEF Wanted, Parents
    <3>2. CASE p.kind = "purgeFolders" /\ p.at = 1
      BY <1>6, <1>8, <1>11, <3>2 DEF Wanted, Trashed
    <3>3. CASE p.kind = "emptyTrash" /\ p.at = 1
      <4>1. Plan[r.kind][r.at] = "folder"
        BY <1>6, <3>3, DestroyPlaces
      <4> QED
        BY <1>11, <4>1
    <3> QED
      BY <1>6, <1>9, <1>11, <3>1, <3>2, <3>3 DEF Wanted
  <2> QED
    BY <1>1, <1>4, <2>1, <2>2 DEF FoldersHeld
<1>12. r.at <= Len(Plan[r.kind])
  BY <1>2, <1>3, <1>6
<1>13. Goto(t, r, Plan[r.kind][r.at])
  BY <1>2, <1>6 DEF r, a
<1>14. OrderInv'
  BY AdvanceStep DEF IInv
<1> QED
  BY <1>6, <1>10, <1>11, <1>12, <1>13, <1>14, GotoHolds DEF Advance

LEMMA LockKeeps ==
  ASSUME IInv, NEW t \in Transactions, Lock(t) PROVE IInv'
<1> DEFINE r == tx[t]
           row == r.next
           todo == r.todo \ {row}
<1>1. r \in Requests /\ r # Idle /\ Waiting(r) /\ FoldersHeld(t, r) /\ ReadTrue(r)
  BY DEF Lock, IInv, OrderInv, TypeOK, Sound
<1>2. row # None /\ row \in Rows
  BY <1>1 DEF Lock, Requests
<1>3. PICK next \in NextRows(r.kind, todo) :
        tx' = [tx EXCEPT ![t].todo = @ \ {row}, ![t].next = next]
  BY DEF Lock
<1>4. todo \in SUBSET Rows
  BY <1>1 DEF Requests
<1>5. next \in Rows \cup {None}
  BY <1>4, NextIsFirst
<1>6. PICK q \in Requests : /\ q.kind = r.kind /\ q.w = r.w /\ q.fs = r.fs /\ q.cs = r.cs
                            /\ q.at = r.at /\ q.found = r.found /\ q.todo = todo
                            /\ tx' = [tx EXCEPT ![t] = q]
  <2> DEFINE p == [r EXCEPT !.todo = todo, !.next = next]
  <2>1. /\ p \in Requests /\ p.kind = r.kind /\ p.w = r.w /\ p.fs = r.fs /\ p.cs = r.cs
        /\ p.at = r.at /\ p.found = r.found /\ p.todo = todo
    BY <1>1, <1>4, <1>5 DEF Requests
  <2>2. tx' = [tx EXCEPT ![t] = p]
    BY <1>1, <1>3 DEF Requests
  <2> QED
    BY <2>1, <2>2
<1>8. /\ \A other \in Rows : other # row => holder'[other] = holder[other]
      /\ Exists(row) => holder'[row] = t /\ holder[row] \in {t, None}
      /\ ~Exists(row) => holder' = holder
  BY <1>2 DEF Lock, IInv, OrderInv, TypeOK
<1>9. \A other \in Rows : holder'[other] # holder[other] =>
        holder'[other] = t /\ holder[other] = None
  BY <1>8
<1>10. Wanted(q) = Wanted(r) /\ Reached(q) = Reached(r) /\ Wanted(r) \in SUBSET Folders
  BY <1>1, <1>6, RowAssumption DEF Wanted, Reached, Parents, FoldersOf, Requests
<1>11. ReadTrue(q)
  <2>1. Narrowed(q) = Narrowed(r)
    BY <1>6 DEF Narrowed
  <2> QED
    BY <1>1, <1>6, <1>10, <2>1 DEF ReadTrue
<1>12. ASSUME Reached(q), NEW f \in Wanted(q)
       PROVE  folder[f] = "gone" \/ holder'[f] = t \/ f \in todo
  <2>1. f \in Folders /\ f \in Rows
    BY <1>10, <1>12 DEF Rows
  <2>2. folder[f] = "gone" \/ holder[f] = t \/ f \in r.todo
    BY <1>1, <1>10, <1>12 DEF FoldersHeld
  <2>3. CASE f = row
    BY <1>8, <2>1, <2>3, ExistsFolder
  <2>4. CASE f # row
    BY <1>8, <2>1, <2>2, <2>4
  <2> QED
    BY <2>3, <2>4
<1>13. FoldersHeld(t, q)'
  <2>1. Reached(q)' = Reached(q) /\ Wanted(q)' = Wanted(q)
    BY DEF Reached, Wanted, Parents, FoldersOf
  <2>2. UNCHANGED folder
    BY DEF Lock
  <2> QED
    BY <1>6, <1>12, <2>1, <2>2 DEF FoldersHeld
<1>14. OrderInv'
  BY LockStep DEF IInv
<1> QED
  BY <1>6, <1>9, <1>11, <1>13, <1>14, OwnStep DEF Lock

LEMMA PrepareKeeps ==
  ASSUME IInv, NEW t \in Transactions, Prepare(t) PROVE IInv'
<1> DEFINE r == tx[t]
<1>1. r \in Requests /\ r # Idle /\ Waiting(r) /\ FoldersHeld(t, r) /\ ReadTrue(r)
  BY DEF Prepare, Locked, IInv, OrderInv, TypeOK, Sound
<1>2. /\ r.next = None /\ r.at = Len(Plan[r.kind])
      /\ tx' = [tx EXCEPT ![t].at = @ + 1, ![t].found = Found(r)]
  BY DEF Prepare, Locked
<1>3. Found(r) \in SUBSET Clips
  BY <1>1 DEF Found, Doomed, ClipsIn, Requests
<1>4. Len(Plan[r.kind]) \in 1..5
  BY <1>1, PlanOrder DEF Requests
<1>5. r.todo = {}
  BY <1>1, <1>2, RowAssumption DEF Waiting, Requests
<1>6. PICK q \in Requests : /\ q.kind = r.kind /\ q.w = r.w /\ q.fs = r.fs /\ q.cs = r.cs
                            /\ q.at = r.at + 1 /\ q.found = Found(r) /\ q.todo = r.todo
                            /\ tx' = [tx EXCEPT ![t] = q]
  <2> DEFINE p == [r EXCEPT !.at = @ + 1, !.found = Found(r)]
  <2>1. r.at \in 1..5
    BY <1>2, <1>4
  <2>2. r.at + 1 \in 1..6
    BY <2>1
  <2>3. /\ p \in Requests /\ p.kind = r.kind /\ p.w = r.w /\ p.fs = r.fs /\ p.cs = r.cs
        /\ p.at = r.at + 1 /\ p.found = Found(r) /\ p.todo = r.todo
    BY <1>1, <1>3, <2>2 DEF Requests
  <2>4. tx' = [tx EXCEPT ![t] = p]
    BY <1>1, <1>2 DEF Requests
  <2> QED
    BY <2>3, <2>4
<1>8. Wanted(q) = Wanted(r)
  BY <1>6 DEF Wanted
<1>9. Reached(q) => Reached(r)
  BY <1>2, <1>4, <1>6 DEF Reached
<1>10. FoldersHeld(t, q)'
  <2>1. FoldersHeld(t, q)
    BY <1>1, <1>5, <1>6, <1>8, <1>9 DEF FoldersHeld
  <2>2. UNCHANGED <<folder, clip, closed, holder>>
    BY DEF Prepare
  <2> QED
    BY <2>1, <2>2 DEF FoldersHeld, Reached, Wanted, Parents, FoldersOf
<1>11. Narrowed(q) => Narrowed(r)
  <2>1. CASE r.kind \in {"destroy", "emptyTrash"}
    <3>1. r.at = 3
      BY <1>2, <2>1, DestroyPlaces
    <3> QED
      BY <2>1, <3>1 DEF Narrowed
  <2>2. CASE r.kind = "purgeFolders"
    <3>1. r.at = 2
      BY <1>2, <2>2, PurgePlaces
    <3> QED
      BY <2>2, <3>1 DEF Narrowed
  <2> QED
    BY <1>6, <2>1, <2>2 DEF Narrowed
<1>12. r.kind \in {"destroy", "emptyTrash", "purgeFolders"} => Narrowed(r)
  <2>1. CASE r.kind \in {"destroy", "emptyTrash"}
    <3>1. r.at = 3
      BY <1>2, <2>1, DestroyPlaces
    <3> QED
      BY <2>1, <3>1 DEF Narrowed
  <2>2. CASE r.kind = "purgeFolders"
    <3>1. r.at = 2
      BY <1>2, <2>2, PurgePlaces
    <3> QED
      BY <2>2, <3>1 DEF Narrowed
  <2> QED
    BY <2>1, <2>2
<1>13. ASSUME r.kind \in Destroying
       PROVE  /\ ClipsIn(r.fs) \subseteq Found(r)
              /\ \A c \in Found(r) : /\ Live(c) /\ FolderOf[c] \in Wanted(r)
                                     /\ clip[c] = "trashed" \/ FolderOf[c] \in r.fs
  <2> DEFINE cs == IF r.kind = "purgeFolders" THEN Clips ELSE r.cs
  <2>1. Found(r) = Doomed(r.kind, r.cs) \cup (cs \cap ClipsIn(r.fs))
    BY <1>13 DEF Found
  <2>2. ClipsIn(r.fs) \subseteq cs
    <3>1. CASE r.kind = "purgeFolders"
      BY <3>1 DEF ClipsIn
    <3>2. CASE r.kind = "purgeClips"
      <4>1. r.fs = {}
        BY <1>1, <3>2 DEF ReadTrue
      <4> QED
        BY <4>1 DEF ClipsIn
    <3>3. CASE r.kind \in {"destroy", "emptyTrash"}
      BY <1>1, <1>12, <3>3 DEF ReadTrue
    <3> QED
      BY <1>13, <3>1, <3>2, <3>3 DEF Destroying
  <2>3. Wanted(r) = r.fs \cup Parents(r.cs)
    BY <1>13 DEF Wanted, Destroying
  <2>4. \A c \in Doomed(r.kind, r.cs) : c \in r.cs /\ clip[c] = "trashed" /\ Live(c)
    BY DEF Doomed, Live
  <2>5. \A c \in ClipsIn(r.fs) : Live(c) /\ FolderOf[c] \in r.fs
    BY DEF ClipsIn
  <2> QED
    BY <2>1, <2>2, <2>3, <2>4, <2>5 DEF Parents
<1>14. ReadTrue(q)
  BY <1>1, <1>6, <1>8, <1>11, <1>13 DEF ReadTrue
<1>15. OrderInv'
  BY PrepareStep DEF IInv
<1>16. \A row \in Rows : holder'[row] = holder[row]
  BY DEF Prepare
<1> QED
  BY <1>6, <1>10, <1>14, <1>15, <1>16, OwnStep DEF Prepare

\* Who ends lets go of its own locks only; what others know of rows under theirs stays true.
LEMMA EndKeeps ==
  ASSUME IInv, NEW t \in Transactions, NEW saved \in SUBSET Clips, EndsSaving(t, saved), OrderInv',
         \A c \in Clips : Live(c)' => folder'[FolderOf[c]] # "gone",
         \A f \in Folders : folder'[f] # folder[f] => holder[f] = t /\ folder[f] # "gone",
         \A c \in Clips : clip'[c] # clip[c] \/ c \in saved => holder[FolderOf[c]] = t
  PROVE  IInv'
<1>1. \A u \in Transactions :
        tx'[u] = IF u = t \/ tx[u] = Idle THEN Idle ELSE [tx[u] EXCEPT !.found = @ \ saved]
  BY DEF EndsSaving
<1>2. \A row \in Rows : holder'[row] = IF holder[row] = t THEN None ELSE holder[row]
  BY DEF EndsSaving, Released
<1>3. ASSUME NEW u \in Transactions, tx'[u] # Idle PROVE FoldersHeld(u, tx[u])' /\ ReadTrue(tx[u])'
  <2>1. u # t /\ tx[u] # Idle /\ tx'[u] = [tx[u] EXCEPT !.found = @ \ saved]
    BY <1>1, <1>3
  <2>2. \A f \in Folders : f \in Rows
    BY DEF Rows
  <2>3. \A f \in Folders : holder[f] = u => holder'[f] = u /\ folder'[f] = folder[f]
    BY <1>2, <2>1, <2>2
  <2>4. \A f \in Folders : folder[f] = "gone" => folder'[f] = "gone"
    OBVIOUS
  <2>5. \A c \in Clips : holder[FolderOf[c]] = u => clip'[c] = clip[c] /\ c \notin saved
    BY <2>1
  <2> QED
    BY <2>1, <2>3, <2>4, <2>5, OthersKeep
<1> QED
  BY <1>3 DEF IInv

\* What a transaction writes is of folders whose lock it holds, and no clip outlives its folder.
LEMMA Writes ==
  ASSUME IInv, NEW t \in Transactions, Commit(t)
  PROVE  /\ \A c \in Clips : Live(c)' => folder'[FolderOf[c]] # "gone"
         /\ \A f \in Folders : folder'[f] # folder[f] => holder[f] = t /\ folder[f] # "gone"
         /\ \A c \in Clips : clip'[c] # clip[c] \/ (tx[t].kind = "clip" /\ c \in tx[t].cs)
                               => holder[FolderOf[c]] = t
<1> DEFINE r == tx[t]
<1>1. /\ r \in Requests /\ r # Idle /\ r.kind \in Kinds /\ r.at = Len(Plan[r.kind]) + 1
      /\ Allowed(r) /\ Write(r) /\ ReadTrue(r)
      /\ r.fs \subseteq Folders /\ r.cs \subseteq Clips /\ r.found \subseteq Clips
  BY DEF Commit, Ready, IInv, OrderInv, TypeOK, Requests
<1>2. r.at > Len(Plan[r.kind])
  BY <1>1, PlanOrder
<1>3. r.kind \notin {"list", "check", "bill"} =>
        \A f \in Wanted(r) : folder[f] # "gone" => holder[f] = t
  BY <1>1, <1>2, ReadyReached, ReadyHolds
<1>4. \A c \in Clips : FolderOf[c] \in Folders /\ (Live(c) => folder[FolderOf[c]] # "gone")
  BY RowAssumption DEF IInv
<1>5. r.kind # "close" =>
        (\A f \in r.fs : f \in Wanted(r)) /\ (\A c \in r.cs : FolderOf[c] \in Wanted(r))
  BY DEF Wanted, Parents
<1>6. /\ folder \in [Folders -> {"active", "trashed", "gone"}]
      /\ clip \in [Clips -> {"unborn", "active", "trashed", "gone"}]
  BY DEF IInv, OrderInv, TypeOK
<1>7. \A fs, v : /\ DOMAIN Set(folder, fs, v) = Folders
                 /\ \A f \in Folders : Set(folder, fs, v)[f] = IF f \in fs THEN v ELSE folder[f]
  BY <1>6 DEF Set
<1>8. \A cs, v : /\ DOMAIN Set(clip, cs, v) = Clips
                 /\ \A c \in Clips : Set(clip, cs, v)[c] = IF c \in cs THEN v ELSE clip[c]
  BY <1>6 DEF Set
<1> DEFINE Done == /\ \A c \in Clips : Live(c)' => folder'[FolderOf[c]] # "gone"
                   /\ \A f \in Folders : folder'[f] # folder[f] => holder[f] = t /\ folder[f] # "gone"
                   /\ \A c \in Clips : clip'[c] # clip[c] \/ (r.kind = "clip" /\ c \in r.cs)
                                         => holder[FolderOf[c]] = t
<1> SUFFICES Done
  OBVIOUS
<1> HIDE DEF r
<1>9. ASSUME r.kind \in {"clip", "trashClips", "create"}, NEW c \in r.cs
      PROVE  folder[FolderOf[c]] = "active" /\ holder[FolderOf[c]] = t
  <2>1. folder[FolderOf[c]] = "active"
    BY <1>1, <1>9 DEF Allowed
  <2> QED
    BY <1>3, <1>5, <1>9, <2>1
<1>10. CASE r.kind = "folder"
  <2>1. \A f \in r.fs : folder[f] = "active" /\ holder[f] = t
    BY <1>1, <1>3, <1>5, <1>10 DEF Allowed
  <2>2. /\ folder' = Set(folder, r.fs, "trashed") \/ folder' = folder
        /\ clip' = clip
    BY <1>1, <1>10 DEF Write, Destroying
  <2> QED
    BY <1>4, <1>7, <1>10, <2>1, <2>2 DEF Live
<1>11. CASE r.kind = "create"
  <2>1. clip' = Set(clip, r.cs, "active") /\ folder' = folder
    BY <1>1, <1>11 DEF Write, Destroying
  <2> QED
    BY <1>4, <1>8, <1>9, <1>11, <2>1 DEF Live
<1>12. CASE r.kind \in {"clip", "trashClips"}
  <2>1. (clip' = Set(clip, r.cs, "trashed") \/ clip' = clip) /\ folder' = folder
    BY <1>1, <1>12 DEF Write, Destroying
  <2> QED
    BY <1>4, <1>8, <1>9, <1>12, <2>1 DEF Live
<1>13. CASE r.kind = "emptyFolder"
  <2>1. \A f \in r.fs : folder[f] = "active" /\ holder[f] = t
    BY <1>1, <1>3, <1>5, <1>13 DEF Allowed
  <2> DEFINE cs == {c \in ClipsIn(r.fs) : clip[c] = "active"}
  <2>2. clip' = Set(clip, cs, "trashed") /\ folder' = folder
    BY <1>1, <1>13 DEF Write, Destroying
  <2>3. \A c \in cs : FolderOf[c] \in r.fs /\ Live(c)
    BY DEF ClipsIn
  <2> HIDE DEF cs
  <2> QED
    BY <1>4, <1>8, <1>13, <2>1, <2>2, <2>3 DEF Live
<1>14. CASE r.kind = "restore"
  <2>1. /\ \A f \in r.fs : folder[f] = "trashed" /\ holder[f] = t
        /\ \A c \in r.cs : /\ folder[FolderOf[c]] = "active" \/ FolderOf[c] \in r.fs
                           /\ holder[FolderOf[c]] = t
    <3>1. /\ \A f \in r.fs : folder[f] = "trashed"
          /\ \A c \in r.cs : folder[FolderOf[c]] = "active" \/ FolderOf[c] \in r.fs
      BY <1>1, <1>14 DEF Allowed
    <3> QED
      BY <1>3, <1>5, <1>14, <3>1
  <2>2. clip' = Set(clip, r.cs, "active") /\ folder' = Set(folder, r.fs, "active")
    BY <1>1, <1>14 DEF Write, Destroying
  <2> QED
    BY <1>4, <1>7, <1>8, <1>14, <2>1, <2>2 DEF Live
<1>15. CASE r.kind \in Destroying
  <2>1. /\ clip' = Set(clip, r.found \cup ClipsIn(r.fs), "gone")
        /\ folder' = Set(folder, r.fs, "gone")
    BY <1>1, <1>15 DEF Write, Destroying, Destroy
  <2>2. \A c \in r.found : Live(c) /\ FolderOf[c] \in Wanted(r)
    BY <1>1, <1>2, <1>15 DEF ReadTrue
  <2>3. r.kind # "close" /\ r.kind # "clip" /\ r.kind \notin {"list", "check", "bill"}
    BY <1>15 DEF Destroying
  <2>4. \A c \in r.found \cup ClipsIn(r.fs) : c \in Clips => holder[FolderOf[c]] = t
    BY <1>3, <1>4, <1>5, <2>2, <2>3 DEF ClipsIn
  <2>5. \A c \in Clips : Live(c)' => FolderOf[c] \notin r.fs /\ Live(c)
    BY <1>8, <2>1 DEF ClipsIn, Live
  <2>6. \A c \in Clips : Live(c)' => folder'[FolderOf[c]] # "gone"
    BY <1>4, <1>7, <2>1, <2>5
  <2>7. \A f \in Folders : folder'[f] # folder[f] => holder[f] = t /\ folder[f] # "gone"
    BY <1>3, <1>5, <1>7, <2>1, <2>3
  <2>8. \A c \in Clips : clip'[c] # clip[c] => holder[FolderOf[c]] = t
    BY <1>8, <2>1, <2>4
  <2> QED
    BY <2>3, <2>6, <2>7, <2>8
<1>16. CASE r.kind = "close"
  <2> DEFINE cs == {c \in ClipsOf(r.w) : Live(c)}
  <2>1. clip' = Set(clip, cs, "gone") /\ folder' = Set(folder, FoldersOf(r.w), "gone")
    BY <1>1, <1>16 DEF Write, Destroying
  <2>2. \A f \in FoldersOf(r.w) : folder[f] # "gone" => holder[f] = t
    BY <1>3, <1>16 DEF Wanted
  <2>3. \A c \in cs : Live(c) /\ FolderOf[c] \in FoldersOf(r.w) /\ c \in Clips
    BY <1>4 DEF ClipsOf, FoldersOf
  <2>4. \A c \in Clips : Live(c)' => Live(c) /\ c \notin cs
    BY <1>8, <2>1 DEF Live
  <2>5. \A c \in Clips : Live(c)' => FolderOf[c] \notin FoldersOf(r.w)
    BY <2>4 DEF ClipsOf, FoldersOf
  <2>6. \A c \in Clips : Live(c)' => folder'[FolderOf[c]] # "gone"
    BY <1>4, <1>7, <2>1, <2>4, <2>5
  <2>7. \A f \in Folders : folder'[f] # folder[f] => holder[f] = t /\ folder[f] # "gone"
    BY <1>7, <2>1, <2>2
  <2> HIDE DEF cs
  <2>8. \A c \in Clips : clip'[c] # clip[c] => holder[FolderOf[c]] = t
    BY <1>4, <1>8, <2>1, <2>2, <2>3
  <2> QED
    BY <1>16, <2>6, <2>7, <2>8
<1>17. CASE r.kind \in {"list", "check", "bill"}
  <2>1. UNCHANGED <<folder, clip>>
    BY <1>1, <1>17 DEF Write, Destroying
  <2> QED
    BY <1>4, <1>17, <2>1 DEF Live
<1> HIDE DEF Done
<1> QED
  BY <1>1, <1>10, <1>11, <1>12, <1>13, <1>14, <1>15, <1>16, <1>17, KindsNamed DEF Destroying

\* The full inductive invariant: whoever has reached the folders in its plan holds all of
\* them that exist, and what it read again under those locks is still so
\* (prisma-trash.repository.ts:362-560).
THEOREM Invariance == Spec => []IInv
<1>1. Init => IInv
  <2> SUFFICES ASSUME Init PROVE IInv
    OBVIOUS
  <2>1. TypeOK
    BY DEF Init, TypeOK
  <2>2. \A t \in Transactions : Sound(t)
    BY RowAssumption DEF Init, Sound
  <2>3. \A c \in Clips : folder[FolderOf[c]] # "gone"
    BY RowAssumption DEF Init
  <2>4. \A t \in Transactions : tx[t] = Idle
    BY DEF Init
  <2> QED
    BY <2>1, <2>2, <2>3, <2>4 DEF IInv, OrderInv
<1>2. IInv /\ [Next]_vars => IInv'
  <2> SUFFICES ASSUME IInv, [Next]_vars PROVE IInv'
    OBVIOUS
  <2>1. CASE UNCHANGED vars
    <3>1. OrderInv'
      <4>1. TypeOK'
        BY <2>1 DEF IInv, OrderInv, TypeOK, vars
      <4>2. ASSUME NEW u \in Transactions PROVE Sound(u)'
        BY <2>1, OthersSound DEF IInv, OrderInv, vars
      <4> QED
        BY <4>1, <4>2 DEF OrderInv
    <3>2. ASSUME NEW u \in Transactions, tx'[u] # Idle
          PROVE  FoldersHeld(u, tx[u])' /\ ReadTrue(tx[u])'
      BY <2>1, <3>2 DEF IInv, FoldersHeld, ReadTrue, Reached, Narrowed, Wanted, Parents,
                        FoldersOf, ClipsIn, Live, vars
    <3>3. \A c \in Clips : Live(c)' => folder'[FolderOf[c]] # "gone"
      BY <2>1 DEF IInv, Live, vars
    <3> QED
      BY <3>1, <3>2, <3>3 DEF IInv
  <2>2. ASSUME NEW t \in Transactions, Begin(t) PROVE IInv'
    BY <2>2, BeginKeeps
  <2>3. ASSUME NEW t \in Transactions, Lock(t) PROVE IInv'
    BY <2>3, LockKeeps
  <2>4. ASSUME NEW t \in Transactions, Advance(t) PROVE IInv'
    BY <2>4, AdvanceKeeps
  <2>5. ASSUME NEW t \in Transactions, Prepare(t) PROVE IInv'
    BY <2>5, PrepareKeeps
  <2>6. ASSUME NEW t \in Transactions, Commit(t) PROVE IInv'
    <3> DEFINE saved == IF tx[t].kind = "clip" THEN tx[t].cs ELSE {}
    <3>1. OrderInv'
      BY <2>6, CommitStep DEF IInv
    <3>2. saved \in SUBSET Clips
      BY <2>6 DEF Commit, Ready, IInv, OrderInv, TypeOK, Requests
    <3>3. EndsSaving(t, saved)
      BY <2>6 DEF Commit
    <3>4. \A c \in Clips : clip'[c] # clip[c] \/ c \in saved => holder[FolderOf[c]] = t
      BY <2>6, Writes
    <3>5. \A f \in Folders : folder'[f] # folder[f] => holder[f] = t /\ folder[f] # "gone"
      BY <2>6, Writes
    <3>6. \A c \in Clips : Live(c)' => folder'[FolderOf[c]] # "gone"
      BY <2>6, Writes
    <3> QED
      BY <3>1, <3>2, <3>3, <3>4, <3>5, <3>6, EndKeeps
  <2>7. ASSUME NEW t \in Transactions, Ends(t), UNCHANGED <<folder, clip, closed>> PROVE IInv'
    <3>1. OrderInv'
      BY <2>7, EndStep DEF Ends, IInv, OrderInv, TypeOK
    <3>2. \A c \in Clips : Live(c)' => folder'[FolderOf[c]] # "gone"
      BY <2>7 DEF IInv, Live
    <3>3. EndsSaving(t, {}) /\ {} \in SUBSET Clips
      BY <2>7 DEF Ends
    <3>4. \A c \in Clips : clip'[c] # clip[c] \/ c \in {} => holder[FolderOf[c]] = t
      BY <2>7
    <3>5. \A f \in Folders : folder'[f] # folder[f] => holder[f] = t /\ folder[f] # "gone"
      BY <2>7
    <3> QED
      BY <3>1, <3>2, <3>3, <3>4, <3>5, EndKeeps
  <2> QED
    BY <2>1, <2>2, <2>3, <2>4, <2>5, <2>6, <2>7 DEF Next, Refuse, Fail, Victim
<1> QED
  BY <1>1, <1>2, PTL DEF Spec

\* What the trash destroys is in the trash when it is destroyed, and its image is known,
\* although the rows were found before they were locked (prisma-trash.repository.ts:362-560).
THEOREM DestroyedKnownAlways == Spec => DestroyedKnown
<1> DEFINE Known ==
      /\ \A c \in Clips : clip'[c] = "gone" /\ clip[c] # "gone" =>
           \E t \in Transactions :
             /\ tx[t] # Idle /\ tx'[t] = Idle
             /\ \/ tx[t].kind = "close"
                \/ /\ c \in tx[t].found
                   /\ clip[c] = "trashed" \/ folder[FolderOf[c]] = "trashed"
      /\ \A f \in Folders : folder'[f] = "gone" /\ folder[f] # "gone" =>
           folder[f] = "trashed" \/ WorkspaceOf[f] \in closed'
<1>1. IInv /\ [Next]_vars => [Known]_vars
  <2> SUFFICES ASSUME IInv, Next PROVE Known
    BY DEF vars
  <2>1. PICK t \in Transactions : Commit(t) \/ UNCHANGED <<folder, clip>>
    BY DEF Next, Begin, Lock, Advance, Prepare, Refuse, Fail, Victim
  <2>2. CASE UNCHANGED <<folder, clip>>
    BY <2>2
  <2>3. CASE Commit(t)
    <3> DEFINE r == tx[t]
    <3>1. /\ r \in Requests /\ r # Idle /\ r.at = Len(Plan[r.kind]) + 1 /\ tx'[t] = Idle
          /\ Write(r) /\ ReadTrue(r)
      BY <2>3 DEF Commit, Ready, EndsSaving, IInv, OrderInv, TypeOK
    <3>2. r.at > Len(Plan[r.kind])
      BY <3>1, PlanOrder DEF Requests
    <3>3. /\ folder \in [Folders -> {"active", "trashed", "gone"}]
          /\ clip \in [Clips -> {"unborn", "active", "trashed", "gone"}]
      BY DEF IInv, OrderInv, TypeOK
    <3> HIDE DEF r
    <3>4. CASE r.kind \in Destroying
      <4>1. /\ clip' = Set(clip, r.found \cup ClipsIn(r.fs), "gone")
            /\ folder' = Set(folder, r.fs, "gone")
        BY <3>1, <3>4 DEF Write, Destroying, Destroy
      <4>2. \A c \in ClipsIn(r.fs) : c \in r.found
        BY <3>1, <3>2, <3>4 DEF ReadTrue
      <4>3. \A c \in r.found : clip[c] = "trashed" \/ FolderOf[c] \in r.fs
        BY <3>1, <3>2, <3>4 DEF ReadTrue
      <4>4. \A f \in r.fs : folder[f] = "trashed"
        <5>1. r.at \in 1..6
          BY <3>1 DEF Requests
        <5>2. CASE r.kind \in {"destroy", "emptyTrash"}
          <6>1. Len(Plan[r.kind]) = 3
            BY <5>2, DestroyPlaces
          <6>2. Narrowed(r)
            BY <3>1, <5>2, <6>1 DEF Narrowed
          <6> QED
            BY <3>1, <6>2 DEF ReadTrue
        <5>3. CASE r.kind = "purgeFolders"
          <6>1. Len(Plan[r.kind]) = 2
            BY <5>3, PurgePlaces
          <6>2. Narrowed(r)
            BY <3>1, <5>3, <6>1 DEF Narrowed
          <6> QED
            BY <3>1, <6>2 DEF ReadTrue
        <5>4. CASE r.kind = "purgeClips"
          BY <3>1, <5>4 DEF ReadTrue
        <5> QED
          BY <3>4, <5>2, <5>3, <5>4 DEF Destroying
      <4>5. ASSUME NEW c \in Clips, clip'[c] = "gone", clip[c] # "gone"
            PROVE  c \in r.found /\ (clip[c] = "trashed" \/ folder[FolderOf[c]] = "trashed")
        <5>1. c \in r.found \cup ClipsIn(r.fs)
          BY <3>3, <4>1, <4>5 DEF Set
        <5> QED
          BY <4>2, <4>3, <4>4, <5>1
      <4>6. ASSUME NEW f \in Folders, folder'[f] = "gone", folder[f] # "gone"
            PROVE  folder[f] = "trashed"
        BY <3>3, <4>1, <4>4, <4>6 DEF Set
      <4> QED
        BY <3>1, <4>5, <4>6 DEF r
    <3>5. CASE r.kind = "close"
      <4>1. folder' = Set(folder, FoldersOf(r.w), "gone") /\ closed' = closed \cup {r.w}
        BY <3>1, <3>5 DEF Write, Destroying
      <4>2. ASSUME NEW f \in Folders, folder'[f] = "gone", folder[f] # "gone"
            PROVE  WorkspaceOf[f] \in closed'
        BY <3>3, <4>1, <4>2 DEF Set, FoldersOf
      <4> QED
        BY <3>1, <3>5, <4>2 DEF r
    <3>6. CASE r.kind \notin Destroying \cup {"close"}
      <4>1. \E fs, v : v # "gone" /\ (folder' = folder \/ folder' = Set(folder, fs, v))
        BY <3>1, <3>6 DEF Write
      <4>2. \E cs, v : v # "gone" /\ (clip' = clip \/ clip' = Set(clip, cs, v))
        BY <3>1, <3>6 DEF Write
      <4>3. \A f \in Folders : folder'[f] = "gone" => folder[f] = "gone"
        BY <3>3, <4>1 DEF Set
      <4>4. \A c \in Clips : clip'[c] = "gone" => clip[c] = "gone"
        BY <3>3, <4>2 DEF Set
      <4> QED
        BY <4>3, <4>4
    <3> QED
      BY <3>4, <3>5, <3>6
  <2> QED
    BY <2>1, <2>2, <2>3
<1> QED
  BY <1>1, Invariance, PTL DEF Spec, DestroyedKnown
=============================================================================
