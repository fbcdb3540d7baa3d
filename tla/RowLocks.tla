------------------------------ MODULE RowLocks ------------------------------
(***************************************************************************)
(* The row locks of PostgreSQL, as the handlers of folders, clips, trash   *)
(* and billing take them: one row at a time, in the order of each          *)
(* transaction's statements, waiting for whoever holds the next row. What  *)
(* is read before a lock may be stale when the lock is held.               *)
(*                                                                         *)
(* Rows are numbered. Within a table the number is the order of the ids;   *)
(* no handler compares numbers of two tables. Locks are exclusive: the     *)
(* only ones that are not (the key locks that an insert takes on the rows  *)
(* it refers to) are on rows that one transaction at a time can reach.     *)
(***************************************************************************)
EXTENDS Integers, Sequences

CONSTANTS
  Transactions,     \* requests and batches that run at the same time
  Workspaces,       \* the numbers of the rows of each table
  Folders,
  Clips,
  SubscriptionOf,   \* workspace -> the number of its subscription
  WorkspaceOf,      \* folder -> its workspace
  FolderOf,         \* clip -> its folder, which never changes
  Last,             \* the highest number of a row
  None

Subscriptions == {SubscriptionOf[w] : w \in Workspaces}
Rows == Workspaces \cup Subscriptions \cup Folders \cup Clips

ASSUME RowAssumption ==
  /\ Last \in Nat /\ Rows \subseteq 1..Last
  /\ None \notin Transactions \cup Rows
  /\ SubscriptionOf \in [Workspaces -> Int]
  /\ \A v, w \in Workspaces : SubscriptionOf[v] = SubscriptionOf[w] => v = w
  /\ WorkspaceOf \in [Folders -> Workspaces]
  /\ FolderOf \in [Clips -> Folders]
  \* One numbering for all tables.
  /\ \A w \in Workspaces, s \in Subscriptions : w < s
  /\ \A s \in Subscriptions, f \in Folders : s < f
  /\ \A f \in Folders, c \in Clips : f < c

VARIABLES
  folder,   \* state of a folder
  clip,     \* state of a clip
  closed,   \* workspaces that were deleted with their owner
  holder,   \* who holds the lock of a row
  tx        \* what a transaction does and how far it is

vars == <<folder, clip, closed, holder, tx>>

-----------------------------------------------------------------------------
(* The tables in which a transaction locks rows, in the order of its        *)
(* statements. "workspace" is resolveFolderAccess, which may write the row, *)
(* "cascade" the rows that go with a deleted workspace.                     *)
Plan == [
  list         |-> <<"subscription", "workspace">>,
  folder       |-> <<"subscription", "workspace", "folder", "workspace">>,
  clip         |-> <<"subscription", "workspace", "folder", "clip", "workspace">>,
  create       |-> <<"subscription", "folder", "workspace">>,
  trashClips   |-> <<"subscription", "folder", "clip", "workspace">>,
  emptyFolder  |-> <<"subscription", "folder", "workspace", "clip">>,
  restore      |-> <<"subscription", "folder", "clip", "workspace">>,
  destroy      |-> <<"subscription", "folder", "clip">>,
  emptyTrash   |-> <<"subscription", "folder", "clip">>,
  purgeFolders |-> <<"folder", "clip">>,
  purgeClips   |-> <<"folder", "clip">>,
  check        |-> <<"clip">>,
  bill         |-> <<"subscription">>,
  close        |-> <<"workspace", "cascade">>]

Kinds == DOMAIN Plan
Destroying == {"destroy", "emptyTrash", "purgeFolders", "purgeClips"}

Live(c) == clip[c] \in {"active", "trashed"}
Exists(r) ==
  /\ r \in Workspaces => r \notin closed
  /\ \A w \in Workspaces : r = SubscriptionOf[w] => w \notin closed
  /\ r \in Folders => folder[r] # "gone"
  /\ r \in Clips => Live(r)

Trashed(fs) == {f \in fs : folder[f] = "trashed"}
ClipsIn(fs) == {c \in Clips : Live(c) /\ FolderOf[c] \in fs}
Parents(cs) == {FolderOf[c] : c \in cs}

(* Clips that were asked for and are in the trash. Emptying the trash and   *)
(* the purge leave those whose folder is in the trash to their folder.      *)
Doomed(kind, cs) ==
  {c \in cs : /\ clip[c] = "trashed"
              /\ kind # "destroy" => folder[FolderOf[c]] = "active"}

Idle == [kind |-> None]
Table(t) == Plan[tx[t].kind][tx[t].at]

-----------------------------------------------------------------------------
(* What a request names, or a batch finds without a lock.                   *)
FoldersOf(w) == {f \in Folders : WorkspaceOf[f] = w}
ClipsOf(w) == {c \in Clips : WorkspaceOf[FolderOf[c]] = w}

Names(kind, w, fs, cs) ==
  CASE kind \in {"list", "bill", "emptyTrash", "close"} -> fs = {} /\ cs = {}
    [] kind \in {"folder", "emptyFolder"} -> cs = {} /\ \E f \in FoldersOf(w) : fs = {f}
    [] kind \in {"clip", "check"} -> fs = {} /\ \E c \in ClipsOf(w) : Live(c) /\ cs = {c}
    [] kind = "create" -> fs = {} /\ \E c \in ClipsOf(w) : clip[c] = "unborn" /\ cs = {c}
    [] kind = "trashClips" -> fs = {} /\ cs # {} /\ cs \subseteq ClipsOf(w)
    [] kind \in {"restore", "destroy"} ->
         fs \cup cs # {} /\ fs \subseteq FoldersOf(w) /\ cs \subseteq ClipsOf(w)
    [] kind = "purgeFolders" -> fs # {} /\ cs = {} /\ \A f \in fs : folder[f] = "trashed"
    [] kind = "purgeClips" -> fs = {} /\ cs # {} /\ cs = Doomed(kind, cs)

(* The row that a statement with `todo` left to lock waits for: ORDER BY id, *)
(* but a cascade reaches rows in an order that nobody states.                *)
NextRowsAny(kind, todo) == IF todo = {} THEN {None} ELSE todo
NextRows(kind, todo) ==
  IF todo = {} THEN {None}
  ELSE IF kind = "close" THEN todo ELSE {r \in todo : \A s \in todo : r <= s}

(* The clips that request r finds before it locks them.                      *)
Candidates(r) ==
  CASE r.kind = "emptyFolder" -> {c \in ClipsIn(r.fs) : clip[c] = "active"}
    [] r.kind \in {"destroy", "emptyTrash", "purgeFolders"} ->
         Doomed(r.kind, r.cs) \cup ClipsIn(Trashed(r.fs))
    [] OTHER -> {c \in r.cs : Live(c)}

(* The rows that request r locks in a table.                                 *)
RowSets(r, table) ==
  CASE table = "subscription" -> {{SubscriptionOf[r.w]}}
    [] table = "workspace" ->
         IF r.kind \in {"create", "close"} THEN {{r.w}} ELSE {{}, {r.w}}
    [] table = "folder" -> {{f \in r.fs \cup Parents(r.cs) : Exists(f)}}
    [] table = "clip" -> {Candidates(r)}
    [] table = "cascade" ->
         {{row \in {SubscriptionOf[r.w]} \cup FoldersOf(r.w) \cup ClipsOf(r.w) : Exists(row)}}

Goto(t, r, table) ==
  \E todo \in RowSets(r, table) : \E next \in NextRows(r.kind, todo) :
    tx' = [tx EXCEPT ![t] = [r EXCEPT !.todo = todo, !.next = next]]

Begin(t) ==
  /\ tx[t] = Idle
  /\ \E kind \in Kinds, w \in Workspaces \ closed, fs \in SUBSET Folders, cs \in SUBSET Clips :
       /\ Names(kind, w, fs, cs)
       /\ Goto(t, [kind |-> kind, w |-> w, fs |-> fs, cs |-> cs, at |-> 1, todo |-> {},
                   next |-> None, found |-> {}], Plan[kind][1])
  /\ UNCHANGED <<folder, clip, closed, holder>>

(* The lock of the row that is waited for, or nothing if it was deleted.     *)
Lock(t) ==
  LET r == tx[t] IN
  /\ r # Idle /\ r.next # None
  /\ Exists(r.next) => holder[r.next] \in {t, None}
  /\ holder' = IF Exists(r.next) THEN [holder EXCEPT ![r.next] = t] ELSE holder
  /\ \E next \in NextRows(r.kind, r.todo \ {r.next}) :
       tx' = [tx EXCEPT ![t].todo = @ \ {r.next}, ![t].next = next]
  /\ UNCHANGED <<folder, clip, closed>>

(* What is read again, under the locks taken so far, before the next table   *)
(* is locked: the trash to empty, the folders that are still in the trash    *)
(* and the clips in them.                                                    *)
ReadOnce(r) == r
ReadAgain(r) ==
  CASE r.kind = "emptyTrash" /\ r.at = 1 ->
         [r EXCEPT !.fs = Trashed(FoldersOf(r.w)), !.cs = Doomed(r.kind, ClipsOf(r.w))]
    [] r.kind \in {"destroy", "emptyTrash"} /\ r.at = 2 ->
         [r EXCEPT !.fs = Trashed(r.fs), !.cs = Candidates(r)]
    [] r.kind = "purgeFolders" /\ r.at = 1 -> [r EXCEPT !.fs = Trashed(r.fs)]
    [] OTHER -> r

(* The statement is done. Who found no subscription to lock throws when it   *)
(* reads the plan.                                                           *)
Locked(t) == tx[t] # Idle /\ tx[t].next = None /\ tx[t].at <= Len(Plan[tx[t].kind])
SubscriptionAssumed(t) == FALSE
SubscriptionGone(t) == Table(t) = "subscription" /\ holder[SubscriptionOf[tx[t].w]] # t

Advance(t) ==
  LET r == tx[t] IN
  /\ Locked(t) /\ ~SubscriptionGone(t) /\ r.at < Len(Plan[r.kind])
  /\ Goto(t, [ReadAgain(r) EXCEPT !.at = @ + 1], Plan[r.kind][r.at + 1])
  /\ UNCHANGED <<folder, clip, closed, holder>>

(* With every lock held, the clips to destroy, whose images are read.        *)
Found(r) ==
  IF r.kind \in Destroying
  THEN LET cs == IF r.kind = "purgeFolders" THEN Clips ELSE r.cs
       IN Doomed(r.kind, r.cs) \cup (cs \cap ClipsIn(r.fs))
  ELSE {}

Prepare(t) ==
  LET r == tx[t] IN
  /\ Locked(t) /\ ~SubscriptionGone(t) /\ r.at = Len(Plan[r.kind])
  /\ tx' = [tx EXCEPT ![t].at = @ + 1, ![t].found = Found(r)]
  /\ UNCHANGED <<folder, clip, closed, holder>>

-----------------------------------------------------------------------------
Ready(t) == tx[t] # Idle /\ tx[t].at = Len(Plan[tx[t].kind]) + 1
Released(t) == [row \in Rows |-> IF holder[row] = t THEN None ELSE holder[row]]

(* t ends; of a clip that it saved, others know an image that is no more.    *)
EndsSaving(t, saved) ==
  /\ tx' = [u \in Transactions |->
              IF u = t \/ tx[u] = Idle THEN Idle ELSE [tx[u] EXCEPT !.found = @ \ saved]]
  /\ holder' = Released(t)
Ends(t) == EndsSaving(t, {})

Set(states, rows, value) == [x \in DOMAIN states |-> IF x \in rows THEN value ELSE states[x]]

(* What the transaction still requires when it holds its locks.              *)
Allowed(r) ==
  CASE r.kind \in {"folder", "emptyFolder"} -> \A f \in r.fs : folder[f] = "active"
    [] r.kind \in {"clip", "trashClips"} ->
         \A c \in r.cs : clip[c] = "active" /\ folder[FolderOf[c]] = "active"
    [] r.kind = "create" ->
         \A c \in r.cs : clip[c] = "unborn" /\ folder[FolderOf[c]] = "active"
    [] r.kind = "restore" ->
         /\ \A f \in r.fs : folder[f] = "trashed"
         /\ \A c \in r.cs : clip[c] = "trashed" /\ (folder[FolderOf[c]] = "active"
                                                    \/ FolderOf[c] \in r.fs)
    [] OTHER -> TRUE

Destroy(r) ==
  /\ folder' = Set(folder, r.fs, "gone")
  /\ clip' = Set(clip, r.found \cup ClipsIn(r.fs), "gone")
  /\ UNCHANGED closed

Write(r) ==
  \/ /\ r.kind = "folder" /\ folder' = Set(folder, r.fs, "trashed")
     /\ UNCHANGED <<clip, closed>>
  \/ /\ r.kind = "create" /\ clip' = Set(clip, r.cs, "active")
     /\ UNCHANGED <<folder, closed>>
  \/ /\ r.kind \in {"clip", "trashClips"} /\ clip' = Set(clip, r.cs, "trashed")
     /\ UNCHANGED <<folder, closed>>
  \/ /\ r.kind = "emptyFolder"
     /\ clip' = Set(clip, {c \in ClipsIn(r.fs) : clip[c] = "active"}, "trashed")
     /\ UNCHANGED <<folder, closed>>
  \/ /\ r.kind = "restore"
     /\ folder' = Set(folder, r.fs, "active") /\ clip' = Set(clip, r.cs, "active")
     /\ UNCHANGED closed
  \/ r.kind \in Destroying /\ Destroy(r)
  \/ /\ r.kind = "close" /\ closed' = closed \cup {r.w}
     /\ folder' = Set(folder, FoldersOf(r.w), "gone")
     /\ clip' = Set(clip, {c \in ClipsOf(r.w) : Live(c)}, "gone")
  \* A save of contents, a rename, a like, a view, a tag, a list: nothing that others tell apart.
  \/ /\ r.kind \in {"list", "folder", "clip", "check", "bill"}
     /\ UNCHANGED <<folder, clip, closed>>

Commit(t) ==
  /\ Ready(t) /\ Allowed(tx[t]) /\ Write(tx[t])
  /\ EndsSaving(t, IF tx[t].kind = "clip" THEN tx[t].cs ELSE {})

(* A row is not as the request needs it, or its subscription is gone.        *)
Refuse(t) ==
  /\ \/ Ready(t) /\ ~Allowed(tx[t])
     \/ Locked(t) /\ SubscriptionGone(t)
  /\ Ends(t) /\ UNCHANGED <<folder, clip, closed>>

(* Whatever else may make a request fail rolls it back as well.              *)
Fail(t) == tx[t] # Idle /\ Ends(t) /\ UNCHANGED <<folder, clip, closed>>

WaitsFor(t, u) ==
  /\ tx[t] # Idle /\ u # t
  /\ tx[t].next # None /\ Exists(tx[t].next) /\ holder[tx[t].next] = u

(* Everyone in ts waits for another in ts.                                   *)
Deadlocked(ts) == ts # {} /\ \A t \in ts : \E u \in ts : WaitsFor(t, u)

(* PostgreSQL finds the deadlock and rolls one of its transactions back.     *)
Victim(t) ==
  /\ \E ts \in SUBSET Transactions : t \in ts /\ Deadlocked(ts)
  /\ Ends(t) /\ UNCHANGED <<folder, clip, closed>>

Init ==
  /\ folder \in [Folders -> {"active", "trashed"}]
  /\ clip \in [Clips -> {"unborn", "active", "trashed"}]
  /\ closed = {}
  /\ holder = [row \in Rows |-> None]
  /\ tx = [t \in Transactions |-> Idle]

Next == \E t \in Transactions :
  Begin(t) \/ Lock(t) \/ Advance(t) \/ Prepare(t) \/ Commit(t) \/ Refuse(t) \/ Fail(t)
  \/ Victim(t)

Spec == Init /\ [][Next]_vars

(* A transaction that can go on again and again does: PostgreSQL grants a    *)
(* row in the order of its queue. Of its deadlock detector no more is needed *)
(* than that it ends the deletion of an account which waits in a circle.     *)
GoesOn(t) ==
  \/ Lock(t) \/ Advance(t) \/ Prepare(t) \/ Commit(t) \/ Refuse(t)
  \/ tx[t].kind = "close" /\ Victim(t)

LiveSpec == Spec /\ \A t \in Transactions : SF_vars(GoesOn(t))

-----------------------------------------------------------------------------
Tables == {"subscription", "workspace", "folder", "clip", "cascade"}
Requests == [kind : Kinds, w : Workspaces, fs : SUBSET Folders, cs : SUBSET Clips,
             at : 1..6, todo : SUBSET Rows, next : Rows \cup {None}, found : SUBSET Clips]

TypeOK ==
  /\ folder \in [Folders -> {"active", "trashed", "gone"}]
  /\ clip \in [Clips -> {"unborn", "active", "trashed", "gone"}]
  /\ closed \subseteq Workspaces
  /\ holder \in [Rows -> Transactions \cup {None}]
  /\ tx \in [Transactions -> {Idle} \cup Requests]

RowsIn(w, table) ==
  CASE table = "subscription" -> {SubscriptionOf[w]}
    [] table = "workspace" -> {w}
    [] table = "folder" -> Folders
    [] table = "clip" -> Clips
    [] OTHER -> Rows

(* What t waits for is of the table it is at, and the first in the order.    *)
Waiting(r) ==
  /\ r.at <= Len(Plan[r.kind]) + 1
  /\ r.todo # {} => r.at <= Len(Plan[r.kind]) /\ r.next \in r.todo
  /\ r.todo = {} => r.next = None
  /\ r.at <= Len(Plan[r.kind]) => r.todo \subseteq RowsIn(r.w, Plan[r.kind][r.at])
  /\ r.kind # "close" => \A row \in r.todo : r.next <= row

(* What t holds comes, in the one order of all rows, before what it still    *)
(* has to lock. Workspaces are the exception: who locks one has the lock of  *)
(* its subscription.                                                         *)
Ordered(t, r) ==
  /\ \A row \in Rows : holder[row] = t =>
       \E i \in 1..Len(Plan[r.kind]) : i <= r.at /\ row \in RowsIn(r.w, Plan[r.kind][i])
  /\ \A row \in Rows \ Workspaces : holder[row] = t =>
       \A later \in r.todo \ Workspaces : row < later
  /\ r.at > 1 /\ Plan[r.kind][1] = "subscription" => holder[SubscriptionOf[r.w]] = t

Sound(t) ==
  IF tx[t] = Idle THEN \A row \in Rows : holder[row] # t
  ELSE Waiting(tx[t]) /\ (tx[t].kind # "close" => Ordered(t, tx[t]))

OrderInv == TypeOK /\ \A t \in Transactions : Sound(t)

(* Whoever writes a folder or a clip in it holds the lock of the folder,     *)
(* taken before anything else was decided about it.                          *)
Wanted(r) == IF r.kind = "close" THEN FoldersOf(r.w) ELSE r.fs \cup Parents(r.cs)
Reached(r) ==
  \E i \in 1..Len(Plan[r.kind]) : i <= r.at /\ Plan[r.kind][i] \in {"folder", "cascade"}
FoldersHeld(t, r) ==
  Reached(r) => \A f \in Wanted(r) : folder[f] = "gone" \/ holder[f] = t \/ f \in r.todo

(* What was read again under those locks stays as it was read.               *)
Narrowed(r) ==
  \/ r.kind \in {"destroy", "emptyTrash"} /\ r.at > 2
  \/ r.kind = "purgeFolders" /\ r.at > 1
ReadTrue(r) ==
  /\ r.kind = "purgeClips" => r.fs = {}
  /\ Narrowed(r) =>
       /\ \A f \in r.fs : folder[f] = "trashed"
       /\ r.kind # "purgeFolders" => ClipsIn(r.fs) \subseteq r.cs
  /\ r.kind \in Destroying /\ r.at > Len(Plan[r.kind]) =>
       /\ ClipsIn(r.fs) \subseteq r.found
       /\ \A c \in r.found : /\ Live(c) /\ FolderOf[c] \in Wanted(r)
                             /\ clip[c] = "trashed" \/ FolderOf[c] \in r.fs

IInv ==
  /\ OrderInv
  /\ \A c \in Clips : Live(c) => folder[FolderOf[c]] # "gone"
  /\ \A t \in Transactions : tx[t] # Idle => FoldersHeld(t, tx[t]) /\ ReadTrue(tx[t])

(* No transactions wait for each other in a circle, unless one of them       *)
(* deletes an account: that one starts from the workspace, everyone else     *)
(* from the subscription, and cascades in no order of ids.                   *)
NoDeadlock ==
  \A ts \in SUBSET {t \in Transactions : tx[t].kind # "close"} : ~Deadlocked(ts)

(* What a request or the purge destroys is in the trash at that moment, and  *)
(* its image, as it is at that moment, is among those it then removes: a     *)
(* restored folder, a clip created or saved between the first read and the   *)
(* lock are not lost. An account takes everything with it.                   *)
DestroyedKnown ==
  [][/\ \A c \in Clips : clip'[c] = "gone" /\ clip[c] # "gone" =>
          \E t \in Transactions :
            /\ tx[t] # Idle /\ tx'[t] = Idle
            /\ \/ tx[t].kind = "close"
               \/ /\ c \in tx[t].found
                  /\ clip[c] = "trashed" \/ folder[FolderOf[c]] = "trashed"
     /\ \A f \in Folders : folder'[f] = "gone" /\ folder[f] # "gone" =>
          folder[f] = "trashed" \/ WorkspaceOf[f] \in closed']_vars

(* Every transaction ends, whatever it has to wait for.                      *)
EndedOf(t) == tx[t] # Idle ~> tx[t] = Idle
Ended == \A t \in Transactions : EndedOf(t)
=============================================================================
