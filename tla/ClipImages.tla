----------------------------- MODULE ClipImages -----------------------------
(***************************************************************************)
(* The images of one user's clips: objects in the storage (R2), rows that  *)
(* refer to them, and the requests that must keep the two together without *)
(* a transaction that spans both.                                          *)
(*                                                                         *)
(* A request that brings an image uploads it first, writes the row in a    *)
(* transaction, and then removes what is no longer referred to: the image  *)
(* it replaced, those of the rows it destroyed or, after an error, its own *)
(* upload.  The transaction of a request is `tx', which is not the request:*)
(* the answer to COMMIT may be lost, and the transaction then ends, either *)
(* way, after the request has seen an error.  Until it ends it holds its   *)
(* locks: the subscription row and those of the clips.                     *)
(*                                                                         *)
(* Folders, plans and limits are those of Workspace: here a transaction    *)
(* may be refused at any time, and "trash" is a clip that is in the trash  *)
(* or whose folder is.                                                     *)
(***************************************************************************)
EXTENDS FiniteSets

CONSTANTS
  Images,   \* URLs of uploads, each with a random name of its own
  Clips,    \* identifiers that rows may be created with
  Workers,  \* requests, and runs of the daily purge, at the same time
  None      \* SQL NULL

ASSUME ImagesAssumption == None \notin Images \cup Clips

VARIABLES
  object,  \* what the storage holds under each URL
  row,     \* Clip rows
  job,     \* the request each worker is handling
  tx,      \* its transaction in the database
  alive,   \* the user's account exists
  lost     \* history: images that a failure left for the operators

vars == <<object, row, job, tx, alive, lost>>

ImageOrNone == Images \cup {None}
Rows == [state : {"new", "active", "trash", "gone"}, image : ImageOrNone]
Jobs == [step : {"idle", "upload", "write", "open", "cleanup", "sweep"},
         kind : {"create", "update", "rename", "destroy"},
         clip : Clips \cup {None},      \* the clip that is updated
         seen : ImageOrNone,            \* its image when the request read it
         image : ImageOrNone,           \* the upload of this request
         doomed : SUBSET Images]        \* what is left to remove
Txs == [open : BOOLEAN, sub : BOOLEAN, \* holds the subscription row
        rows : SUBSET Clips,            \* writes and holds these rows
        state : {"active", "gone"}, image : ImageOrNone,
        found : SUBSET Images]          \* URLs it will answer with

Idle == [step |-> "idle", kind |-> "create", clip |-> None, seen |-> None,
         image |-> None, doomed |-> {}]
NoTx == [open |-> FALSE, sub |-> FALSE, rows |-> {}, state |-> "active",
         image |-> None, found |-> {}]

Init ==
  /\ object = [i \in Images |-> "none"]
  /\ row = [c \in Clips |-> [state |-> "new", image |-> None]]
  /\ job = [w \in Workers |-> Idle]
  /\ tx = [w \in Workers |-> NoTx]
  /\ alive = TRUE
  /\ lost = {}

-----------------------------------------------------------------------------
Present == {c \in Clips : row[c].state \in {"active", "trash"}}
RefersTo(i) == {c \in Present : row[c].image = i}
ImagesOf(cs) == {row[c].image : c \in cs} \ {None}

SubscriptionFree == \A v \in Workers : ~(tx[v].open /\ tx[v].sub)
ClipsFree(cs) == \A v \in Workers : tx[v].open => tx[v].rows \cap cs = {}

Goto(w, j) == job' = [job EXCEPT ![w] = j]
Remove(w, is) ==
  Goto(w, IF is = {} THEN Idle ELSE [Idle EXCEPT !.step = "sweep", !.doomed = is])
OnError(w) ==
  Goto(w, IF job[w].image = None THEN Idle ELSE [job[w] EXCEPT !.step = "cleanup"])

(* resolveClipData: an image is uploaded first, a colour or a text is       *)
(* written at once.                                                         *)
ClipData == {"upload", "write"}

(* CreateClip and UpdateClip check the folder or the clip, then resolve the *)
(* contents; a title alone brings none.                                     *)
StartCreate(w) ==
  /\ job[w] = Idle /\ ~tx[w].open
  /\ alive /\ SubscriptionFree
  /\ \E step \in ClipData : Goto(w, [Idle EXCEPT !.step = step])
  /\ UNCHANGED <<object, row, tx, alive, lost>>

StartUpdate(w, c) ==
  /\ job[w] = Idle /\ ~tx[w].open
  /\ SubscriptionFree /\ row[c].state = "active"
  /\ \E kind \in {"update", "rename"}, step \in ClipData :
       /\ kind = "rename" => step = "write"
       /\ Goto(w, [Idle EXCEPT !.kind = kind, !.step = step, !.clip = c,
                               !.seen = row[c].image])
  /\ UNCHANGED <<object, row, tx, alive, lost>>

Upload(w, i) ==
  /\ job[w].step = "upload" /\ object[i] = "none"
  /\ object' = [object EXCEPT ![i] = "stored"]
  /\ Goto(w, [job[w] EXCEPT !.step = "write", !.image = i])
  /\ UNCHANGED <<row, tx, alive, lost>>

(* Refused by type or size, or the storage fails: then the object may have  *)
(* been stored, and nobody knows its name.                                  *)
UploadFails(w) ==
  /\ job[w].step = "upload"
  /\ \/ UNCHANGED <<object, lost>>
     \/ \E i \in Images : /\ object[i] = "none"
                          /\ object' = [object EXCEPT ![i] = "stored"]
                          /\ lost' = lost \cup {i}
  /\ Goto(w, Idle)
  /\ UNCHANGED <<row, tx, alive>>

-----------------------------------------------------------------------------
(* The transactions.                                                        *)

Open(w, t) ==
  /\ tx' = [tx EXCEPT ![w] = [t EXCEPT !.open = TRUE]]
  /\ UNCHANGED <<object, row, alive, lost>>

OpenCreate(w, c) ==
  /\ job[w].step = "write" /\ job[w].kind = "create"
  /\ alive /\ SubscriptionFree
  /\ row[c].state = "new"
  /\ Open(w, [NoTx EXCEPT !.sub = TRUE, !.rows = {c}, !.image = job[w].image])
  /\ Goto(w, [job[w] EXCEPT !.step = "open"])

(* previousImageUrl, and what the row keeps when only the title changes:    *)
(* of the row under its lock, not of the clip that was read before.         *)
PreviousSeen(w) == {job[w].seen} \ {None}
Previous(w) == ImagesOf({job[w].clip})
NewImageRenameSeen(w) == IF job[w].kind = "rename" THEN job[w].seen ELSE job[w].image
NewImage(w) ==
  IF job[w].kind = "rename" THEN row[job[w].clip].image ELSE job[w].image

OpenUpdate(w) ==
  LET c == job[w].clip IN
  /\ job[w].step = "write" /\ job[w].kind \in {"update", "rename"}
  /\ SubscriptionFree /\ ClipsFree({c})
  /\ row[c].state = "active"
  /\ Open(w, [NoTx EXCEPT !.sub = TRUE, !.rows = {c}, !.image = NewImage(w),
                          !.found = IF job[w].kind = "rename" THEN {} ELSE Previous(w)])
  /\ Goto(w, [job[w] EXCEPT !.step = "open"])

(* The user destroys items of the trash, or the purge does: only the user's *)
(* request takes the subscription row.                                      *)
Trash == {c \in Clips : row[c].state = "trash"}

OpenDestroy(w, cs, sub) ==
  /\ job[w] = Idle /\ ~tx[w].open
  /\ cs # {} /\ cs \subseteq Trash
  /\ sub => SubscriptionFree
  /\ ClipsFree(cs)
  /\ Open(w, [NoTx EXCEPT !.sub = sub, !.rows = cs, !.state = "gone",
                          !.found = ImagesOf(cs)])
  /\ Goto(w, [Idle EXCEPT !.step = "open", !.kind = "destroy"])

DeleteTrashItems(w, cs) == OpenDestroy(w, cs, TRUE)
DeleteAllTrashItems(w) == OpenDestroy(w, Trash, TRUE)
PurgeExpired(w, cs) == OpenDestroy(w, cs, FALSE)

(* Not found, no access, at the limit, or an error of the database.         *)
Refuse(w) ==
  /\ job[w].step = "write"
  /\ OnError(w)
  /\ UNCHANGED <<object, row, tx, alive, lost>>

Written(w) ==
  [c \in Clips |-> IF c \in tx[w].rows
                   THEN [state |-> tx[w].state, image |-> tx[w].image] ELSE row[c]]

Commit(w) ==
  /\ tx[w].open
  /\ row' = Written(w)
  /\ tx' = [tx EXCEPT ![w] = NoTx]
  /\ IF job[w].step = "open" THEN Remove(w, tx[w].found) ELSE UNCHANGED job
  /\ UNCHANGED <<object, alive, lost>>

Abort(w) ==
  /\ tx[w].open
  /\ tx' = [tx EXCEPT ![w] = NoTx]
  /\ IF job[w].step = "open" THEN OnError(w) ELSE UNCHANGED job
  /\ UNCHANGED <<object, row, alive, lost>>

(* The connection breaks after COMMIT was sent: what the transaction would  *)
(* have answered with is forgotten.                                         *)
AnswerLost(w) ==
  /\ tx[w].open /\ job[w].step = "open"
  /\ lost' = lost \cup tx[w].found
  /\ OnError(w)
  /\ UNCHANGED <<object, row, tx, alive>>

-----------------------------------------------------------------------------
(* After the transaction.                                                   *)

(* isCreatedImageReferenced waits for the subscription row and looks at all *)
(* clips of the workspace, isClipImageReferenced for the row of the clip.   *)
NoWait(w) == TRUE
WritersDone(w) ==
  IF job[w].kind = "create" THEN alive /\ SubscriptionFree ELSE ClipsFree({job[w].clip})
Unreferenced(w) ==
  IF job[w].kind = "create" THEN RefersTo(job[w].image) = {}
  ELSE job[w].clip \notin RefersTo(job[w].image)

CheckReference(w) ==
  /\ job[w].step = "cleanup"
  /\ WritersDone(w)
  /\ Remove(w, IF Unreferenced(w) THEN {job[w].image} ELSE {})
  /\ UNCHANGED <<object, row, tx, alive, lost>>

(* When the check fails, the image is kept.                                 *)
CheckFails(w) ==
  /\ job[w].step = "cleanup"
  /\ lost' = lost \cup {job[w].image}
  /\ Goto(w, Idle)
  /\ UNCHANGED <<object, row, tx, alive>>

Delete(w, i) ==
  /\ job[w].step = "sweep" /\ i \in job[w].doomed
  /\ \/ object' = [object EXCEPT ![i] = "deleted"] /\ UNCHANGED lost
     \/ lost' = lost \cup {i} /\ UNCHANGED object
  /\ Remove(w, job[w].doomed \ {i})
  /\ UNCHANGED <<row, tx, alive>>

(* The process dies.  A transaction whose COMMIT is under way is left open. *)
Crash(w) ==
  /\ job[w].step # "idle"
  /\ lost' = lost \cup job[w].doomed \cup ({job[w].image} \ {None}) \cup tx[w].found
  /\ Goto(w, Idle)
  /\ UNCHANGED <<object, row, tx, alive>>

-----------------------------------------------------------------------------
(* What else moves clips: softDelete... and restoreItems, and the deletion  *)
(* of the account, whose cascade leaves the images.                         *)

Move(c) ==
  /\ SubscriptionFree /\ ClipsFree({c})
  /\ row[c].state \in {"active", "trash"}
  /\ row' = [row EXCEPT ![c].state = IF @ = "active" THEN "trash" ELSE "active"]
  /\ UNCHANGED <<object, job, tx, alive, lost>>

DeleteAccount ==
  /\ alive /\ \A w \in Workers : ~tx[w].open
  /\ alive' = FALSE
  /\ row' = [c \in Clips |-> [state |-> "gone", image |-> None]]
  /\ lost' = lost \cup ImagesOf(Present)
  /\ UNCHANGED <<object, job, tx>>

-----------------------------------------------------------------------------
Request(w) ==
  \/ StartCreate(w)
  \/ \E c \in Clips : StartUpdate(w, c) \/ OpenCreate(w, c)
  \/ \E i \in Images : Upload(w, i) \/ Delete(w, i)
  \/ UploadFails(w)
  \/ OpenUpdate(w)
  \/ \E cs \in SUBSET Clips : DeleteTrashItems(w, cs) \/ PurgeExpired(w, cs)
  \/ DeleteAllTrashItems(w)
  \/ Refuse(w)
  \/ CheckReference(w) \/ CheckFails(w)

Ends(w) == Commit(w) \/ Abort(w) \/ AnswerLost(w) \/ Crash(w)

Next ==
  \/ \E w \in Workers : Request(w) \/ Ends(w)
  \/ \E c \in Clips : Move(c)
  \/ DeleteAccount

Spec == Init /\ [][Next]_vars

-----------------------------------------------------------------------------
(* The values the variables may take.                                       *)
TypeOK ==
  /\ object \in [Images -> {"none", "stored", "deleted"}]
  /\ row \in [Clips -> Rows]
  /\ job \in [Workers -> Jobs]
  /\ tx \in [Workers -> Txs]
  /\ alive \in BOOLEAN
  /\ lost \subseteq Images

(* A clip, in the trash or not, never refers to an image that was removed:  *)
(* not by racing updates, lost answers, repeated cleanups or destruction.   *)
ReferencedStored == \A c \in Present : row[c].image # None => object[row[c].image] = "stored"

(* Only a failure leaves an object behind: every other one is referred to,  *)
(* or a request has it in hand (docs/clip-content-update-policy.md).        *)
NoLeak ==
  \A i \in Images : object[i] = "stored" =>
    \/ RefersTo(i) # {} \/ i \in lost
    \/ \E w \in Workers : i = job[w].image \/ i \in job[w].doomed

(* The inductive invariant.                                                 *)
OneReference ==
  \A c, d \in Present : row[c].image = row[d].image => c = d \/ row[c].image = None

(* An upload that is still in hand is stored and written by nobody else; it *)
(* may be referred to already only if the request has seen an error.        *)
Keeps(t, i) == \E c \in t.rows \cap Present : row[c].image = i
InHand(w) ==
  LET i == job[w].image
      own(t) == t.sub /\ (job[w].kind = "update" => t.rows = {job[w].clip})
  IN
  /\ job[w].step \in {"write", "open", "cleanup"}
  /\ job[w].kind \in {"create", "update"}
  /\ job[w].kind = "update" => job[w].clip # None
  /\ object[i] # "none"
  /\ job[w].step \in {"write", "open"} =>
       /\ object[i] = "stored" /\ RefersTo(i) = {}
       /\ \A v \in Workers : i \notin job[v].doomed
  /\ job[w].kind = "update" => RefersTo(i) \subseteq {job[w].clip}
  /\ \A v \in Workers : job[v].image = i => v = w
  /\ \A v \in Workers : tx[v].open /\ tx[v].image = i =>
       \/ v = w /\ own(tx[v]) /\ job[w].step \in {"open", "cleanup"}
       \/ Keeps(tx[v], i)

(* What will be removed is not referred to, and no transaction writes it.   *)
Doomed(w) ==
  \A i \in job[w].doomed :
    /\ job[w].step = "sweep"
    /\ RefersTo(i) = {}
    /\ object[i] # "none"
    /\ \A v \in Workers : ~(tx[v].open /\ tx[v].image = i)

(* An open transaction writes an image that is stored, and answers with the *)
(* images of the rows it writes.                                            *)
Sound(w) ==
  LET t == tx[w] IN
  /\ \A v \in Workers \ {w} : tx[v].open => /\ ~(t.sub /\ tx[v].sub)
                                            /\ t.rows \cap tx[v].rows = {}
  /\ ~t.sub => t.rows \subseteq Present
  /\ t.state = "gone" => t.image = None
  /\ t.image # None => /\ object[t.image] = "stored"
                       /\ t.sub
                       /\ \E c \in Clips : t.rows = {c}
                       /\ RefersTo(t.image) \subseteq t.rows
  /\ t.found \subseteq ImagesOf(t.rows \cap Present)
  /\ ImagesOf(t.rows \cap Present) \subseteq t.found \cup {t.image}
  /\ t.image \notin t.found
  /\ job[w].step = "open" =>
       t.image = job[w].image \/ (job[w].image = None /\ Keeps(t, t.image))
  /\ job[w].step # "open" => t.found \subseteq lost

WorkerOK(w) ==
  /\ job[w].image # None => InHand(w)
  /\ Doomed(w)
  /\ job[w].step = "open" => tx[w].open
  /\ job[w].step \in {"write", "upload"} => ~tx[w].open
  /\ job[w].step = "cleanup" => job[w].image # None
  /\ job[w].step = "upload" => job[w].kind \in {"create", "update"}
  /\ job[w].step \in {"upload", "write"} /\ job[w].kind # "create" => job[w].clip \in Clips
  /\ tx[w].open => Sound(w)

IInv ==
  /\ TypeOK
  /\ ReferencedStored
  /\ OneReference
  /\ NoLeak
  /\ \A w \in Workers : WorkerOK(w)

=============================================================================
