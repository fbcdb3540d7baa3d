------------------------------ MODULE Workspace ------------------------------
(***************************************************************************)
(* One personal workspace: its folders and clips, its trash, the folder a  *)
(* free user may open, and the limit on the clips of a folder.             *)
(*                                                                         *)
(* A request of the user is a worker.  Its transaction locks the           *)
(* subscription row, then the folders and clips it is about, checks        *)
(* everything again under these locks, and commits: Begin... is the        *)
(* transaction up to its last statement, with its writes in `job', and     *)
(* Commit makes them visible.  Paying for the subscription takes the same  *)
(* lock.  The daily purge of the trash does not: it locks only the rows it *)
(* is about to destroy.                                                    *)
(*                                                                         *)
(* The number that orders the folders is abstracted: whichever active      *)
(* folder may come first.  Subscriptions are reduced to the end of the     *)
(* paid period, which only moves forward (PaidPeriodKept of Billing).      *)
(***************************************************************************)
EXTENDS Integers, FiniteSets

CONSTANTS
  Folders, Clips,   \* identifiers that rows may be created with
  Workers,          \* requests running at the same time
  None,             \* SQL NULL
  FreeLimit,        \* clips that creation and restore may reach, FREE (50)
  ProLimit,         \* ... and PRO (300)
  Retention,        \* how long deleted items stay in the trash (30 days)
  PurgeLimit,       \* items destroyed by one purge (TRASH_PURGE_LIMIT)
  MaxNow            \* bound on the clock

ASSUME WorkspaceAssumption ==
  /\ IsFiniteSet(Folders) /\ IsFiniteSet(Clips)
  /\ FreeLimit \in Nat /\ ProLimit \in Nat /\ FreeLimit <= ProLimit
  /\ Retention \in Nat \ {0}
  /\ PurgeLimit \in Nat \ {0}
  /\ MaxNow \in Nat \ {0}
  /\ None \notin Int \cup Folders \cup Clips \cup Workers

VARIABLES
  now,        \* the clock
  paidUntil,  \* Subscription.currentPeriodEnd
  selection,  \* Workspace.freeAccess...: the folder chosen for a free period
  folder,     \* Folder rows
  clip,       \* Clip rows
  job,        \* the transaction of each worker
  purge,      \* the run of the daily purge
  opened      \* history: folders opened in the current free period

vars == <<now, paidUntil, selection, folder, clip, job, purge, opened>>

Times == 1..MaxNow

Row(at) == [state |-> "row", deletedAt |-> at]
ClipRow(f, at) == [state |-> "row", folder |-> f, deletedAt |-> at]

FolderStates == [state : {"new", "row", "gone"}, deletedAt : Times \cup {None}]
ClipStates == [state : {"new", "row", "gone"}, folder : Folders \cup {None},
               deletedAt : Times \cup {None}]
Selections == [initialized : BOOLEAN, folder : Folders \cup {None},
               periodEnd : 1..(MaxNow + 1) \cup {None}]

Writes(xs, rows) == UNION {[written -> rows] : written \in SUBSET xs}
Jobs == [step : {"idle", "checked", "open"}, pro : BOOLEAN,
         selection : Selections \cup {None},
         folders : Writes(Folders, FolderStates), clips : Writes(Clips, ClipStates),
         lockedFolders : SUBSET Folders, lockedClips : SUBSET Clips,
         opens : SUBSET Folders]
Purges == [step : {"idle", "failed", "folders", "next", "clips"}, cutoff : Int,
           folders : SUBSET Folders, clips : SUBSET Clips, left : Nat]

NoWrites == [x \in {} |-> None]
Idle == [step |-> "idle", pro |-> FALSE, selection |-> None,
         folders |-> NoWrites, clips |-> NoWrites,
         lockedFolders |-> {}, lockedClips |-> {}, opens |-> {}]
NoPurge == [step |-> "idle", cutoff |-> 0, folders |-> {}, clips |-> {}, left |-> 0]
FailedPurge == [NoPurge EXCEPT !.step = "failed"]

Init ==
  /\ now = 1
  /\ paidUntil = None
  /\ selection = [initialized |-> FALSE, folder |-> None, periodEnd |-> None]
  /\ folder = [f \in Folders |-> [state |-> "new", deletedAt |-> None]]
  /\ clip = [c \in Clips |-> [state |-> "new", folder |-> None, deletedAt |-> None]]
  /\ job = [w \in Workers |-> Idle]
  /\ purge = NoPurge
  /\ opened = {}

-----------------------------------------------------------------------------
(* What a transaction reads.                                               *)

Active == {f \in Folders : folder[f].state = "row" /\ folder[f].deletedAt = None}
Trashed == {f \in Folders : folder[f].state = "row" /\ folder[f].deletedAt # None}
TrashedClips == {c \in Clips : clip[c].state = "row" /\ clip[c].deletedAt # None}
ActiveClips == {c \in Clips : /\ clip[c].state = "row" /\ clip[c].deletedAt = None
                              /\ clip[c].folder \in Active}
ClipsOf(f) == {c \in Clips : clip[c].state = "row" /\ clip[c].folder = f}
Count(f) == Cardinality({c \in ClipsOf(f) : clip[c].deletedAt = None})
FoldersOf(cs) == {clip[c].folder : c \in cs}

(* resolveClipEntitlements *)
Pro == paidUntil # None /\ paidUntil > now
Limit(pro) == IF pro THEN ProLimit ELSE FreeLimit

(* resolveFolderAccess: the selections it may leave in the workspace row.  *)
FirstActive == IF Active = {} THEN {None} ELSE Active
Chosen == [initialized : {TRUE}, folder : FirstActive, periodEnd : {paidUntil}]
Unchosen == [selection EXCEPT !.initialized = FALSE, !.folder = None]
ResolveSwitching ==
  IF Pro THEN {IF selection.initialized THEN Unchosen ELSE selection}
  ELSE IF /\ selection.initialized /\ selection.periodEnd = paidUntil
          /\ selection.folder \in Active
       THEN {selection} ELSE Chosen
Resolve ==
  IF Pro THEN {IF selection.initialized THEN Unchosen ELSE selection}
  ELSE IF selection.initialized /\ selection.periodEnd = paidUntil THEN {selection}
  ELSE Chosen

Accessible(s) == IF s.folder \in Active \cup Trashed THEN s.folder ELSE None
CanOpen(s, f) == Pro \/ Accessible(s) = f

SubscriptionFree == \A w \in Workers : job[w].step # "open"
Opens(fs) == IF Pro THEN {} ELSE fs
Overlay(new, old) == [x \in DOMAIN old |-> IF x \in DOMAIN new THEN new[x] ELSE old[x]]

-----------------------------------------------------------------------------
(* The transactions of the user's requests.                                *)

Begin(w, s, fs, cs, locksF, locksC, opens) ==
  /\ SubscriptionFree
  /\ job' = [job EXCEPT ![w] = [step |-> "open", pro |-> Pro, selection |-> s,
                                folders |-> fs, clips |-> cs, lockedFolders |-> locksF,
                                lockedClips |-> locksC, opens |-> opens]]
  /\ UNCHANGED <<now, paidUntil, selection, folder, clip, purge, opened>>

(* Folder lists, clip lists, search, trash lists: reads persist the choice. *)
BeginRead(w) ==
  \E s \in Resolve :
    /\ job[w].step = "idle"
    /\ Begin(w, s, NoWrites, NoWrites, {}, {}, Opens({Accessible(s)} \cap Active))

(* withFolderAccess, withClipAccess with operations that change no row of  *)
(* this model: rename, tags, likes, views, new contents.                   *)
BeginUse(w, f) ==
  \E s \in Resolve :
    /\ job[w].step = "idle"
    /\ f \in Active /\ CanOpen(s, f)
    /\ Begin(w, s, NoWrites, NoWrites, {f}, {}, Opens({f}))

BeginCreateFolder(w, f) ==
  \E s \in Resolve :
    /\ job[w].step = "idle"
    /\ folder[f].state = "new"
    /\ Pro \/ (Active = {} /\ Accessible(s) = None)
    /\ Begin(w, IF Pro THEN s ELSE [s EXCEPT !.folder = f],
             [x \in {f} |-> Row(None)], NoWrites, {}, {}, Opens({f}))

BeginTrashFolder(w, f) ==
  \E s \in Resolve :
    /\ job[w].step = "idle"
    /\ f \in Active
    /\ Begin(w, s, [x \in {f} |-> Row(now)], NoWrites, {f}, {}, {})

BeginCreateClip(w, f, c) ==
  \E s \in Resolve :
    /\ job[w].step = "idle"
    /\ clip[c].state = "new"
    /\ f \in Active /\ CanOpen(s, f)
    /\ Count(f) + 1 <= Limit(Pro)
    /\ Begin(w, s, NoWrites, [x \in {c} |-> ClipRow(f, None)], {f}, {}, Opens({f}))

(* softDeleteClip, softDeleteClips, softDeleteAllClipsInFolder.             *)
BeginTrashClips(w, cs) ==
  \E s \in Resolve :
    /\ job[w].step = "idle"
    /\ cs # {} /\ cs \subseteq ActiveClips
    /\ \A f \in FoldersOf(cs) : CanOpen(s, f)
    /\ Begin(w, s, NoWrites, [c \in cs |-> ClipRow(clip[c].folder, now)],
             FoldersOf(cs), cs, Opens(FoldersOf(cs)))

(* A free user gets back one folder, the chosen one, or any one when none   *)
(* was ever chosen and none is active; otherwise the result is empty.       *)
PrepareRestoreAlone(s, fs) ==
  IF Pro \/ fs = {} THEN {s}
  ELSE {[s EXCEPT !.folder = f] : f \in {g \in fs : fs = {g} /\ Active = {}}}
PrepareRestore(s, fs) ==
  IF Pro \/ fs = {} THEN {s}
  ELSE {[s EXCEPT !.folder = f] :
          f \in {g \in fs : /\ fs = {g}
                            /\ IF s.folder # None THEN s.folder = g ELSE Active = {}}}

(* All clips of the request are counted against the limit of their folder.  *)
WithinLimitEach(cs) == \A f \in FoldersOf(cs) : Count(f) + 1 <= Limit(Pro)
WithinLimit(cs) ==
  \A f \in FoldersOf(cs) : Count(f) + Cardinality(cs \cap ClipsOf(f)) <= Limit(Pro)

(* The selections with which the items may be restored.                     *)
Restorations(s0, fs, cs) ==
  {s \in PrepareRestore(s0, fs) :
     /\ fs \cup cs # {} /\ fs \subseteq Trashed /\ cs \subseteq TrashedClips
     /\ FoldersOf(cs) \subseteq Active \cup fs
     /\ \A f \in FoldersOf(cs) : CanOpen(s, f)
     /\ WithinLimit(cs)}

BeginRestore(w, fs, cs) ==
  \E s0 \in Resolve : \E s \in Restorations(s0, fs, cs) :
    /\ job[w].step = "idle"
    /\ Begin(w, s, [f \in fs |-> Row(None)],
             [c \in cs |-> ClipRow(clip[c].folder, None)],
             fs \cup FoldersOf(cs), cs, Opens(fs \cup FoldersOf(cs)))

(* deleteOwnedItems: what of the request is still in the trash goes, with   *)
(* every clip of the folders that go.                                       *)
Destroy(w, fs, cs) ==
  LET goneF == fs \cap Trashed
      goneC == (cs \cap TrashedClips) \cup UNION {ClipsOf(f) : f \in goneF}
  IN  Begin(w, selection, [f \in goneF |-> [state |-> "gone", deletedAt |-> None]],
            [c \in goneC |-> [state |-> "gone", folder |-> None, deletedAt |-> None]],
            (fs \cup FoldersOf(cs)) \cap (Active \cup Trashed), goneC, {})

(* DeleteTrashItems reads the request's items before its transaction.       *)
CheckDestroy(w, fs, cs) ==
  /\ job[w].step = "idle"
  /\ fs \cup cs # {} /\ fs \subseteq Trashed /\ cs \subseteq TrashedClips
  /\ FoldersOf(cs) \subseteq Active \cup fs
  /\ job' = [job EXCEPT ![w] = [Idle EXCEPT !.step = "checked", !.lockedFolders = fs,
                 !.lockedClips = {c \in cs : clip[c].folder \notin fs}]]
  /\ UNCHANGED <<now, paidUntil, selection, folder, clip, purge, opened>>

BeginDestroy(w) ==
  /\ job[w].step = "checked"
  /\ Destroy(w, job[w].lockedFolders, job[w].lockedClips)

BeginEmptyTrash(w) ==
  /\ job[w].step = "idle"
  /\ Destroy(w, Trashed, {c \in TrashedClips : clip[c].folder \in Active})

Commit(w) ==
  /\ job[w].step = "open"
  /\ selection' = job[w].selection
  /\ folder' = Overlay(job[w].folders, folder)
  /\ clip' = Overlay(job[w].clips, clip)
  /\ opened' = opened \cup job[w].opens
  /\ job' = [job EXCEPT ![w] = Idle]
  /\ UNCHANGED <<now, paidUntil, purge>>

(* The transaction fails, or the process dies: nothing of it remains.       *)
Rollback(w) ==
  /\ job[w].step # "idle"
  /\ job' = [job EXCEPT ![w] = Idle]
  /\ UNCHANGED <<now, paidUntil, selection, folder, clip, purge, opened>>

Tick ==
  /\ now < MaxNow /\ now' = now + 1
  /\ UNCHANGED <<paidUntil, selection, folder, clip, job, purge, opened>>

(* A purchase or a renewal is recorded.                                     *)
Pay ==
  /\ SubscriptionFree
  /\ \E end \in 1..(MaxNow + 1) :
       /\ end > now /\ (paidUntil # None => end > paidUntil)
       /\ paidUntil' = end
  /\ opened' = {}
  /\ UNCHANGED <<now, selection, folder, clip, job, purge>>

-----------------------------------------------------------------------------
(* The daily purge.  It may be late, fail anywhere and start again.         *)

ExpiredBefore(at, cutoff) == at # None /\ at < cutoff
Expired(at, cutoff) == at # None /\ at <= cutoff
ExpiredFolders(cutoff) == {f \in Trashed : Expired(folder[f].deletedAt, cutoff)}
ExpiredClips(cutoff) ==
  {c \in TrashedClips : /\ clip[c].folder \in Active
                        /\ Expired(clip[c].deletedAt, cutoff)}

(* ORDER BY deletedAt ... LIMIT n                                           *)
Oldest(xs, row, n) ==
  {s \in SUBSET xs :
     /\ IF Cardinality(xs) <= n THEN s = xs ELSE Cardinality(s) = n
     /\ \A x \in s, y \in xs \ s : row[x].deletedAt <= row[y].deletedAt}

NoRowLocks(fs, cs) == TRUE
Unlocked(fs, cs) ==
  \A w \in Workers : job[w].step = "open" =>
     /\ job[w].lockedFolders \cap fs = {}
     /\ job[w].lockedClips \cap cs = {}

ScanFolders ==
  /\ purge.step \in {"idle", "failed"}
  /\ \E fs \in Oldest(ExpiredFolders(now - Retention), folder, PurgeLimit) :
       purge' = [step |-> "folders", cutoff |-> now - Retention,
                 folders |-> fs, clips |-> {}, left |-> PurgeLimit]
  /\ UNCHANGED <<now, paidUntil, selection, folder, clip, job, opened>>

(* The candidates are read again under their locks.                         *)
StaleCandidates(fs) == fs
StillInTrash(fs) == fs \cap Trashed
StillExpired(fs) == fs \cap ExpiredFolders(purge.cutoff)

(* The clips of a folder go with it, in the trash or not.                   *)
DestroyFolders ==
  LET goneF == StillExpired(purge.folders)
      goneC == UNION {ClipsOf(f) : f \in goneF}
      left  == purge.left - Cardinality(goneF)
  IN
  /\ purge.step = "folders"
  /\ Unlocked(purge.folders, goneC)
  /\ folder' = Overlay([f \in goneF |-> [state |-> "gone", deletedAt |-> None]], folder)
  /\ clip' = Overlay([c \in goneC |-> [state |-> "gone", folder |-> None,
                                        deletedAt |-> None]], clip)
  /\ purge' = IF left > 0 THEN [purge EXCEPT !.step = "next", !.folders = {}, !.left = left]
              ELSE NoPurge
  /\ UNCHANGED <<now, paidUntil, selection, job, opened>>

ScanClips ==
  /\ purge.step = "next"
  /\ \E cs \in Oldest(ExpiredClips(purge.cutoff), clip, purge.left) :
       purge' = [purge EXCEPT !.step = "clips", !.clips = cs,
                              !.folders = FoldersOf(cs)]
  /\ UNCHANGED <<now, paidUntil, selection, folder, clip, job, opened>>

DestroyClips ==
  LET goneC == purge.clips \cap ExpiredClips(purge.cutoff) IN
  /\ purge.step = "clips"
  /\ Unlocked(purge.folders, purge.clips)
  /\ clip' = Overlay([c \in goneC |-> [state |-> "gone", folder |-> None,
                                        deletedAt |-> None]], clip)
  /\ purge' = NoPurge
  /\ UNCHANGED <<now, paidUntil, selection, folder, job, opened>>

PurgeFails ==
  /\ purge.step \notin {"idle", "failed"}
  /\ purge' = FailedPurge
  /\ UNCHANGED <<now, paidUntil, selection, folder, clip, job, opened>>

-----------------------------------------------------------------------------
Request(w) ==
  \/ BeginRead(w)
  \/ \E f \in Folders :
       \/ BeginUse(w, f) \/ BeginCreateFolder(w, f) \/ BeginTrashFolder(w, f)
       \/ \E c \in Clips : BeginCreateClip(w, f, c)
  \/ \E cs \in SUBSET Clips :
       \/ BeginTrashClips(w, cs)
       \/ \E fs \in SUBSET Folders : BeginRestore(w, fs, cs) \/ CheckDestroy(w, fs, cs)
  \/ BeginDestroy(w)
  \/ BeginEmptyTrash(w)

Ends(w) == Commit(w) \/ Rollback(w)

Next ==
  \/ \E w \in Workers : Request(w) \/ Ends(w)
  \/ ScanFolders \/ DestroyFolders \/ ScanClips \/ DestroyClips \/ PurgeFails
  \/ Tick
  \/ Pay

Spec == Init /\ [][Next]_vars

(* A transaction ends and the cron starts the purge every day.  Any number  *)
(* of runs may fail, but not all of them; a statement that waits for row    *)
(* locks that are released again and again gets them in the end.            *)
Fairness ==
  /\ \A w \in Workers : WF_vars(job[w].step = "open" /\ Ends(w))
  /\ WF_vars(ScanFolders) /\ SF_vars(DestroyFolders)
  /\ WF_vars(ScanClips) /\ SF_vars(DestroyClips)
  /\ <>[](purge.step # "failed")

FairSpec == Spec /\ Fairness

-----------------------------------------------------------------------------
(* The values the variables may take, and that at most one transaction of   *)
(* the workspace holds the subscription row.                                *)
TypeOK ==
  /\ now \in Times
  /\ paidUntil \in 1..(MaxNow + 1) \cup {None}
  /\ selection \in Selections
  /\ folder \in [Folders -> FolderStates]
  /\ clip \in [Clips -> ClipStates]
  /\ job \in [Workers -> Jobs]
  /\ purge \in Purges
  /\ opened \subseteq Folders
  /\ \A v, w \in Workers : job[v].step = "open" /\ job[w].step = "open" => v = w

(* Within one free period a user never gets at the contents of two folders  *)
(* that both still exist: not by deleting, restoring, destroying, creating, *)
(* waiting for the purge or racing requests (docs/free-folder-access.md).   *)
OneFolderPerFreePeriod ==
  \A f, g \in opened : folder[f].state = "row" /\ folder[g].state = "row" => f = g

(* The inductive invariant: every opened folder that exists is the chosen    *)
(* one, now and after the open transaction commits; no folder is opened in  *)
(* paid time; and what a transaction will write are rows that it locked,    *)
(* that still exist and, if it destroys them, are in the trash.             *)
Settled(s, fs, rows) ==
  \A f \in fs : /\ rows[f].state # "new"
                /\ rows[f].state = "row" =>
                     s.initialized /\ s.periodEnd = paidUntil /\ s.folder = f
Held(j) ==
  /\ j.selection \in Selections
  /\ j.opens # {} => ~Pro
  /\ Settled(j.selection, opened \cup j.opens, Overlay(j.folders, folder))
  /\ \A f \in DOMAIN j.folders :
       /\ j.folders[f].state # "new"
       /\ folder[f].state # "gone"
       /\ folder[f].state = "row" => f \in j.lockedFolders
       /\ j.folders[f].state = "gone" => f \in Trashed
  /\ \A c \in DOMAIN j.clips :
       /\ clip[c].state # "gone"
       /\ clip[c].state = "row" => c \in j.lockedClips
       /\ j.clips[c].state = "gone" =>
            c \in TrashedClips \/ clip[c].folder \in Trashed \cap j.lockedFolders
IInv ==
  /\ TypeOK
  /\ opened # {} => ~Pro
  /\ Settled(selection, opened, folder)
  /\ \A w \in Workers : job[w].step = "open" => Held(job[w])
  /\ purge.step \in {"folders", "next", "clips"} => purge.cutoff <= now - Retention

(* A folder gains clips only up to the limit of the plan that the committing *)
(* transaction saw, whatever else was creating or restoring meanwhile.      *)
LimitKept ==
  [][\A f \in Folders : Count(f)' > Count(f) =>
       \E w \in Workers : /\ job[w].step = "open" /\ job'[w].step = "idle"
                          /\ Count(f)' <= Limit(job[w].pro)]_vars

(* Nothing is destroyed that is not in the trash at that moment: what was   *)
(* restored after it was requested or found expired stays.  And nothing     *)
(* that was destroyed comes back from a transaction that had read it.       *)
OnlyTrashDestroyed ==
  [][/\ \A f \in Folders :
          /\ folder[f].state = "row" /\ folder'[f].state = "gone" => f \in Trashed
          /\ folder[f].state = "gone" => folder'[f].state = "gone"
     /\ \A c \in Clips :
          /\ clip[c].state = "row" /\ clip'[c].state = "gone"
             => c \in TrashedClips \/ clip[c].folder \in Trashed
          /\ clip[c].state = "gone" => clip'[c].state = "gone"]_vars

Overdue(row) == row.deletedAt # None /\ row.deletedAt + Retention <= now

(* The purge destroys nothing whose retention has not passed, even if it    *)
(* was restored and deleted again after the scan found it.                  *)
PurgeKeepsRetention ==
  [][purge' # purge =>
       /\ \A f \in Folders : folder'[f] # folder[f] => Overdue(folder[f])
       /\ \A c \in Clips : clip'[c] # clip[c] =>
            Overdue(clip[c]) \/ Overdue(folder[clip[c].folder])]_vars

(* Within a free period a stored choice is fixed (docs/free-folder-access.md). *)
(* While the chosen folder exists, no step of any request, of the purge or    *)
(* of the clock lets the user get at another folder or keeps him from getting *)
(* at this one, out of the trash if it is there.  Once it is destroyed he may *)
(* create a folder in its place, but gets at none that existed before.        *)
Stored(f) == /\ ~Pro /\ selection.initialized
             /\ selection.folder = f /\ selection.periodEnd = paidUntil
Obtainable ==
  {f \in Folders : \E s \in Resolve :
     IF f \in Active THEN CanOpen(s, f) ELSE Restorations(s, {f}, {}) # {}}
ChoiceKept ==
  [][\A f \in Folders : Stored(f) /\ paidUntil' = paidUntil =>
       IF folder'[f].state = "row" THEN Obtainable' = {f}
       ELSE \A g \in Obtainable' : folder[g].state = "new"]_vars

(* What stays in the trash past its retention is destroyed, small as the    *)
(* limit of a run is and whatever the user is doing.  A clip counts while   *)
(* its folder is active; with its folder in the trash it goes as a part.    *)
OverdueFolder(f) == f \in Trashed /\ Overdue(folder[f])
OverdueClip(c) == /\ c \in TrashedClips /\ Overdue(clip[c])
                  /\ clip[c].folder \in Active
ExpiredPurged ==
  /\ \A f \in Folders : OverdueFolder(f) ~> ~OverdueFolder(f)
  /\ \A c \in Clips : OverdueClip(c) ~> ~OverdueClip(c)

(* Said by delete-trash-items.usecase.ts: a clip of a deleted folder is not *)
(* destroyed alone, without its folder.                                     *)
ClipGoesWithFolder ==
  [][\A c \in Clips : clip[c].state = "row" /\ clip'[c].state = "gone"
                       /\ clip[c].folder \in Trashed
                       => folder'[clip[c].folder].state = "gone"]_vars

=============================================================================
