--------------------------- MODULE WorkspaceProofs ---------------------------
(***************************************************************************)
(* Theorems about Workspace, for every value of its constants.             *)
(***************************************************************************)
EXTENDS Workspace, FiniteSetTheorems, TLAPS

\* A function written for some of the rows is one of the writes of a transaction.
LEMMA WritesOf ==
  ASSUME NEW S, NEW T, NEW X \in SUBSET S, NEW r \in [X -> T]
  PROVE  r \in Writes(S, T) /\ DOMAIN r = X
BY DEF Writes

\* The domain and the values of a transaction's writes.
LEMMA WritesTyped ==
  ASSUME NEW S, NEW T, NEW r \in Writes(S, T)
  PROVE  DOMAIN r \subseteq S /\ \A x \in DOMAIN r : r[x] \in T
BY DEF Writes

\* Writing some rows of a table yields a table.
LEMMA OverlayTyped ==
  ASSUME NEW S, NEW T, NEW r \in Writes(S, T), NEW old \in [S -> T]
  PROVE  Overlay(r, old) \in [S -> T]
BY WritesTyped DEF Overlay

\* Writing nothing.
LEMMA NoWritesTyped ==
  ASSUME NEW S, NEW T
  PROVE  NoWrites \in Writes(S, T) /\ DOMAIN NoWrites = {}
<1>1. DOMAIN NoWrites = {} /\ NoWrites = [x \in {} |-> None]
  BY DEF NoWrites
<1>2. NoWrites \in [{} -> T]
  BY <1>1
<1> QED
  BY <1>1, <1>2, WritesOf

\* A worker without a transaction and a purge that is not running are typed.
LEMMA IdleTyped == Idle \in Jobs /\ Idle.step = "idle" /\ NoPurge \in Purges
                     /\ NoPurge.step = "idle"
BY NoWritesTyped DEF Idle, Jobs, NoPurge, Purges

\* The selection a transaction works with is typed, and for a free workspace it
\* belongs to the current period.
LEMMA ResolveTyped ==
  ASSUME TypeOK, NEW s \in Resolve
  PROVE  s \in Selections /\ (~Pro => s.initialized /\ s.periodEnd = paidUntil)
<1>1. CASE Pro
  BY <1>1 DEF TypeOK, Resolve, Unchosen, Selections
<1>2. CASE ~Pro /\ selection.initialized /\ selection.periodEnd = paidUntil
  BY <1>2 DEF TypeOK, Resolve
<1>3. CASE ~Pro /\ ~(selection.initialized /\ selection.periodEnd = paidUntil)
  <2>1. s \in Chosen
    BY <1>3 DEF Resolve
  <2> QED
    BY <2>1 DEF TypeOK, Chosen, FirstActive, Active, Selections
<1> QED
  BY <1>1, <1>2, <1>3

\* Resolving keeps the choice while a folder opened in this free period exists.
LEMMA ResolveSettled ==
  ASSUME TypeOK, opened # {} => ~Pro, Settled(selection, opened, folder),
         NEW s \in Resolve
  PROVE  Settled(s, opened, folder)
<1>1. CASE \E f \in opened : folder[f].state = "row"
  <2>1. ~Pro /\ selection.initialized /\ selection.periodEnd = paidUntil
    BY <1>1 DEF Settled
  <2>2. s = selection
    BY <2>1 DEF Resolve
  <2> QED
    BY <2>2
<1>2. CASE ~(\E f \in opened : folder[f].state = "row")
  BY <1>2 DEF Settled
<1> QED
  BY <1>1, <1>2

----------------------------------------------------------------------------
\* The first half of a transaction keeps the invariant if what it holds is sound.

LEMMA BeginStep ==
  ASSUME IInv, NEW w \in Workers, NEW s \in Selections,
         NEW fs \in Writes(Folders, FolderStates), NEW cs \in Writes(Clips, ClipStates),
         NEW lf \in SUBSET Folders, NEW lc \in SUBSET Clips, NEW op \in SUBSET Folders,
         Begin(w, s, fs, cs, lf, lc, op),
         NEW j, j = [step |-> "open", pro |-> Pro, selection |-> s, folders |-> fs,
                     clips |-> cs, lockedFolders |-> lf, lockedClips |-> lc, opens |-> op],
         Held(j)
  PROVE  IInv'
<1>1. /\ job' = [job EXCEPT ![w] = j]
      /\ UNCHANGED <<now, paidUntil, selection, folder, clip, purge, opened>>
      /\ \A v \in Workers : job[v].step # "open"
  BY DEF Begin, SubscriptionFree
<1>2. j \in Jobs
  BY DEF Jobs, Pro
<1>3. job \in [Workers -> Jobs]
  BY DEF IInv, TypeOK
<1>4. /\ job' \in [Workers -> Jobs] /\ job'[w] = j
      /\ \A v \in Workers \ {w} : job'[v] = job[v]
  BY <1>1, <1>2, <1>3
<1>5. TypeOK'
  BY <1>1, <1>4 DEF IInv, TypeOK
<1>6. ASSUME NEW v \in Workers, job'[v].step = "open" PROVE Held(job[v])'
  <2>1. v = w /\ job'[v] = j
    BY <1>1, <1>4, <1>6
  <2>2. (opened \cup job[v].opens = opened \cup j.opens)'
        /\ Overlay(job[v].folders, folder)' = Overlay(j.folders, folder)
    BY <2>1, <1>1 DEF Overlay
  <2> QED
    BY <2>1, <2>2, <1>1 DEF Held, Settled, Pro, Trashed, TrashedClips
<1>7. (opened # {} => ~Pro)' /\ Settled(selection, opened, folder)'
      /\ (purge.step \in {"folders", "next", "clips"} => purge.cutoff <= now - Retention)'
  BY <1>1 DEF IInv, Settled, Pro
<1> QED
  BY <1>5, <1>6, <1>7 DEF IInv

\* Writing existing or new folders disturbs no choice made before.
LEMMA OverlaySettled ==
  ASSUME TypeOK, NEW s, Settled(s, opened, folder), NEW fs \in Writes(Folders, FolderStates),
         \A f \in DOMAIN fs : folder[f].state # "gone" /\ fs[f].state # "new"
  PROVE  Settled(s, opened, Overlay(fs, folder))
<1> SUFFICES ASSUME NEW f \in opened
             PROVE  LET r == Overlay(fs, folder)[f] IN
                    /\ r.state # "new"
                    /\ r.state = "row" => s.initialized /\ s.periodEnd = paidUntil /\ s.folder = f
  BY DEF Settled
<1>1. f \in Folders /\ folder[f] \in FolderStates /\ DOMAIN folder = Folders
  BY DEF TypeOK
<1>2. Overlay(fs, folder)[f] = IF f \in DOMAIN fs THEN fs[f] ELSE folder[f]
  BY <1>1 DEF Overlay
<1>3. folder[f].state # "new" /\
      (folder[f].state = "row" => s.initialized /\ s.periodEnd = paidUntil /\ s.folder = f)
  BY DEF Settled
<1>4. folder[f].state \in {"new", "row", "gone"}
  BY <1>1 DEF FolderStates
<1> QED
  BY <1>2, <1>3, <1>4

\* A folder that a free workspace may open is the one that was chosen.
LEMMA OpenIsChosen ==
  ASSUME TypeOK, ~Pro, NEW s \in Resolve, NEW f \in Folders, CanOpen(s, f)
  PROVE  s.initialized /\ s.periodEnd = paidUntil /\ s.folder = f
<1>1. None \notin Folders
  BY WorkspaceAssumption
<1>2. s.folder = f
  BY <1>1 DEF CanOpen, Accessible
<1> QED
  BY <1>2, ResolveTyped

\* Requests that open folders and write only clips.
LEMMA ContentStep ==
  ASSUME IInv, NEW w \in Workers, NEW s \in Resolve, NEW fs \in SUBSET Active,
         \A f \in fs : CanOpen(s, f),
         NEW cs \in Writes(Clips, ClipStates), NEW lf \in SUBSET Folders,
         NEW lc \in SUBSET Clips,
         \A c \in DOMAIN cs : /\ clip[c].state # "gone" /\ cs[c].state # "gone"
                              /\ clip[c].state = "row" => c \in lc,
         Begin(w, s, NoWrites, cs, lf, lc, Opens(fs))
  PROVE  IInv'
<1> DEFINE j == [step |-> "open", pro |-> Pro, selection |-> s, folders |-> NoWrites,
                 clips |-> cs, lockedFolders |-> lf, lockedClips |-> lc, opens |-> Opens(fs)]
<1>1. TypeOK /\ s \in Selections /\ fs \subseteq Folders
  BY ResolveTyped DEF IInv, Active
<1>2. NoWrites \in Writes(Folders, FolderStates) /\ DOMAIN NoWrites = {}
  BY NoWritesTyped
<1>3. Settled(s, opened, folder)
  BY <1>1, ResolveSettled DEF IInv
<1>4. Overlay(NoWrites, folder) = folder
  BY <1>1, <1>2 DEF Overlay, TypeOK
<1>5. Opens(fs) \in SUBSET Folders /\ (Opens(fs) # {} => ~Pro)
  BY <1>1 DEF Opens
<1>6. Settled(s, opened \cup Opens(fs), folder)
  <2>1. ASSUME NEW f \in Opens(fs)
        PROVE  folder[f].state = "row" /\ s.initialized /\ s.periodEnd = paidUntil
               /\ s.folder = f
    <3>1. f \in fs /\ ~Pro /\ f \in Folders
      BY <1>1 DEF Opens
    <3> QED
      BY <3>1, <1>1, OpenIsChosen DEF Active
  <2> QED
    BY <2>1, <1>3 DEF Settled
<1>7. Held(j)
  BY <1>1, <1>2, <1>4, <1>5, <1>6 DEF Held
<1> QED
  BY <1>1, <1>2, <1>5, <1>7, BeginStep

\* A list opens the folder it lets the user see.
LEMMA BeginReadStep ==
  ASSUME IInv, NEW w \in Workers, BeginRead(w)
  PROVE  IInv'
<1>1. PICK s \in Resolve :
        Begin(w, s, NoWrites, NoWrites, {}, {}, Opens({Accessible(s)} \cap Active))
  BY DEF BeginRead
<1>2. \A f \in {Accessible(s)} \cap Active : CanOpen(s, f)
  BY DEF CanOpen
<1> QED
  BY <1>1, <1>2, NoWritesTyped, ContentStep

\* The contents of a folder are used when the folder may be opened.
LEMMA BeginUseStep ==
  ASSUME IInv, NEW w \in Workers, NEW f \in Folders, BeginUse(w, f)
  PROVE  IInv'
<1>1. PICK s \in Resolve : /\ f \in Active /\ CanOpen(s, f)
                           /\ Begin(w, s, NoWrites, NoWrites, {f}, {}, Opens({f}))
  BY DEF BeginUse
<1> QED
  BY <1>1, NoWritesTyped, ContentStep

\* A clip is created in a folder that may be opened.
LEMMA BeginCreateClipStep ==
  ASSUME IInv, NEW w \in Workers, NEW f \in Folders, NEW c \in Clips,
         BeginCreateClip(w, f, c)
  PROVE  IInv'
<1> DEFINE cs == [x \in {c} |-> ClipRow(f, None)]
<1>1. PICK s \in Resolve : /\ f \in Active /\ CanOpen(s, f) /\ clip[c].state = "new"
                           /\ Begin(w, s, NoWrites, cs, {f}, {}, Opens({f}))
  BY DEF BeginCreateClip
<1>2. ClipRow(f, None) \in ClipStates
  BY DEF ClipRow, ClipStates
<1>3. cs \in Writes(Clips, ClipStates) /\ DOMAIN cs = {c} /\ cs[c].state = "row"
  <2>1. cs \in [{c} -> ClipStates]
    BY <1>2
  <2> QED
    BY <2>1, WritesOf DEF ClipRow
<1> QED
  BY <1>1, <1>3, ContentStep

\* Clips are deleted in folders that may be opened.
LEMMA BeginTrashClipsStep ==
  ASSUME IInv, NEW w \in Workers, NEW cs \in SUBSET Clips, BeginTrashClips(w, cs)
  PROVE  IInv'
<1> DEFINE r == [c \in cs |-> ClipRow(clip[c].folder, now)]
<1>1. PICK s \in Resolve :
        /\ cs \subseteq ActiveClips /\ \A f \in FoldersOf(cs) : CanOpen(s, f)
        /\ Begin(w, s, NoWrites, r, FoldersOf(cs), cs, Opens(FoldersOf(cs)))
  BY DEF BeginTrashClips
<1>2. FoldersOf(cs) \in SUBSET Active /\ FoldersOf(cs) \subseteq Folders
  BY <1>1 DEF FoldersOf, ActiveClips, Active
<1>3. \A c \in cs : ClipRow(clip[c].folder, now) \in ClipStates /\ clip[c].state = "row"
  BY <1>1 DEF ClipRow, ClipStates, ActiveClips, Active, IInv, TypeOK
<1>4. r \in Writes(Clips, ClipStates) /\ DOMAIN r = cs /\ \A c \in cs : r[c].state = "row"
  <2>1. r \in [cs -> ClipStates]
    BY <1>3
  <2> QED
    BY <2>1, WritesOf DEF ClipRow
<1> QED
  BY <1>1, <1>2, <1>3, <1>4, ContentStep

\* A free user creates a folder only when no opened one is left.
LEMMA BeginCreateFolderStep ==
  ASSUME IInv, NEW w \in Workers, NEW f \in Folders, BeginCreateFolder(w, f)
  PROVE  IInv'
<1> DEFINE fs == [x \in {f} |-> Row(None)]
<1>1. PICK s \in Resolve :
        /\ folder[f].state = "new"
        /\ Pro \/ (Active = {} /\ Accessible(s) = None)
        /\ Begin(w, IF Pro THEN s ELSE [s EXCEPT !.folder = f], fs, NoWrites, {}, {},
                 Opens({f}))
  BY DEF BeginCreateFolder
<1> DEFINE t == IF Pro THEN s ELSE [s EXCEPT !.folder = f]
           j == [step |-> "open", pro |-> Pro, selection |-> t, folders |-> fs,
                 clips |-> NoWrites, lockedFolders |-> {}, lockedClips |-> {},
                 opens |-> Opens({f})]
<1>2. TypeOK /\ s \in Selections /\ (~Pro => s.initialized /\ s.periodEnd = paidUntil)
  BY ResolveTyped DEF IInv
<1>3. t \in Selections
  BY <1>2 DEF Selections
<1>4. fs \in Writes(Folders, FolderStates) /\ DOMAIN fs = {f} /\ fs[f].state = "row"
  <2>1. fs \in [{f} -> FolderStates]
    BY DEF Row, FolderStates
  <2> QED
    BY <2>1, WritesOf DEF Row
<1>5. Settled(t, opened, folder)
  <2>1. Settled(s, opened, folder)
    BY <1>2, ResolveSettled DEF IInv
  <2>2. CASE ~Pro
    <3>1. \A g \in opened : folder[g].state # "row"
      <4> SUFFICES ASSUME NEW g \in opened, folder[g].state = "row" PROVE FALSE
        OBVIOUS
      <4>1. g \in Folders /\ s.folder = g /\ g # None
        BY <2>1, <1>2, WorkspaceAssumption DEF Settled, TypeOK
      <4> QED
        BY <4>1, <2>2, <1>1 DEF Accessible, Active, Trashed
    <3> QED
      BY <3>1, <2>1 DEF Settled
  <2> QED
    BY <2>1, <2>2
<1>6. Settled(t, opened \cup Opens({f}), Overlay(fs, folder))
  <2>1. Settled(t, opened, Overlay(fs, folder))
    BY <1>1, <1>2, <1>4, <1>5, OverlaySettled
  <2>2. ASSUME ~Pro PROVE t.initialized /\ t.periodEnd = paidUntil /\ t.folder = f
    BY <2>2, <1>2 DEF Selections
  <2>3. Overlay(fs, folder)[f].state = "row"
    BY <1>2, <1>4 DEF Overlay, TypeOK
  <2> QED
    BY <2>1, <2>2, <2>3 DEF Settled, Opens
<1>7. Held(j)
  BY <1>1, <1>3, <1>4, <1>6, NoWritesTyped DEF Held, Opens
<1>8. Opens({f}) \in SUBSET Folders /\ NoWrites \in Writes(Clips, ClipStates)
  BY NoWritesTyped DEF Opens
<1> QED
  BY <1>1, <1>3, <1>4, <1>7, <1>8, BeginStep

\* The choice outlives its folder in the trash.
LEMMA BeginTrashFolderStep ==
  ASSUME IInv, NEW w \in Workers, NEW f \in Folders, BeginTrashFolder(w, f)
  PROVE  IInv'
<1> DEFINE fs == [x \in {f} |-> Row(now)]
<1>1. PICK s \in Resolve : f \in Active /\ Begin(w, s, fs, NoWrites, {f}, {}, {})
  BY DEF BeginTrashFolder
<1> DEFINE j == [step |-> "open", pro |-> Pro, selection |-> s, folders |-> fs,
                 clips |-> NoWrites, lockedFolders |-> {f}, lockedClips |-> {}, opens |-> {}]
<1>2. TypeOK /\ s \in Selections
  BY ResolveTyped DEF IInv
<1>3. fs \in Writes(Folders, FolderStates) /\ DOMAIN fs = {f} /\ fs[f].state = "row"
  <2>1. fs \in [{f} -> FolderStates]
    BY <1>2 DEF Row, FolderStates, TypeOK
  <2> QED
    BY <2>1, WritesOf DEF Row
<1>4. Settled(s, opened, Overlay(fs, folder))
  BY <1>1, <1>2, <1>3, ResolveSettled, OverlaySettled DEF IInv, Active
<1>5. Held(j)
  BY <1>1, <1>2, <1>3, <1>4, NoWritesTyped DEF Held, Active
<1>6. NoWrites \in Writes(Clips, ClipStates)
  BY NoWritesTyped
<1> QED
  BY <1>1, <1>2, <1>3, <1>5, <1>6, BeginStep

\* A free user takes back only the chosen folder, or chooses when nothing is left.
LEMMA PrepareSettled ==
  ASSUME IInv, NEW s0 \in Resolve, NEW fs \in SUBSET Trashed, NEW s \in PrepareRestore(s0, fs)
  PROVE  /\ s \in Selections /\ Settled(s, opened, folder)
         /\ ~Pro => s.initialized /\ s.periodEnd = paidUntil
         /\ ~Pro => \A f \in fs : s.folder = f
         /\ ~Pro /\ fs = {} => s = s0
<1>1. TypeOK /\ s0 \in Selections /\ (~Pro => s0.initialized /\ s0.periodEnd = paidUntil)
  BY ResolveTyped DEF IInv
<1>2. Settled(s0, opened, folder)
  BY <1>1, ResolveSettled DEF IInv
<1>3. CASE Pro \/ fs = {}
  BY <1>1, <1>2, <1>3 DEF PrepareRestore
<1>4. CASE ~(Pro \/ fs = {})
  <2>1. PICK f \in fs : /\ fs = {f} /\ s = [s0 EXCEPT !.folder = f]
                        /\ s0.folder # None => s0.folder = f
    BY <1>4 DEF PrepareRestore
  <2>2. s \in Selections /\ s.initialized /\ s.periodEnd = paidUntil /\ s.folder = f
    BY <1>1, <1>4, <2>1 DEF Selections, Trashed
  <2>3. \A g \in opened : folder[g].state = "row" => s.folder = g
    BY <1>1, <1>2, <2>1, <2>2, WorkspaceAssumption DEF Settled, TypeOK
  <2> QED
    BY <1>2, <1>4, <2>1, <2>2, <2>3 DEF Settled
<1> QED
  BY <1>3, <1>4

\* What is restored is locked, exists, and is the free user's choice.
LEMMA BeginRestoreStep ==
  ASSUME IInv, NEW w \in Workers, NEW fs \in SUBSET Folders, NEW cs \in SUBSET Clips,
         BeginRestore(w, fs, cs)
  PROVE  IInv'
<1> DEFINE rf == [f \in fs |-> Row(None)]
           rc == [c \in cs |-> ClipRow(clip[c].folder, None)]
           op == fs \cup FoldersOf(cs)
           Allowed(s) == /\ fs \subseteq Trashed /\ cs \subseteq TrashedClips
                         /\ FoldersOf(cs) \subseteq Active \cup fs
                         /\ \A f \in FoldersOf(cs) : CanOpen(s, f)
                         /\ Begin(w, s, rf, rc, op, cs, Opens(op))
<1>0. PICK s0 \in Resolve : \E s \in PrepareRestore(s0, fs) : Allowed(s)
  BY DEF BeginRestore, Restorations
<1>1. PICK s \in PrepareRestore(s0, fs) : Allowed(s)
  BY <1>0
<1> DEFINE j == [step |-> "open", pro |-> Pro, selection |-> s, folders |-> rf,
                 clips |-> rc, lockedFolders |-> op, lockedClips |-> cs, opens |-> Opens(op)]
<1>2. TypeOK /\ s \in Selections /\ Settled(s, opened, folder)
      /\ (~Pro => s.initialized /\ s.periodEnd = paidUntil)
      /\ (~Pro => \A f \in fs : s.folder = f)
  BY <1>1, PrepareSettled DEF IInv
<1>3. op \subseteq Folders /\ Opens(op) \in SUBSET Folders
  BY <1>1 DEF Active, Opens
<1>4. rf \in Writes(Folders, FolderStates) /\ DOMAIN rf = fs /\ \A f \in fs : rf[f].state = "row"
  <2>1. rf \in [fs -> FolderStates]
    BY DEF Row, FolderStates
  <2> QED
    BY <2>1, WritesOf DEF Row
<1>5. rc \in Writes(Clips, ClipStates) /\ DOMAIN rc = cs /\ \A c \in cs : rc[c].state = "row"
  <2>1. rc \in [cs -> ClipStates]
    BY <1>2 DEF ClipRow, ClipStates, TypeOK
  <2> QED
    BY <2>1, WritesOf DEF ClipRow
<1>6. Settled(s, opened \cup Opens(op), Overlay(rf, folder))
  <2>1. Settled(s, opened, Overlay(rf, folder))
    BY <1>1, <1>2, <1>4, OverlaySettled DEF Trashed
  <2>2. ASSUME NEW f \in Opens(op)
        PROVE  s.initialized /\ s.periodEnd = paidUntil /\ s.folder = f
    <3>1. ~Pro /\ f \in op /\ f \in Folders /\ f # None
      BY <1>3, WorkspaceAssumption DEF Opens
    <3>2. CASE f \in fs
      BY <3>1, <3>2, <1>2
    <3>3. CASE f \in FoldersOf(cs)
      BY <3>1, <3>3, <1>1, <1>2 DEF CanOpen, Accessible
    <3> QED
      BY <3>1, <3>2, <3>3
  <2>3. ASSUME NEW f \in Opens(op)
        PROVE  Overlay(rf, folder)[f].state # "new"
    <3>1. f \in op /\ f \in Folders
      BY <1>3 DEF Opens
    <3>2. Overlay(rf, folder)[f] = IF f \in fs THEN rf[f] ELSE folder[f]
      BY <1>2, <1>4, <3>1 DEF Overlay, TypeOK
    <3> QED
      BY <1>1, <1>4, <3>1, <3>2 DEF Active
  <2> QED
    BY <2>1, <2>2, <2>3 DEF Settled
<1>7. Held(j)
  BY <1>1, <1>2, <1>4, <1>5, <1>6 DEF Held, Opens, Trashed, TrashedClips
<1> QED
  BY <1>1, <1>2, <1>3, <1>4, <1>5, <1>7, BeginStep

\* A transaction may destroy locked rows that are in the trash.
LEMMA DestroyLocked ==
  ASSUME IInv, NEW w \in Workers, NEW goneF \in SUBSET Trashed, NEW goneC \in SUBSET Clips,
         NEW lf \in SUBSET Folders, goneF \subseteq lf,
         \A c \in goneC : /\ clip[c].state = "row"
                          /\ c \in TrashedClips \/ clip[c].folder \in goneF,
         Begin(w, selection, [f \in goneF |-> [state |-> "gone", deletedAt |-> None]],
               [c \in goneC |-> [state |-> "gone", folder |-> None, deletedAt |-> None]],
               lf, goneC, {})
  PROVE  IInv'
<1> DEFINE rf == [f \in goneF |-> [state |-> "gone", deletedAt |-> None]]
           rc == [c \in goneC |-> [state |-> "gone", folder |-> None, deletedAt |-> None]]
           j == [step |-> "open", pro |-> Pro, selection |-> selection, folders |-> rf,
                 clips |-> rc, lockedFolders |-> lf, lockedClips |-> goneC, opens |-> {}]
<1>0. \A c \in goneC : /\ clip[c].state = "row"
                       /\ c \in TrashedClips \/ clip[c].folder \in goneF
  OBVIOUS
<1>1. TypeOK /\ selection \in Selections /\ Settled(selection, opened, folder)
      /\ goneF \in SUBSET Folders /\ \A f \in goneF : folder[f].state = "row"
  BY DEF IInv, TypeOK, Trashed
<1>2. rf \in Writes(Folders, FolderStates) /\ DOMAIN rf = goneF
      /\ \A f \in goneF : rf[f].state = "gone"
  <2>1. rf \in [goneF -> FolderStates]
    BY DEF FolderStates
  <2> QED
    BY <2>1, <1>1, WritesOf
<1>3. rc \in Writes(Clips, ClipStates) /\ DOMAIN rc = goneC
  <2>1. rc \in [goneC -> ClipStates]
    BY DEF ClipStates
  <2> QED
    BY <2>1, WritesOf
<1>4. Settled(selection, opened \cup {}, Overlay(rf, folder))
  <2>1. Settled(selection, opened, Overlay(rf, folder))
    BY <1>1, <1>2, OverlaySettled
  <2> QED
    BY <2>1 DEF Settled
<1>5. Held(j)
  <2>1. \A f \in DOMAIN j.folders :
          /\ j.folders[f].state # "new" /\ folder[f].state # "gone"
          /\ f \in j.lockedFolders /\ f \in Trashed
    BY <1>1, <1>2
  <2>2. DOMAIN j.clips = goneC /\ j.lockedClips = goneC /\ j.lockedFolders = lf
    BY <1>3
  <2>3. \A c \in goneC : /\ clip[c].state # "gone"
                         /\ c \in TrashedClips \/ clip[c].folder \in Trashed \cap lf
    BY <1>0
  <2>4. j.opens = {} /\ j.selection \in Selections
        /\ Settled(j.selection, opened \cup j.opens, Overlay(j.folders, folder))
    BY <1>1, <1>4
  <2> QED
    BY <2>1, <2>2, <2>3, <2>4 DEF Held
<1> QED
  BY <1>1, <1>2, <1>3, <1>5, BeginStep

\* What deleteOwnedItems will destroy is in the trash and locked.
LEMMA DestroyStep ==
  ASSUME IInv, NEW w \in Workers, NEW fs \in SUBSET Folders, NEW cs \in SUBSET Clips,
         Destroy(w, fs, cs)
  PROVE  IInv'
<1> DEFINE goneF == fs \cap Trashed
           goneC == (cs \cap TrashedClips) \cup UNION {ClipsOf(f) : f \in goneF}
           lf == (fs \cup FoldersOf(cs)) \cap (Active \cup Trashed)
<1>1. Begin(w, selection, [f \in goneF |-> [state |-> "gone", deletedAt |-> None]],
            [c \in goneC |-> [state |-> "gone", folder |-> None, deletedAt |-> None]],
            lf, goneC, {})
  BY DEF Destroy
<1>2. goneC \in SUBSET Clips /\ goneF \in SUBSET Trashed /\ lf \in SUBSET Folders
      /\ goneF \subseteq lf
  BY DEF ClipsOf, Active, Trashed
<1>3. \A c \in goneC : /\ clip[c].state = "row"
                       /\ c \in TrashedClips \/ clip[c].folder \in goneF
  BY DEF ClipsOf, TrashedClips
<1> HIDE DEF goneF, goneC, lf
<1> QED
  BY <1>1, <1>2, <1>3, DestroyLocked

\* Destroying what was checked before the transaction keeps the invariant.
LEMMA BeginDestroyStep ==
  ASSUME IInv, NEW w \in Workers, BeginDestroy(w)
  PROVE  IInv'
<1>1. job[w].lockedFolders \in SUBSET Folders /\ job[w].lockedClips \in SUBSET Clips
  BY DEF IInv, TypeOK, Jobs
<1> QED
  BY <1>1, DestroyStep DEF BeginDestroy

\* Emptying the trash keeps the invariant.
LEMMA BeginEmptyTrashStep ==
  ASSUME IInv, NEW w \in Workers, BeginEmptyTrash(w)
  PROVE  IInv'
<1>1. Trashed \in SUBSET Folders
      /\ {c \in TrashedClips : clip[c].folder \in Active} \in SUBSET Clips
  BY DEF Trashed, TrashedClips
<1> QED
  BY <1>1, DestroyStep DEF BeginEmptyTrash

----------------------------------------------------------------------------
\* The end of a transaction, and the steps outside of transactions.

\* A worker that holds no transaction afterwards disturbs nothing.
LEMMA QuietStep ==
  ASSUME IInv, NEW w \in Workers, NEW j \in Jobs, j.step # "open",
         job' = [job EXCEPT ![w] = j],
         UNCHANGED <<now, paidUntil, selection, folder, clip, purge, opened>>
  PROVE  IInv'
<1>1. job \in [Workers -> Jobs]
  BY DEF IInv, TypeOK
<1>2. TypeOK'
  BY <1>1 DEF IInv, TypeOK
<1>3. ASSUME NEW v \in Workers, job'[v].step = "open" PROVE Held(job[v])'
  <2>1. v # w /\ job'[v] = job[v] /\ Held(job[v])
    BY <1>1, <1>3 DEF IInv
  <2> QED
    BY <2>1 DEF Held, Settled, Pro, Trashed, TrashedClips, Overlay
<1> QED
  BY <1>2, <1>3 DEF IInv, Settled, Pro

\* Checking a request before its transaction keeps the invariant.
LEMMA CheckDestroyStep ==
  ASSUME IInv, NEW w \in Workers, NEW fs \in SUBSET Folders, NEW cs \in SUBSET Clips,
         CheckDestroy(w, fs, cs)
  PROVE  IInv'
<1> DEFINE j == [Idle EXCEPT !.step = "checked", !.lockedFolders = fs,
                   !.lockedClips = {c \in cs : clip[c].folder \notin fs}]
<1>1. j \in Jobs /\ j.step # "open"
  BY IdleTyped DEF Jobs
<1> QED
  BY <1>1, QuietStep DEF CheckDestroy

\* A transaction that is rolled back leaves nothing behind.
LEMMA RollbackStep ==
  ASSUME IInv, NEW w \in Workers, Rollback(w)
  PROVE  IInv'
BY IdleTyped, QuietStep DEF Rollback

\* What the transaction held becomes the state of the workspace.
LEMMA CommitStep ==
  ASSUME IInv, NEW w \in Workers, Commit(w)
  PROVE  IInv'
<1>1. /\ Held(job[w]) /\ job[w] \in Jobs /\ TypeOK
      /\ \A v \in Workers \ {w} : job[v].step # "open"
  BY DEF IInv, TypeOK, Commit
<1>2. /\ selection' = job[w].selection /\ opened' = opened \cup job[w].opens
      /\ folder' = Overlay(job[w].folders, folder) /\ clip' = Overlay(job[w].clips, clip)
      /\ job' = [job EXCEPT ![w] = Idle]
      /\ UNCHANGED <<now, paidUntil, purge>>
  BY DEF Commit
<1>3. folder' \in [Folders -> FolderStates] /\ clip' \in [Clips -> ClipStates]
  BY <1>1, <1>2, OverlayTyped DEF Jobs, TypeOK
<1>4. job' \in [Workers -> Jobs] /\ \A v \in Workers : job'[v].step # "open"
  BY <1>1, <1>2, IdleTyped DEF TypeOK
<1>5. selection' \in Selections /\ opened' \subseteq Folders
  BY <1>1, <1>2 DEF Held, Jobs, TypeOK
<1>6. TypeOK'
  BY <1>1, <1>2, <1>3, <1>4, <1>5 DEF TypeOK
<1>7. Settled(selection, opened, folder)'
  BY <1>1, <1>2 DEF Held, Settled
<1>8. (opened # {} => ~Pro)'
  BY <1>1, <1>2 DEF Held, IInv, Pro
<1> QED
  BY <1>2, <1>4, <1>6, <1>7, <1>8 DEF IInv

\* Time only ends the paid period.
LEMMA TickStep ==
  ASSUME IInv, Tick
  PROVE  IInv'
<1>1. now \in Int /\ now' = now + 1 /\ now' \in Times /\ paidUntil' = paidUntil
      /\ UNCHANGED <<selection, folder, clip, job, purge, opened>>
  BY WorkspaceAssumption DEF IInv, TypeOK, Tick, Times
<1>2. ~Pro => ~Pro'
  BY <1>1 DEF Pro, IInv, TypeOK
<1>3. TypeOK'
  BY <1>1 DEF IInv, TypeOK
<1>4. ASSUME NEW v \in Workers, job'[v].step = "open" PROVE Held(job[v])'
  <2>1. job'[v] = job[v] /\ Held(job[v])
    BY <1>1, <1>4 DEF IInv
  <2> QED
    BY <1>1, <1>2, <2>1 DEF Held, Settled, Trashed, TrashedClips, Overlay
<1>5. (purge.step \in {"folders", "next", "clips"} => purge.cutoff <= now - Retention)'
  BY <1>1, WorkspaceAssumption DEF IInv, TypeOK, Purges
<1> QED
  BY <1>1, <1>2, <1>3, <1>4, <1>5 DEF IInv, Settled

\* A payment ends the free period, when no transaction is open.
LEMMA PayStep ==
  ASSUME IInv, Pay
  PROVE  IInv'
<1>1. /\ paidUntil' \in 1..(MaxNow + 1) /\ opened' = {}
      /\ UNCHANGED <<now, selection, folder, clip, job, purge>>
      /\ \A w \in Workers : job[w].step # "open"
  BY DEF Pay, SubscriptionFree
<1>2. TypeOK'
  BY <1>1 DEF IInv, TypeOK
<1> QED
  BY <1>1, <1>2 DEF IInv, Settled

----------------------------------------------------------------------------
\* The purge.

\* The purge may destroy rows that no open transaction has locked.
LEMMA PurgeStep ==
  ASSUME IInv, NEW goneF \in SUBSET Trashed, NEW goneC \in SUBSET Clips,
         \A c \in goneC : clip[c].state = "row",
         NEW F, NEW C, goneF \subseteq F, goneC \subseteq C, Unlocked(F, C),
         folder' = Overlay([f \in goneF |-> [state |-> "gone", deletedAt |-> None]], folder),
         clip' = Overlay([c \in goneC |-> [state |-> "gone", folder |-> None,
                                           deletedAt |-> None]], clip),
         purge' \in Purges, purge'.step \in {"folders", "next", "clips"} => purge'.cutoff <= now - Retention,
         UNCHANGED <<now, paidUntil, selection, job, opened>>
  PROVE  IInv'
<1>1. /\ folder \in [Folders -> FolderStates] /\ clip \in [Clips -> ClipStates]
      /\ goneF \subseteq Folders /\ opened \subseteq Folders
  BY DEF IInv, TypeOK, Trashed
<1>2. /\ \A f \in Folders : folder'[f] = IF f \in goneF
                              THEN [state |-> "gone", deletedAt |-> None] ELSE folder[f]
      /\ \A c \in Clips : clip'[c] = IF c \in goneC
           THEN [state |-> "gone", folder |-> None, deletedAt |-> None] ELSE clip[c]
  BY <1>1 DEF Overlay
<1>3. folder' \in [Folders -> FolderStates] /\ clip' \in [Clips -> ClipStates]
  <2>1. /\ [f \in goneF |-> [state |-> "gone", deletedAt |-> None]] \in Writes(Folders, FolderStates)
        /\ [c \in goneC |-> [state |-> "gone", folder |-> None, deletedAt |-> None]]
             \in Writes(Clips, ClipStates)
    <3>1. [f \in goneF |-> [state |-> "gone", deletedAt |-> None]] \in [goneF -> FolderStates]
      BY DEF FolderStates
    <3>2. [c \in goneC |-> [state |-> "gone", folder |-> None, deletedAt |-> None]]
             \in [goneC -> ClipStates]
      BY DEF ClipStates
    <3> QED
      BY <3>1, <3>2, <1>1, WritesOf
  <2> QED
    BY <2>1, <1>1, OverlayTyped
<1>4. TypeOK'
  BY <1>3 DEF IInv, TypeOK
<1>5. Settled(selection, opened, folder)'
  BY <1>1, <1>2 DEF IInv, Settled
<1>6. ASSUME NEW v \in Workers, job'[v].step = "open" PROVE Held(job[v])'
  <2> DEFINE j == job[v]
  <2>1. job'[v] = j /\ j.step = "open" /\ Held(j) /\ j \in Jobs
    BY <1>6 DEF IInv, TypeOK
  <2>2. /\ DOMAIN j.folders \subseteq Folders /\ DOMAIN j.clips \subseteq Clips
        /\ j.opens \subseteq Folders
    BY <2>1, WritesTyped DEF Jobs
  <2>3. j.lockedFolders \cap goneF = {} /\ j.lockedClips \cap goneC = {}
    BY <2>1 DEF Unlocked
  <2>4. \A f \in DOMAIN j.folders : f \notin goneF /\ folder'[f] = folder[f]
    BY <1>2, <2>1, <2>2, <2>3 DEF Held, Trashed
  <2>5. \A c \in DOMAIN j.clips : c \notin goneC /\ clip'[c] = clip[c]
    BY <1>2, <2>1, <2>2, <2>3 DEF Held
  <2>6. \A f \in Folders : f \notin goneF => (f \in Trashed <=> f \in Trashed')
    BY <1>2 DEF Trashed
  <2>7. \A c \in Clips : c \notin goneC => (c \in TrashedClips <=> c \in TrashedClips')
    BY <1>2 DEF TrashedClips
  <2>8. Settled(j.selection, opened \cup j.opens, Overlay(j.folders, folder))'
    <3>1. Settled(j.selection, opened \cup j.opens, Overlay(j.folders, folder))
      BY <2>1 DEF Held
    <3>2. \A f \in Folders :
            \/ Overlay(j.folders, folder')[f] = Overlay(j.folders, folder)[f]
            \/ Overlay(j.folders, folder')[f].state = "gone"
      BY <1>1, <1>2, <1>3 DEF Overlay
    <3> QED
      BY <3>1, <3>2, <2>1, <2>2, <1>1 DEF Settled
  <2>9. \A f \in DOMAIN j.folders :
          /\ j.folders[f].state # "new" /\ folder'[f].state # "gone"
          /\ folder'[f].state = "row" => f \in j.lockedFolders
          /\ j.folders[f].state = "gone" => f \in Trashed'
    BY <2>1, <2>2, <2>4, <2>6 DEF Held
  <2>10. \A c \in DOMAIN j.clips :
          /\ clip'[c].state # "gone"
          /\ clip'[c].state = "row" => c \in j.lockedClips
          /\ j.clips[c].state = "gone" =>
               c \in TrashedClips' \/ clip'[c].folder \in Trashed' \cap j.lockedFolders
    <3> SUFFICES ASSUME NEW c \in DOMAIN j.clips, j.clips[c].state = "gone"
                 PROVE  c \in TrashedClips' \/ clip'[c].folder \in Trashed' \cap j.lockedFolders
      BY <2>1, <2>5 DEF Held
    <3>1. CASE c \in TrashedClips
      BY <3>1, <2>2, <2>5, <2>7
    <3>2. CASE clip[c].folder \in Trashed \cap j.lockedFolders
      <4>1. clip[c].folder \in Folders /\ clip[c].folder \notin goneF
        BY <3>2, <2>3 DEF Trashed
      <4> QED
        BY <4>1, <3>2, <2>5, <2>6
    <3> QED
      BY <3>1, <3>2, <2>1 DEF Held
  <2> QED
    BY <2>1, <2>8, <2>9, <2>10 DEF Held, Pro
<1> QED
  BY <1>4, <1>5, <1>6 DEF IInv, Pro

\* A step of the purge that changes no row.
LEMMA PurgeQuietStep ==
  ASSUME IInv, purge' \in Purges,
         purge'.step \in {"folders", "next", "clips"} => purge'.cutoff <= now - Retention,
         UNCHANGED <<now, paidUntil, selection, folder, clip, job, opened>>
  PROVE  IInv'
<1>1. TypeOK'
  BY DEF IInv, TypeOK
<1>2. ASSUME NEW v \in Workers, job'[v].step = "open" PROVE Held(job[v])'
  <2>1. job'[v] = job[v] /\ Held(job[v])
    BY <1>2 DEF IInv
  <2> QED
    BY <2>1 DEF Held, Settled, Pro, Trashed, TrashedClips, Overlay
<1> QED
  BY <1>1, <1>2 DEF IInv, Settled, Pro

\* The candidates of a scan are rows of their table.
LEMMA ScanFoldersStep ==
  ASSUME IInv, ScanFolders
  PROVE  IInv'
<1>1. PICK fs \in SUBSET Folders :
        purge' = [step |-> "folders", cutoff |-> now - Retention, folders |-> fs,
                  clips |-> {}, left |-> PurgeLimit]
  BY DEF ScanFolders, Oldest, ExpiredFolders, Trashed
<1>2. now \in Int /\ Retention \in Int /\ PurgeLimit \in Nat
  BY WorkspaceAssumption DEF IInv, TypeOK, Times
<1>3. purge' \in Purges /\ purge'.cutoff = now - Retention
  BY <1>1, <1>2 DEF Purges
<1>4. UNCHANGED <<now, paidUntil, selection, folder, clip, job, opened>>
  BY DEF ScanFolders
<1> QED
  BY <1>2, <1>3, <1>4, PurgeQuietStep

\* The clips found belong to folders of the workspace.
LEMMA ScanClipsStep ==
  ASSUME IInv, ScanClips
  PROVE  IInv'
<1>1. PICK cs \in SUBSET ExpiredClips(purge.cutoff) :
        purge' = [purge EXCEPT !.step = "clips", !.clips = cs, !.folders = FoldersOf(cs)]
  BY DEF ScanClips, Oldest
<1>2. cs \subseteq Clips /\ FoldersOf(cs) \subseteq Folders
  BY <1>1 DEF ExpiredClips, TrashedClips, Active, FoldersOf
<1>3. purge \in Purges /\ purge.step \in {"folders", "next", "clips"} /\ purge.cutoff <= now - Retention
  BY DEF ScanClips, IInv, TypeOK
<1>4. purge' \in Purges /\ purge'.cutoff = purge.cutoff
  BY <1>1, <1>2, <1>3 DEF Purges
<1>5. UNCHANGED <<now, paidUntil, selection, folder, clip, job, opened>>
  BY DEF ScanClips
<1> QED
  BY <1>3, <1>4, <1>5, PurgeQuietStep

\* A failed run leaves nothing to do.
LEMMA PurgeFailsStep ==
  ASSUME IInv, PurgeFails
  PROVE  IInv'
<1>1. FailedPurge \in Purges /\ FailedPurge.step = "failed"
  BY DEF FailedPurge, NoPurge, Purges
<1> QED
  BY <1>1, PurgeQuietStep DEF PurgeFails

\* The purge destroys folders that are still expired, with all their clips.
LEMMA DestroyFoldersStep ==
  ASSUME IInv, DestroyFolders
  PROVE  IInv'
<1> DEFINE goneF == StillExpired(purge.folders)
           goneC == UNION {ClipsOf(f) : f \in goneF}
           left  == purge.left - Cardinality(goneF)
<1>1. /\ purge.step = "folders" /\ Unlocked(purge.folders, goneC)
      /\ folder' = Overlay([f \in goneF |-> [state |-> "gone", deletedAt |-> None]], folder)
      /\ clip' = Overlay([c \in goneC |-> [state |-> "gone", folder |-> None,
                                            deletedAt |-> None]], clip)
      /\ purge' = IF left > 0 THEN [purge EXCEPT !.step = "next", !.folders = {}, !.left = left]
                  ELSE NoPurge
      /\ UNCHANGED <<now, paidUntil, selection, job, opened>>
  BY DEF DestroyFolders
<1>2. /\ goneF \in SUBSET Trashed /\ goneF \subseteq purge.folders /\ goneF \subseteq Folders
      /\ goneC \in SUBSET Clips /\ \A c \in goneC : clip[c].state = "row"
  BY DEF StillExpired, ExpiredFolders, Trashed, ClipsOf
<1>3. Cardinality(goneF) \in Nat
  <2>1. IsFiniteSet(goneF)
    BY <1>2, WorkspaceAssumption, FS_Subset
  <2> QED
    BY <2>1, FS_CardinalityType
<1>4. purge \in Purges /\ purge.cutoff <= now - Retention
  BY <1>1 DEF IInv, TypeOK
<1> HIDE DEF goneF, goneC
<1>5. purge' \in Purges /\ (purge'.step \in {"folders", "next", "clips"} => purge'.cutoff <= now - Retention)
  <2>1. CASE left > 0
    <3>1. left \in Nat
      BY <2>1, <1>3, <1>4 DEF Purges
    <3> HIDE DEF left
    <3> QED
      BY <2>1, <3>1, <1>1, <1>4 DEF Purges
  <2>2. CASE ~(left > 0)
    BY <2>2, <1>1, IdleTyped
  <2> QED
    BY <2>1, <2>2
<1>6. UNCHANGED <<now, paidUntil, selection, job, opened>>
  BY <1>1
<1> QED
  BY <1>1, <1>2, <1>4, <1>5, <1>6, PurgeStep

\* The purge destroys clips that are still expired.
LEMMA DestroyClipsStep ==
  ASSUME IInv, DestroyClips
  PROVE  IInv'
<1> DEFINE goneC == purge.clips \cap ExpiredClips(purge.cutoff)
<1>1. /\ Unlocked(purge.folders, purge.clips)
      /\ clip' = Overlay([c \in goneC |-> [state |-> "gone", folder |-> None,
                                            deletedAt |-> None]], clip)
      /\ purge' = NoPurge
      /\ UNCHANGED <<now, paidUntil, selection, folder, job, opened>>
  BY DEF DestroyClips
<1>2. /\ goneC \in SUBSET Clips /\ goneC \subseteq purge.clips
      /\ \A c \in goneC : clip[c].state = "row"
  BY DEF ExpiredClips, TrashedClips
<1>3. folder' = Overlay([f \in {} |-> [state |-> "gone", deletedAt |-> None]], folder)
  BY <1>1 DEF Overlay, IInv, TypeOK
<1>4. purge' \in Purges /\ purge'.step = "idle"
  BY <1>1, IdleTyped DEF IInv, TypeOK
<1>5. {} \in SUBSET Trashed /\ {} \subseteq purge.folders
  OBVIOUS
<1> HIDE DEF goneC
<1> QED
  BY <1>1, <1>2, <1>3, <1>4, <1>5, PurgeStep

----------------------------------------------------------------------------
\* The invariant, and what follows from it.

\* A workspace starts without folders.
LEMMA InitInv == Init => IInv
<1> SUFFICES ASSUME Init PROVE IInv
  OBVIOUS
<1>1. TypeOK
  BY WorkspaceAssumption, IdleTyped
     DEF Init, TypeOK, Times, Selections, FolderStates, ClipStates
<1> QED
  BY <1>1, IdleTyped DEF Init, IInv, Settled

\* Every step keeps the inductive invariant.
LEMMA StepInv == IInv /\ [Next]_vars => IInv'
<1> SUFFICES ASSUME IInv, [Next]_vars PROVE IInv'
  OBVIOUS
<1>1. ASSUME NEW w \in Workers, Request(w) PROVE IInv'
  BY <1>1, BeginReadStep, BeginUseStep, BeginCreateFolderStep, BeginTrashFolderStep,
     BeginCreateClipStep, BeginTrashClipsStep, BeginRestoreStep, CheckDestroyStep,
     BeginDestroyStep, BeginEmptyTrashStep DEF Request
<1>2. ASSUME NEW w \in Workers, Ends(w) PROVE IInv'
  BY <1>2, CommitStep, RollbackStep DEF Ends
<1>3. CASE ScanFolders \/ DestroyFolders \/ ScanClips \/ DestroyClips \/ PurgeFails
  BY <1>3, ScanFoldersStep, DestroyFoldersStep, ScanClipsStep, DestroyClipsStep, PurgeFailsStep
<1>4. CASE Tick \/ Pay
  BY <1>4, TickStep, PayStep
<1>5. CASE UNCHANGED vars
  <2>1. /\ purge' \in Purges /\ (purge'.step \in {"folders", "next", "clips"} => purge'.cutoff <= now - Retention)
        /\ UNCHANGED <<now, paidUntil, selection, folder, clip, job, opened>>
    BY <1>5 DEF vars, IInv, TypeOK
  <2> QED
    BY <2>1, PurgeQuietStep
<1> QED
  BY <1>1, <1>2, <1>3, <1>4, <1>5 DEF Next

\* The inductive invariant holds in every reachable state.
THEOREM Invariance == Spec => []IInv
BY InitInv, StepInv, PTL DEF Spec

\* Every variable keeps its type, and at most one transaction holds the subscription row.
THEOREM TypeCorrect == Spec => []TypeOK
<1>1. IInv => TypeOK
  BY DEF IInv
<1> QED
  BY <1>1, Invariance, PTL

\* However requests, payments and the purge interleave, a free user gets at the
\* contents of one folder per period: every opened folder that exists is the chosen one.
THEOREM OneFolderAlways == Spec => []OneFolderPerFreePeriod
<1>1. IInv => OneFolderPerFreePeriod
  BY DEF IInv, Settled, OneFolderPerFreePeriod
<1> QED
  BY <1>1, Invariance, PTL

\* A transaction writes rows it locked and read, so what it destroys is still in the
\* trash when it commits, and nothing destroyed comes back.
LEMMA CommitDestroysTrash ==
  ASSUME IInv, NEW w \in Workers, Commit(w)
  PROVE  /\ \A f \in Folders :
               /\ folder[f].state = "row" /\ folder'[f].state = "gone" => f \in Trashed
               /\ folder[f].state = "gone" => folder'[f].state = "gone"
         /\ \A c \in Clips :
               /\ clip[c].state = "row" /\ clip'[c].state = "gone"
                  => c \in TrashedClips \/ clip[c].folder \in Trashed
               /\ clip[c].state = "gone" => clip'[c].state = "gone"
<1>1. Held(job[w]) /\ folder \in [Folders -> FolderStates] /\ clip \in [Clips -> ClipStates]
  BY DEF IInv, TypeOK, Commit
<1>2. /\ \A f \in Folders : folder'[f] = IF f \in DOMAIN job[w].folders
                                           THEN job[w].folders[f] ELSE folder[f]
      /\ \A c \in Clips : clip'[c] = IF c \in DOMAIN job[w].clips
                                       THEN job[w].clips[c] ELSE clip[c]
  BY <1>1 DEF Commit, Overlay
<1>3. \A f \in Folders :
        /\ folder[f].state = "row" /\ folder'[f].state = "gone" => f \in Trashed
        /\ folder[f].state = "gone" => folder'[f].state = "gone"
  <2>1. \A f \in DOMAIN job[w].folders :
          folder[f].state # "gone" /\ (job[w].folders[f].state = "gone" => f \in Trashed)
    BY <1>1 DEF Held
  <2> QED
    BY <1>2, <2>1
<1>4. \A c \in Clips :
        /\ clip[c].state = "row" /\ clip'[c].state = "gone"
           => c \in TrashedClips \/ clip[c].folder \in Trashed
        /\ clip[c].state = "gone" => clip'[c].state = "gone"
  <2>1. \A c \in DOMAIN job[w].clips :
          /\ clip[c].state # "gone"
          /\ job[w].clips[c].state = "gone" => c \in TrashedClips \/ clip[c].folder \in Trashed
    BY <1>1 DEF Held
  <2> QED
    BY <1>2, <2>1
<1> QED
  BY <1>3, <1>4

\* What the purge does to the rows: those that go are expired, or clips of folders that are.
LEMMA PurgeDestroys ==
  ASSUME IInv, DestroyFolders \/ DestroyClips
  PROVE  /\ \A f \in Folders : folder'[f] # folder[f] =>
              f \in ExpiredFolders(purge.cutoff) /\ folder'[f].state = "gone"
         /\ \A c \in Clips : clip'[c] # clip[c] =>
              /\ clip[c].state = "row" /\ clip'[c].state = "gone"
              /\ c \in ExpiredClips(purge.cutoff) \/ clip[c].folder \in ExpiredFolders(purge.cutoff)
<1>1. folder \in [Folders -> FolderStates] /\ clip \in [Clips -> ClipStates]
  BY DEF IInv, TypeOK
<1>2. CASE DestroyFolders
  <2> DEFINE goneF == StillExpired(purge.folders)
             goneC == UNION {ClipsOf(f) : f \in goneF}
  <2>1. /\ folder' = Overlay([f \in goneF |-> [state |-> "gone", deletedAt |-> None]], folder)
        /\ clip' = Overlay([c \in goneC |-> [state |-> "gone", folder |-> None,
                                              deletedAt |-> None]], clip)
    BY <1>2 DEF DestroyFolders
  <2>2. /\ goneF \subseteq ExpiredFolders(purge.cutoff)
        /\ \A c \in goneC : clip[c].state = "row" /\ clip[c].folder \in goneF
    BY DEF StillExpired, ClipsOf
  <2> HIDE DEF goneF, goneC
  <2>3. /\ \A f \in Folders : folder'[f] = IF f \in goneF
                                THEN [state |-> "gone", deletedAt |-> None] ELSE folder[f]
        /\ \A c \in Clips : clip'[c] = IF c \in goneC
             THEN [state |-> "gone", folder |-> None, deletedAt |-> None] ELSE clip[c]
    BY <1>1, <2>1 DEF Overlay
  <2>4. \A f \in Folders : folder'[f] # folder[f] =>
              f \in ExpiredFolders(purge.cutoff) /\ folder'[f].state = "gone"
    BY <2>2, <2>3
  <2>5. \A c \in Clips : clip'[c] # clip[c] =>
          /\ clip[c].state = "row" /\ clip'[c].state = "gone"
          /\ clip[c].folder \in ExpiredFolders(purge.cutoff)
    BY <2>2, <2>3
  <2> QED
    BY <2>4, <2>5
<1>3. CASE DestroyClips
  <2> DEFINE goneC == purge.clips \cap ExpiredClips(purge.cutoff)
  <2>1. /\ folder' = folder
        /\ clip' = Overlay([c \in goneC |-> [state |-> "gone", folder |-> None,
                                              deletedAt |-> None]], clip)
    BY <1>3 DEF DestroyClips
  <2>2. \A c \in goneC : c \in ExpiredClips(purge.cutoff) /\ clip[c].state = "row"
    BY DEF ExpiredClips, TrashedClips
  <2> HIDE DEF goneC
  <2>3. \A c \in Clips : clip'[c] = IF c \in goneC
             THEN [state |-> "gone", folder |-> None, deletedAt |-> None] ELSE clip[c]
    BY <1>1, <2>1 DEF Overlay
  <2> QED
    BY <2>1, <2>2, <2>3
<1> QED
  BY <1>2, <1>3

\* The steps that change folders and clips.
LEMMA OtherStepsKeepRows ==
  ASSUME [Next]_vars
  PROVE  \/ \E w \in Workers : Commit(w)
         \/ DestroyFolders \/ DestroyClips
         \/ UNCHANGED <<folder, clip>>
<1>1. ASSUME NEW w \in Workers, Request(w) PROVE UNCHANGED <<folder, clip>>
  BY <1>1 DEF Request, BeginRead, BeginUse, BeginCreateFolder, BeginTrashFolder,
     BeginCreateClip, BeginTrashClips, BeginRestore, CheckDestroy, BeginDestroy,
     BeginEmptyTrash, Destroy, Begin
<1>2. ASSUME NEW w \in Workers, Rollback(w) PROVE UNCHANGED <<folder, clip>>
  BY <1>2 DEF Rollback
<1>3. CASE ScanFolders \/ ScanClips \/ PurgeFails \/ Tick \/ Pay \/ UNCHANGED vars
  BY <1>3 DEF ScanFolders, ScanClips, PurgeFails, Tick, Pay, vars
<1> QED
  BY <1>1, <1>2, <1>3 DEF Next, Ends

\* Neither a transaction nor the purge destroys what is not in the trash at that
\* moment, whatever was restored since it was requested or found.
THEOREM OnlyTrashDestroyedAlways == Spec => OnlyTrashDestroyed
<1> DEFINE Safe == /\ \A f \in Folders :
                        /\ folder[f].state = "row" /\ folder'[f].state = "gone" => f \in Trashed
                        /\ folder[f].state = "gone" => folder'[f].state = "gone"
                   /\ \A c \in Clips :
                        /\ clip[c].state = "row" /\ clip'[c].state = "gone"
                           => c \in TrashedClips \/ clip[c].folder \in Trashed
                        /\ clip[c].state = "gone" => clip'[c].state = "gone"
<1>1. IInv /\ [Next]_vars => [Safe]_vars
  <2> SUFFICES ASSUME IInv, [Next]_vars PROVE Safe
    OBVIOUS
  <2>1. ASSUME NEW w \in Workers, Commit(w) PROVE Safe
    BY <2>1, CommitDestroysTrash
  <2>2. CASE DestroyFolders \/ DestroyClips
    BY <2>2, PurgeDestroys DEF ExpiredFolders, ExpiredClips, Trashed
  <2>3. CASE UNCHANGED <<folder, clip>>
    BY <2>3
  <2> QED
    BY <2>1, <2>2, <2>3, OtherStepsKeepRows
<1>2. Spec => [][Safe]_vars
  BY <1>1, Invariance, PTL DEF Spec
<1> QED
  BY <1>2 DEF OnlyTrashDestroyed

\* What the purge destroys has been in the trash for the whole retention, since it
\* looks again at rows it has locked, and its cutoff only falls behind the clock.
THEOREM PurgeKeepsRetentionAlways == Spec => PurgeKeepsRetention
<1> DEFINE Kept == purge' # purge =>
                     /\ \A f \in Folders : folder'[f] # folder[f] => Overdue(folder[f])
                     /\ \A c \in Clips : clip'[c] # clip[c] =>
                          Overdue(clip[c]) \/ Overdue(folder[clip[c].folder])
<1>1. IInv /\ [Next]_vars => [Kept]_vars
  <2> SUFFICES ASSUME IInv, [Next]_vars PROVE Kept
    OBVIOUS
  <2>1. ASSUME NEW w \in Workers, Commit(w) PROVE Kept
    BY <2>1 DEF Commit
  <2>2. CASE DestroyFolders \/ DestroyClips
    <3>1. purge.cutoff <= now - Retention /\ purge.cutoff \in Int /\ now \in Int
          /\ Retention \in Int
      BY <2>2, WorkspaceAssumption DEF DestroyFolders, DestroyClips, IInv, TypeOK, Purges, Times
    <3>2. \A f \in ExpiredFolders(purge.cutoff) : Overdue(folder[f])
      <4> SUFFICES ASSUME NEW f \in ExpiredFolders(purge.cutoff) PROVE Overdue(folder[f])
        OBVIOUS
      <4>1. folder[f].deletedAt # None /\ folder[f].deletedAt <= purge.cutoff
            /\ folder[f].deletedAt \in Int
        BY DEF ExpiredFolders, Expired, Trashed, IInv, TypeOK, FolderStates, Times
      <4> QED
        BY <3>1, <4>1 DEF Overdue
    <3>3. \A c \in ExpiredClips(purge.cutoff) : Overdue(clip[c])
      <4> SUFFICES ASSUME NEW c \in ExpiredClips(purge.cutoff) PROVE Overdue(clip[c])
        OBVIOUS
      <4>1. clip[c].deletedAt # None /\ clip[c].deletedAt <= purge.cutoff
            /\ clip[c].deletedAt \in Int
        BY DEF ExpiredClips, Expired, TrashedClips, IInv, TypeOK, ClipStates, Times
      <4> QED
        BY <3>1, <4>1 DEF Overdue
    <3> QED
      BY <2>2, <3>2, <3>3, PurgeDestroys
  <2>3. CASE UNCHANGED <<folder, clip>>
    BY <2>3
  <2> QED
    BY <2>1, <2>2, <2>3, OtherStepsKeepRows
<1>2. Spec => [][Kept]_vars
  BY <1>1, Invariance, PTL DEF Spec
<1> QED
  BY <1>2 DEF PurgeKeepsRetention

----------------------------------------------------------------------------
(***************************************************************************)
(* The clip limit.  What makes LimitKept inductive: the clips that a       *)
(* folder will have when the open transaction commits, if that adds clips  *)
(* to it, are within the limit of its plan.                                *)
(***************************************************************************)
After(writes, f) ==
  {c \in Clips : LET row == Overlay(writes, clip)[c]
                 IN  row.state = "row" /\ row.folder = f /\ row.deletedAt = None}
Adds(writes, f) == \E c \in DOMAIN writes : writes[c] = ClipRow(f, None)
LimitHeld ==
  \A w \in Workers : job[w].step = "open" =>
    \A f \in Folders :
      Adds(job[w].clips, f) => Cardinality(After(job[w].clips, f)) <= Limit(job[w].pro)

\* The active clips of a folder, and those it will have, are finitely many.
LEMMA ClipsFinite ==
  ASSUME NEW S \in SUBSET Clips
  PROVE  IsFiniteSet(S) /\ Cardinality(S) \in Nat
BY WorkspaceAssumption, FS_Subset, FS_CardinalityType

\* A smaller set of clips has no more of them.
LEMMA ClipsFewer ==
  ASSUME NEW S \in SUBSET Clips, NEW T \in SUBSET S
  PROVE  /\ Cardinality(T) \in Nat /\ Cardinality(S) \in Nat
         /\ Cardinality(T) <= Cardinality(S)
BY ClipsFinite, FS_Subset

\* A union of two sets of clips has no more clips than the two together.
LEMMA ClipsUnion ==
  ASSUME NEW S \in SUBSET Clips, NEW T \in SUBSET Clips
  PROVE  Cardinality(S \cup T) <= Cardinality(S) + Cardinality(T)
<1>1. IsFiniteSet(S) /\ IsFiniteSet(T) /\ Cardinality(S) \in Nat /\ Cardinality(T) \in Nat
      /\ Cardinality(S \cap T) \in Nat
  BY ClipsFinite
<1>2. Cardinality(S \cup T) = Cardinality(S) + Cardinality(T) - Cardinality(S \cap T)
  BY <1>1, FS_Union
<1> QED
  BY <1>1, <1>2

\* A transaction begins within the limit if what it will write is.
LEMMA BeginLimit ==
  ASSUME TypeOK, NEW w \in Workers, NEW s, NEW fs, NEW cs, NEW lf, NEW lc, NEW op,
         Begin(w, s, fs, cs, lf, lc, op),
         \A f \in Folders : Adds(cs, f) => Cardinality(After(cs, f)) <= Limit(Pro)
  PROVE  LimitHeld'
<1>1. /\ \A v \in Workers : job[v].step # "open"
      /\ job' = [job EXCEPT ![w] = [step |-> "open", pro |-> Pro, selection |-> s,
                   folders |-> fs, clips |-> cs, lockedFolders |-> lf, lockedClips |-> lc,
                   opens |-> op]]
      /\ clip' = clip
  BY DEF Begin, SubscriptionFree
<1> SUFFICES ASSUME NEW v \in Workers, job'[v].step = "open", NEW f \in Folders,
                    Adds(job'[v].clips, f)
             PROVE  Cardinality(After(job[v].clips, f)') <= Limit(job'[v].pro)
  BY DEF LimitHeld, Adds, Limit
<1>2. job'[v].clips = cs /\ job'[v].pro = Pro
  BY <1>1 DEF TypeOK
<1>3. After(job[v].clips, f)' = After(cs, f)
  BY <1>1, <1>2 DEF After, Overlay
<1> QED
  BY <1>2, <1>3

\* Requests that restore and create no clips add none to any folder.
LEMMA AddsNothing ==
  ASSUME NEW cs, \A c \in DOMAIN cs : cs[c].deletedAt # None \/ cs[c].state # "row"
  PROVE  \A f \in Folders : ~Adds(cs, f)
BY DEF Adds, ClipRow

\* A clip is created when the folder has room for one more.
LEMMA CreateClipLimit ==
  ASSUME TypeOK, NEW w \in Workers, NEW f \in Folders, NEW c \in Clips,
         BeginCreateClip(w, f, c)
  PROVE  LimitHeld'
<1> DEFINE cs == [x \in {c} |-> ClipRow(f, None)]
           before == {x \in ClipsOf(f) : clip[x].deletedAt = None}
<1>1. PICK s \in Resolve : /\ Count(f) + 1 <= Limit(Pro)
                           /\ Begin(w, s, NoWrites, cs, {f}, {}, Opens({f}))
  BY DEF BeginCreateClip
<1>2. ASSUME NEW g \in Folders, Adds(cs, g)
      PROVE  Cardinality(After(cs, g)) <= Limit(Pro)
  <2>1. g = f
    BY <1>2 DEF Adds, ClipRow
  <2>2. before \in SUBSET Clips /\ {c} \in SUBSET Clips /\ before \cup {c} \in SUBSET Clips
    BY DEF ClipsOf
  <2>3. After(cs, f) \in SUBSET (before \cup {c})
    BY DEF After, Overlay, ClipsOf, TypeOK
  <2>4. Cardinality(After(cs, f)) <= Cardinality(before \cup {c})
        /\ Cardinality(After(cs, f)) \in Nat /\ Cardinality(before \cup {c}) \in Nat
    BY <2>2, <2>3, ClipsFewer
  <2>5. Cardinality(before \cup {c}) <= Cardinality(before) + Cardinality({c})
        /\ Cardinality(before) \in Nat
    BY <2>2, ClipsUnion, ClipsFinite
  <2>6. Cardinality({c}) = 1 /\ Cardinality(before) = Count(f) /\ Limit(Pro) \in Nat
    BY FS_Singleton, WorkspaceAssumption DEF Count, Limit
  <2> HIDE DEF before
  <2> QED
    BY <1>1, <2>1, <2>4, <2>5, <2>6
<1> QED
  BY <1>1, <1>2, BeginLimit

\* All clips that come back to a folder are counted together.
LEMMA RestoreLimit ==
  ASSUME TypeOK, NEW w \in Workers, NEW fs \in SUBSET Folders, NEW cs \in SUBSET Clips,
         BeginRestore(w, fs, cs)
  PROVE  LimitHeld'
<1> DEFINE rf == [f \in fs |-> Row(None)]
           rc == [c \in cs |-> ClipRow(clip[c].folder, None)]
           op == fs \cup FoldersOf(cs)
<1>0. PICK s0 \in Resolve : \E s \in PrepareRestore(s0, fs) :
        cs \subseteq TrashedClips /\ WithinLimit(cs) /\ Begin(w, s, rf, rc, op, cs, Opens(op))
  BY DEF BeginRestore, Restorations
<1>1. PICK s \in PrepareRestore(s0, fs) :
        cs \subseteq TrashedClips /\ WithinLimit(cs) /\ Begin(w, s, rf, rc, op, cs, Opens(op))
  BY <1>0
<1>2. ASSUME NEW f \in Folders, Adds(rc, f)
      PROVE  Cardinality(After(rc, f)) <= Limit(Pro)
  <2> DEFINE before == {x \in ClipsOf(f) : clip[x].deletedAt = None}
             back == cs \cap ClipsOf(f)
  <2>1. f \in FoldersOf(cs)
    BY <1>2 DEF Adds, ClipRow, FoldersOf
  <2>2. before \in SUBSET Clips /\ back \in SUBSET Clips /\ before \cup back \in SUBSET Clips
    BY DEF ClipsOf
  <2>3. After(rc, f) \in SUBSET (before \cup back)
    <3> SUFFICES ASSUME NEW c \in After(rc, f) PROVE c \in before \cup back
      OBVIOUS
    <3>1. CASE c \in cs
      <4>1. clip[c].folder = f /\ clip[c].state = "row"
        BY <3>1, <1>1 DEF After, Overlay, ClipRow, TypeOK, TrashedClips
      <4> QED
        BY <3>1, <4>1 DEF ClipsOf
    <3>2. CASE c \notin cs
      BY <3>2 DEF After, Overlay, ClipsOf, TypeOK
    <3> QED
      BY <3>1, <3>2
  <2>4. Cardinality(After(rc, f)) <= Cardinality(before \cup back)
        /\ Cardinality(After(rc, f)) \in Nat /\ Cardinality(before \cup back) \in Nat
    BY <2>2, <2>3, ClipsFewer
  <2>5. Cardinality(before \cup back) <= Cardinality(before) + Cardinality(back)
        /\ Cardinality(before) \in Nat /\ Cardinality(back) \in Nat
    BY <2>2, ClipsUnion, ClipsFinite
  <2>6. Count(f) + Cardinality(back) <= Limit(Pro) /\ Cardinality(before) = Count(f)
        /\ Limit(Pro) \in Nat
    BY <1>1, <2>1, WorkspaceAssumption DEF WithinLimit, Count, Limit
  <2> HIDE DEF before, back
  <2> QED
    BY <2>4, <2>5, <2>6
<1> QED
  BY <1>1, <1>2, BeginLimit

\* Every request begins within the limit.
LEMMA RequestLimit ==
  ASSUME TypeOK, LimitHeld, NEW w \in Workers, Request(w)
  PROVE  LimitHeld'
<1>1. \A f \in Folders : ~Adds(NoWrites, f)
  BY NoWritesTyped, AddsNothing
<1>2. CASE BeginRead(w)
  BY <1>1, <1>2, BeginLimit DEF BeginRead
<1>3. ASSUME NEW f \in Folders, BeginUse(w, f) PROVE LimitHeld'
  BY <1>1, <1>3, BeginLimit DEF BeginUse
<1>4. ASSUME NEW f \in Folders, BeginCreateFolder(w, f) PROVE LimitHeld'
  BY <1>1, <1>4, BeginLimit DEF BeginCreateFolder
<1>5. ASSUME NEW f \in Folders, BeginTrashFolder(w, f) PROVE LimitHeld'
  BY <1>1, <1>5, BeginLimit DEF BeginTrashFolder
<1>6. ASSUME NEW cs \in SUBSET Clips, BeginTrashClips(w, cs) PROVE LimitHeld'
  <2> DEFINE rc == [c \in cs |-> ClipRow(clip[c].folder, now)]
  <2>1. \A c \in DOMAIN rc : rc[c].deletedAt # None
    BY WorkspaceAssumption DEF ClipRow, TypeOK, Times
  <2>2. \A f \in Folders : ~Adds(rc, f)
    BY <2>1, AddsNothing
  <2>3. PICK s \in Resolve : Begin(w, s, NoWrites, rc, FoldersOf(cs), cs, Opens(FoldersOf(cs)))
    BY <1>6 DEF BeginTrashClips
  <2> QED
    BY <2>2, <2>3, BeginLimit
<1>7. ASSUME NEW fs \in SUBSET Folders, NEW cs \in SUBSET Clips, Destroy(w, fs, cs)
      PROVE  LimitHeld'
  <2> DEFINE goneF == fs \cap Trashed
             goneC == (cs \cap TrashedClips) \cup UNION {ClipsOf(f) : f \in goneF}
             rc == [c \in goneC |-> [state |-> "gone", folder |-> None, deletedAt |-> None]]
  <2>1. Begin(w, selection, [f \in goneF |-> [state |-> "gone", deletedAt |-> None]], rc,
              (fs \cup FoldersOf(cs)) \cap (Active \cup Trashed), goneC, {})
    BY <1>7 DEF Destroy
  <2> HIDE DEF goneF, goneC
  <2>2. \A c \in DOMAIN rc : rc[c].state # "row"
    OBVIOUS
  <2>3. \A f \in Folders : ~Adds(rc, f)
    BY <2>2, AddsNothing
  <2> QED
    BY <2>1, <2>3, BeginLimit
<1>8. CASE BeginDestroy(w)
  <2>1. job[w].lockedFolders \in SUBSET Folders /\ job[w].lockedClips \in SUBSET Clips
    BY DEF TypeOK, Jobs
  <2> QED
    BY <1>7, <1>8, <2>1 DEF BeginDestroy
<1>9. CASE BeginEmptyTrash(w)
  <2>1. Trashed \in SUBSET Folders
        /\ {c \in TrashedClips : clip[c].folder \in Active} \in SUBSET Clips
    BY DEF Trashed, TrashedClips
  <2> QED
    BY <1>7, <1>9, <2>1 DEF BeginEmptyTrash
<1>10. ASSUME NEW fs \in SUBSET Folders, NEW cs \in SUBSET Clips, CheckDestroy(w, fs, cs)
       PROVE  LimitHeld'
  <2> DEFINE j == [Idle EXCEPT !.step = "checked", !.lockedFolders = fs,
                     !.lockedClips = {c \in cs : clip[c].folder \notin fs}]
  <2>1. job' = [job EXCEPT ![w] = j] /\ clip' = clip /\ j.step = "checked"
    BY <1>10 DEF CheckDestroy, Idle
  <2> HIDE DEF j
  <2>2. \A v \in Workers : job'[v].step = "open" => job'[v] = job[v] /\ job[v].step = "open"
    BY <2>1 DEF TypeOK
  <2> QED
    BY <2>1, <2>2 DEF LimitHeld, Adds, After, Overlay, Limit
<1> QED
  BY <1>2, <1>3, <1>4, <1>5, <1>6, <1>8, <1>9, <1>10, CreateClipLimit, RestoreLimit
     DEF Request

\* No other step takes an open transaction over the limit: the purge only destroys.
LEMMA LimitStep == IInv /\ LimitHeld /\ [Next]_vars => LimitHeld'
<1> SUFFICES ASSUME IInv, LimitHeld, [Next]_vars PROVE LimitHeld'
  OBVIOUS
<1>1. TypeOK
  BY DEF IInv
<1>2. ASSUME NEW w \in Workers, Request(w) PROVE LimitHeld'
  BY <1>1, <1>2, RequestLimit
<1>3. ASSUME NEW w \in Workers, Commit(w) PROVE LimitHeld'
  <2>1. \A v \in Workers : job'[v].step # "open"
    BY <1>1, <1>3, IdleTyped DEF Commit, TypeOK
  <2> QED
    BY <2>1 DEF LimitHeld
<1>4. ASSUME NEW w \in Workers, Rollback(w) PROVE LimitHeld'
  <2>1. clip' = clip /\ \A v \in Workers :
          job'[v].step = "open" => job'[v] = job[v] /\ job[v].step = "open"
    BY <1>1, <1>4, IdleTyped DEF Rollback, TypeOK
  <2> QED
    BY <2>1 DEF LimitHeld, Adds, After, Overlay, Limit
<1>5. CASE DestroyFolders \/ DestroyClips
  <2> SUFFICES ASSUME NEW v \in Workers, job'[v].step = "open", NEW f \in Folders,
                      Adds(job'[v].clips, f)
               PROVE  Cardinality(After(job[v].clips, f)') <= Limit(job'[v].pro)
    BY DEF LimitHeld, Adds, Limit
  <2>1. job' = job
    BY <1>5 DEF DestroyFolders, DestroyClips
  <2>2. \A c \in Clips : clip'[c] = clip[c] \/ clip'[c].state = "gone"
    BY <1>5, PurgeDestroys
  <2>3. clip \in [Clips -> ClipStates] /\ clip' \in [Clips -> ClipStates]
    BY StepInv DEF IInv, TypeOK
  <2>4. After(job[v].clips, f)' \in SUBSET After(job[v].clips, f)
    BY <2>1, <2>2, <2>3 DEF After, Overlay
  <2>5. After(job[v].clips, f) \in SUBSET Clips
    BY DEF After
  <2>6. /\ Cardinality(After(job[v].clips, f)') <= Cardinality(After(job[v].clips, f))
        /\ Cardinality(After(job[v].clips, f)') \in Nat
        /\ Cardinality(After(job[v].clips, f)) \in Nat
    BY <2>4, <2>5, ClipsFewer
  <2>7. Cardinality(After(job[v].clips, f)) <= Limit(job[v].pro) /\ Limit(job[v].pro) \in Nat
    BY <2>1, WorkspaceAssumption DEF LimitHeld, Limit
  <2> QED
    BY <2>1, <2>6, <2>7
<1>6. CASE ScanFolders \/ ScanClips \/ PurgeFails \/ Tick \/ Pay \/ UNCHANGED vars
  <2>1. job' = job /\ clip' = clip
    BY <1>6 DEF ScanFolders, ScanClips, PurgeFails, Tick, Pay, vars
  <2> QED
    BY <2>1 DEF LimitHeld, Adds, After, Overlay, Limit
<1> QED
  BY <1>2, <1>3, <1>4, <1>5, <1>6 DEF Next, Ends

\* What a commit adds to a folder was counted when the transaction began.
LEMMA CommitLimit ==
  ASSUME IInv, LimitHeld, NEW w \in Workers, Commit(w), NEW f \in Folders,
         Count(f)' > Count(f)
  PROVE  Count(f)' <= Limit(job[w].pro)
<1> DEFINE before == {c \in ClipsOf(f) : clip[c].deletedAt = None}
           after == After(job[w].clips, f)
<1>1. /\ job[w].step = "open" /\ clip \in [Clips -> ClipStates]
      /\ DOMAIN job[w].clips \subseteq Clips
      /\ \A c \in DOMAIN job[w].clips : job[w].clips[c] \in ClipStates
      /\ clip' = Overlay(job[w].clips, clip)
  BY WritesTyped DEF IInv, TypeOK, Jobs, Commit
<1>2. before \in SUBSET Clips /\ after \in SUBSET Clips
  BY DEF ClipsOf, After
<1>3. Count(f) = Cardinality(before) /\ Count(f)' = Cardinality(after)
  <2>1. {c \in ClipsOf(f) : clip[c].deletedAt = None}' = after
    BY <1>1 DEF ClipsOf, After
  <2> QED
    BY <2>1 DEF Count
<1>4. Adds(job[w].clips, f)
  <2> SUFFICES ASSUME ~Adds(job[w].clips, f) PROVE after \in SUBSET before
    <3>1. Cardinality(before) \in Nat /\ Cardinality(after) \in Nat
      BY <1>2, ClipsFinite
    <3> HIDE DEF before, after
    <3> QED
      BY <1>2, <1>3, <3>1, ClipsFewer
  <2> SUFFICES ASSUME NEW c \in after PROVE c \in before
    OBVIOUS
  <2>1. CASE c \in DOMAIN job[w].clips
    <3>1. job[w].clips[c] \in ClipStates /\ job[w].clips[c].state = "row"
          /\ job[w].clips[c].folder = f /\ job[w].clips[c].deletedAt = None
      BY <1>1, <2>1 DEF After, Overlay
    <3>2. job[w].clips[c] = ClipRow(f, None)
      BY <3>1 DEF ClipStates, ClipRow
    <3> QED
      BY <2>1, <3>2 DEF Adds
  <2>2. CASE c \notin DOMAIN job[w].clips
    BY <1>1, <2>2 DEF After, Overlay, ClipsOf
  <2> QED
    BY <2>1, <2>2
<1> QED
  BY <1>1, <1>3, <1>4 DEF LimitHeld

\* However many requests create and restore clips, and whenever the plan ends, an open
\* transaction that adds clips to a folder leaves it within the limit of its plan.
THEOREM LimitAlwaysHeld == Spec => []LimitHeld
<1>1. Init => LimitHeld
  BY IdleTyped DEF Init, LimitHeld
<1> QED
  BY <1>1, LimitStep, Invariance, PTL DEF Spec

\* A folder gains clips only by a commit, and only up to the limit of the plan that the
\* committing transaction saw.
THEOREM LimitAlwaysKept == Spec => LimitKept
<1> DEFINE Kept == \A f \in Folders : Count(f)' > Count(f) =>
                     \E w \in Workers : /\ job[w].step = "open" /\ job'[w].step = "idle"
                                        /\ Count(f)' <= Limit(job[w].pro)
<1>1. IInv /\ LimitHeld /\ [Next]_vars => [Kept]_vars
  <2> SUFFICES ASSUME IInv, LimitHeld, [Next]_vars, NEW f \in Folders, Count(f)' > Count(f)
               PROVE  \E w \in Workers : /\ job[w].step = "open" /\ job'[w].step = "idle"
                                         /\ Count(f)' <= Limit(job[w].pro)
    OBVIOUS
  <2> DEFINE before == {c \in ClipsOf(f) : clip[c].deletedAt = None}
  <2>1. Count(f) \in Nat /\ before \in SUBSET Clips /\ Count(f) = Cardinality(before)
    BY ClipsFinite DEF Count, ClipsOf
  <2>2. ASSUME NEW w \in Workers, Commit(w)
        PROVE  job[w].step = "open" /\ job'[w].step = "idle" /\ Count(f)' <= Limit(job[w].pro)
    BY <2>2, CommitLimit, IdleTyped DEF Commit, IInv, TypeOK
  <2>3. CASE DestroyFolders \/ DestroyClips
    <3>1. \A c \in Clips : clip'[c] = clip[c] \/ clip'[c].state = "gone"
      BY <2>3, PurgeDestroys
    <3>2. before' \in SUBSET before
      BY <3>1 DEF ClipsOf
    <3>3. Count(f)' = Cardinality(before')
      BY DEF Count
    <3>4. Cardinality(before') <= Cardinality(before) /\ Cardinality(before') \in Nat
          /\ Cardinality(before) \in Nat
      BY <2>1, <3>2, ClipsFewer
    <3> QED
      BY <2>1, <3>3, <3>4
  <2>4. CASE UNCHANGED <<folder, clip>>
    <3>1. Count(f)' = Count(f)
      BY <2>4 DEF Count, ClipsOf
    <3> QED
      BY <2>1, <3>1
  <2> QED
    BY <2>2, <2>3, <2>4, OtherStepsKeepRows
<1>2. Spec => [][Kept]_vars
  BY <1>1, Invariance, LimitAlwaysHeld, PTL DEF Spec
<1> QED
  BY <1>2 DEF LimitKept


----------------------------------------------------------------------------
(***************************************************************************)
(* The choice of a free period.  What makes ChoiceKept inductive: a period  *)
(* recorded with a choice has begun, a choice in force was made in free     *)
(* time, and the open transaction, with selection s and folder writes fs,   *)
(* leaves a stored choice alone or puts a new folder in the place of a      *)
(* destroyed one.                                                           *)
(***************************************************************************)
Current(s) == s.initialized /\ s.periodEnd = paidUntil
Sound(s) == /\ s.periodEnd # None => paidUntil # None /\ s.periodEnd <= paidUntil
            /\ Current(s) => ~Pro
Replaces(s, fs, f) ==
  /\ folder[f].state = "gone" /\ Current(s)
  /\ \E g \in Folders \cap DOMAIN fs :
       s.folder = g /\ folder[g].state = "new" /\ fs[g] = Row(None)
Agrees(s, fs) ==
  /\ Sound(s)
  /\ \A f \in Folders : Stored(f) => s = selection \/ Replaces(s, fs, f)
  /\ \A f \in Folders : Current(s) /\ s.folder = f => Overlay(fs, folder)[f].state # "new"
ChoiceInv ==
  /\ Sound(selection)
  /\ \A f \in Folders : Stored(f) => folder[f].state # "new"
  /\ \A w \in Workers : job[w].step = "open" => Agrees(job[w].selection, job[w].folders)

\* A stored choice decides what the user gets at: the chosen folder while it exists,
\* in the trash or not, and nothing at all when it was destroyed.
LEMMA Obtained ==
  TypeOK => \A f \in Folders : Stored(f) =>
    Obtainable = IF folder[f].state = "row" THEN {f} ELSE {}
<1> SUFFICES ASSUME TypeOK, NEW f \in Folders, Stored(f)
             PROVE  Obtainable = IF folder[f].state = "row" THEN {f} ELSE {}
  OBVIOUS
<1>1. ~Pro /\ selection \in Selections /\ selection.folder = f /\ f # None
      /\ Resolve = {selection}
  BY WorkspaceAssumption DEF Stored, Resolve, TypeOK
<1>2. f \in Active \cup Trashed <=> folder[f].state = "row"
  BY DEF Active, Trashed
<1>3. ASSUME NEW g \in Active PROVE CanOpen(selection, g) <=> g = f
  BY <1>1, <1>3, WorkspaceAssumption DEF CanOpen, Accessible, Active
<1>4. ASSUME NEW g \in Folders
      PROVE  Restorations(selection, {g}, {}) # {} <=> g \in Trashed /\ g = f
  <2>1. PrepareRestore(selection, {g}) =
          {[selection EXCEPT !.folder = h] : h \in {k \in {g} : k = f}}
    BY <1>1 DEF PrepareRestore
  <2>2. FoldersOf({}) = {} /\ WithinLimit({})
    BY DEF FoldersOf, WithinLimit
  <2>3. \A s : s \in Restorations(selection, {g}, {}) <=>
                s \in PrepareRestore(selection, {g}) /\ g \in Trashed
    BY <2>2 DEF Restorations
  <2>4. \A s : s \in PrepareRestore(selection, {g}) <=>
                g = f /\ s = [selection EXCEPT !.folder = g]
    BY <2>1
  <2> QED
    BY <2>3, <2>4
<1>5. \A g \in Folders : g \in Obtainable <=> g = f /\ g \in Active \cup Trashed
  <2>1. \A g \in Folders : g \in Obtainable <=>
          IF g \in Active THEN CanOpen(selection, g)
          ELSE Restorations(selection, {g}, {}) # {}
    BY <1>1 DEF Obtainable
  <2> QED
    BY <2>1, <1>3, <1>4
<1>6. Obtainable \subseteq Folders
  BY DEF Obtainable
<1> QED
  BY <1>2, <1>5, <1>6

\* Deciding on the folder of a period leaves a stored choice alone.
LEMMA ResolveAgrees ==
  ASSUME TypeOK, ChoiceInv, NEW s \in Resolve
  PROVE  /\ Sound(s)
         /\ \A f \in Folders : Stored(f) => s = selection
         /\ \A f \in Folders : Current(s) /\ s.folder = f => folder[f].state # "new"
<1>1. selection \in Selections /\ (paidUntil # None => paidUntil \in Int)
  BY DEF TypeOK
<1>2. CASE Pro
  <2>1. s.periodEnd = selection.periodEnd /\ (s.initialized => s = selection)
    BY <1>1, <1>2 DEF Resolve, Unchosen, Selections
  <2>2. Sound(s) /\ ~Current(s)
    BY <1>2, <2>1 DEF ChoiceInv, Sound, Current
  <2> QED
    BY <1>2, <2>2 DEF Stored
<1>3. CASE ~Pro /\ Current(selection)
  <2>1. s = selection
    BY <1>3 DEF Resolve, Current
  <2> QED
    BY <1>3, <2>1 DEF ChoiceInv, Stored, Current
<1>4. CASE ~Pro /\ ~Current(selection)
  <2>1. s \in Chosen
    BY <1>4 DEF Resolve, Current
  <2>2. s.periodEnd = paidUntil /\ s.folder \in FirstActive
    BY <2>1 DEF Chosen
  <2>3. Sound(s)
    BY <1>1, <1>4, <2>2 DEF Sound
  <2>4. \A f \in Folders : s.folder = f => folder[f].state # "new"
    BY <2>2, WorkspaceAssumption DEF FirstActive, Active
  <2> QED
    BY <1>4, <2>3, <2>4 DEF Stored, Current
<1> QED
  BY <1>2, <1>3, <1>4

\* A transaction that begins in agreement with the stored choice keeps the invariant.
LEMMA BeginChoice ==
  ASSUME TypeOK, ChoiceInv, NEW w \in Workers, NEW s, NEW fs, NEW cs, NEW lf, NEW lc, NEW op,
         Begin(w, s, fs, cs, lf, lc, op), Agrees(s, fs)
  PROVE  ChoiceInv' /\ UNCHANGED <<paidUntil, selection, folder, now>>
<1>1. /\ job' = [job EXCEPT ![w] = [step |-> "open", pro |-> Pro, selection |-> s,
                                    folders |-> fs, clips |-> cs, lockedFolders |-> lf,
                                    lockedClips |-> lc, opens |-> op]]
      /\ UNCHANGED <<now, paidUntil, selection, folder>>
      /\ \A v \in Workers : job[v].step # "open"
  BY DEF Begin, SubscriptionFree
<1>2. ASSUME NEW v \in Workers, job'[v].step = "open"
      PROVE  v = w /\ job'[v].selection = s /\ job'[v].folders = fs
  BY <1>1, <1>2 DEF TypeOK
<1>3. Agrees(s, fs)'
  BY <1>1 DEF Agrees, Sound, Current, Replaces, Stored, Pro, Overlay
<1>4. ASSUME NEW v \in Workers, job'[v].step = "open"
      PROVE  Agrees(job[v].selection, job[v].folders)'
  BY <1>2, <1>3, <1>4
<1> QED
  BY <1>1, <1>4 DEF ChoiceInv, Sound, Current, Stored, Pro


\* Requests that write clips, or nothing.
LEMMA ContentChoice ==
  ASSUME TypeOK, ChoiceInv, NEW w \in Workers, NEW s \in Resolve, NEW cs, NEW lf, NEW lc,
         NEW op, Begin(w, s, NoWrites, cs, lf, lc, op)
  PROVE  ChoiceInv' /\ UNCHANGED <<paidUntil, selection, folder, now>>
<1>1. Overlay(NoWrites, folder) = folder
  BY NoWritesTyped DEF Overlay, TypeOK
<1>2. Agrees(s, NoWrites)
  BY <1>1, ResolveAgrees DEF Agrees
<1> QED
  BY <1>2, BeginChoice

\* The chosen folder stays the chosen one in the trash.
LEMMA TrashFolderChoice ==
  ASSUME TypeOK, ChoiceInv, NEW w \in Workers, NEW f \in Folders, BeginTrashFolder(w, f)
  PROVE  ChoiceInv' /\ UNCHANGED <<paidUntil, selection, folder, now>>
<1> DEFINE fs == [x \in {f} |-> Row(now)]
<1>1. PICK s \in Resolve : Begin(w, s, fs, NoWrites, {f}, {}, {})
  BY DEF BeginTrashFolder
<1>2. \A g \in Folders : Overlay(fs, folder)[g] = IF g = f THEN Row(now) ELSE folder[g]
  BY DEF Overlay, TypeOK
<1>3. Agrees(s, fs)
  <2> HIDE DEF fs
  <2> QED
    BY <1>2, ResolveAgrees DEF Agrees, Row
<1> QED
  BY <1>1, <1>3, BeginChoice

\* A free user creates a folder only in the place of a destroyed choice.
LEMMA CreateFolderChoice ==
  ASSUME TypeOK, ChoiceInv, NEW w \in Workers, NEW f \in Folders, BeginCreateFolder(w, f)
  PROVE  ChoiceInv' /\ UNCHANGED <<paidUntil, selection, folder, now>>
<1> DEFINE fs == [x \in {f} |-> Row(None)]
<1>1. PICK s \in Resolve :
        /\ folder[f].state = "new"
        /\ Pro \/ (Active = {} /\ Accessible(s) = None)
        /\ Begin(w, IF Pro THEN s ELSE [s EXCEPT !.folder = f], fs, NoWrites, {}, {},
                 Opens({f}))
  BY DEF BeginCreateFolder
<1> DEFINE t == IF Pro THEN s ELSE [s EXCEPT !.folder = f]
<1>2. \A g \in Folders : Overlay(fs, folder)[g] = IF g = f THEN Row(None) ELSE folder[g]
  BY DEF Overlay, TypeOK
<1>3. DOMAIN fs = {f} /\ fs[f] = Row(None)
  OBVIOUS
<1>4. s \in Selections /\ Sound(s) /\ (\A g \in Folders : Stored(g) => s = selection)
      /\ \A g \in Folders : Current(s) /\ s.folder = g => folder[g].state # "new"
  BY ResolveTyped, ResolveAgrees
<1>5. t.initialized = s.initialized /\ t.periodEnd = s.periodEnd
      /\ (IF Pro THEN t = s ELSE t.folder = f)
  BY <1>4 DEF Selections
<1> HIDE DEF fs, t
<1>6. Sound(t) /\ (Current(t) <=> Current(s))
  BY <1>4, <1>5 DEF Sound, Current
<1>7. ASSUME NEW g \in Folders, Stored(g) PROVE Replaces(t, fs, g)
  <2>1. ~Pro /\ s = selection /\ selection.folder = g /\ Current(s) /\ g # None
    BY <1>4, <1>7, WorkspaceAssumption DEF Stored, Current
  <2>2. g \notin Active \cup Trashed
    BY <1>1, <2>1 DEF Accessible
  <2>3. folder[g].state \in {"new", "row", "gone"}
    BY DEF TypeOK, FolderStates
  <2>4. folder[g].state = "gone"
    BY <1>7, <2>2, <2>3 DEF Active, Trashed, ChoiceInv
  <2> QED
    BY <1>1, <1>3, <1>5, <1>6, <2>1, <2>4 DEF Replaces
<1>8. Agrees(t, fs)
  BY <1>2, <1>4, <1>5, <1>6, <1>7 DEF Agrees, Row
<1> QED
  BY <1>1, <1>8, BeginChoice DEF t, fs

\* What a free user takes back is the chosen folder, or becomes it when none was chosen.
LEMMA RestoreChoice ==
  ASSUME TypeOK, ChoiceInv, NEW w \in Workers, NEW fs \in SUBSET Folders, NEW cs \in SUBSET Clips,
         BeginRestore(w, fs, cs)
  PROVE  ChoiceInv' /\ UNCHANGED <<paidUntil, selection, folder, now>>
<1> DEFINE rf == [f \in fs |-> Row(None)]
           rc == [c \in cs |-> ClipRow(clip[c].folder, None)]
           op == fs \cup FoldersOf(cs)
<1>1. PICK s0 \in Resolve : \E s \in PrepareRestore(s0, fs) :
        Begin(w, s, rf, rc, op, cs, Opens(op))
  BY DEF BeginRestore, Restorations
<1>2. PICK s \in PrepareRestore(s0, fs) : Begin(w, s, rf, rc, op, cs, Opens(op))
  BY <1>1
<1>3. \A g \in Folders : Overlay(rf, folder)[g] = IF g \in fs THEN Row(None) ELSE folder[g]
  BY DEF Overlay, TypeOK
<1>4. s0 \in Selections /\ Sound(s0) /\ (\A g \in Folders : Stored(g) => s0 = selection)
      /\ \A g \in Folders : Current(s0) /\ s0.folder = g => folder[g].state # "new"
  BY ResolveTyped, ResolveAgrees
<1> HIDE DEF rf
<1>5. CASE Pro \/ fs = {}
  <2>1. s = s0
    BY <1>5 DEF PrepareRestore
  <2> QED
    BY <1>2, <1>3, <1>4, <2>1, BeginChoice DEF Agrees, Row
<1>6. CASE ~(Pro \/ fs = {})
  <2>1. PICK f \in fs : s = [s0 EXCEPT !.folder = f] /\ (s0.folder # None => s0.folder = f)
    BY <1>6 DEF PrepareRestore
  <2>2. /\ s.initialized = s0.initialized /\ s.periodEnd = s0.periodEnd /\ s.folder = f
        /\ (s0.folder # None => s = s0)
    BY <1>4, <2>1 DEF Selections
  <2>3. Sound(s)
    BY <1>4, <2>2 DEF Sound, Current
  <2>4. ASSUME NEW g \in Folders, Stored(g) PROVE s = selection
    BY <1>4, <2>2, <2>4, WorkspaceAssumption DEF Stored
  <2>5. \A g \in Folders : s.folder = g => Overlay(rf, folder)[g].state # "new"
    BY <1>3, <2>1, <2>2 DEF Row
  <2> QED
    BY <1>2, <2>3, <2>4, <2>5, BeginChoice DEF Agrees
<1> QED
  BY <1>5, <1>6

\* A permanent deletion does not touch the choice.
LEMMA DestroyChoice ==
  ASSUME TypeOK, ChoiceInv, NEW w \in Workers, NEW fs, NEW cs, Destroy(w, fs, cs)
  PROVE  ChoiceInv' /\ UNCHANGED <<paidUntil, selection, folder, now>>
<1> DEFINE goneF == fs \cap Trashed
           goneC == (cs \cap TrashedClips) \cup UNION {ClipsOf(f) : f \in goneF}
           rf == [f \in goneF |-> [state |-> "gone", deletedAt |-> None]]
           rc == [c \in goneC |-> [state |-> "gone", folder |-> None, deletedAt |-> None]]
           lf == (fs \cup FoldersOf(cs)) \cap (Active \cup Trashed)
<1>1. Begin(w, selection, rf, rc, lf, goneC, {})
  BY DEF Destroy
<1>2. \A g \in Folders : Overlay(rf, folder)[g] =
        IF g \in goneF THEN [state |-> "gone", deletedAt |-> None] ELSE folder[g]
  BY DEF Overlay, TypeOK
<1> HIDE DEF rf, rc, goneF
<1>3. \A f \in Folders : Current(selection) /\ selection.folder = f => Stored(f)
  BY DEF ChoiceInv, Sound, Current, Stored
<1>4. Agrees(selection, rf)
  BY <1>2, <1>3 DEF Agrees, ChoiceInv
<1> QED
  BY <1>1, <1>4, BeginChoice


\* A step from one stored choice keeps it, or the folder of a destroyed choice is new.
ChoiceSteps == \A f \in Folders : Stored(f) /\ paidUntil' = paidUntil =>
                 \/ Stored(f)'
                 \/ /\ folder'[f].state = "gone"
                    /\ \E g \in Folders : Stored(g)' /\ folder[g].state = "new"

\* A worker that holds no transaction afterwards leaves every choice alone.
LEMMA QuietChoice ==
  ASSUME TypeOK, ChoiceInv, NEW w \in Workers, NEW j, j.step # "open",
         job' = [job EXCEPT ![w] = j], UNCHANGED <<now, paidUntil, selection, folder>>
  PROVE  ChoiceInv'
<1>1. ASSUME NEW v \in Workers, job'[v].step = "open"
      PROVE  job'[v] = job[v] /\ Agrees(job[v].selection, job[v].folders)
  BY <1>1 DEF TypeOK, ChoiceInv
<1>2. \A s, fs : Agrees(s, fs) => Agrees(s, fs)'
  BY DEF Agrees, Sound, Current, Replaces, Stored, Pro, Overlay
<1>3. ASSUME NEW v \in Workers, job'[v].step = "open"
      PROVE  Agrees(job[v].selection, job[v].folders)'
  BY <1>1, <1>2, <1>3
<1> QED
  BY <1>3 DEF ChoiceInv, Sound, Current, Stored, Pro

\* A commit stores the choice that its transaction agreed on.
LEMMA CommitChoice ==
  ASSUME IInv, ChoiceInv, NEW w \in Workers, Commit(w)
  PROVE  ChoiceInv' /\ ChoiceSteps
<1> DEFINE s == job[w].selection
           fs == job[w].folders
<1>1. Agrees(s, fs) /\ Held(job[w]) /\ TypeOK
  BY DEF ChoiceInv, IInv, Commit
<1>2. /\ selection' = s /\ folder' = Overlay(fs, folder)
      /\ UNCHANGED <<now, paidUntil>> /\ job' = [job EXCEPT ![w] = Idle]
  BY DEF Commit
<1>3. \A v \in Workers : job'[v].step # "open"
  BY <1>1, <1>2, IdleTyped DEF TypeOK, Commit
<1>4. \A f \in Folders : Stored(f)' <=> ~Pro /\ Current(s) /\ s.folder = f
  BY <1>2 DEF Stored, Current, Pro
<1>5. Sound(selection)'
  BY <1>1, <1>2 DEF Agrees, Sound, Current, Pro
<1>6. \A f \in Folders : Stored(f)' => folder'[f].state # "new"
  BY <1>1, <1>2, <1>4 DEF Agrees
<1>7. ChoiceInv'
  BY <1>3, <1>5, <1>6 DEF ChoiceInv
<1>8. ASSUME NEW f \in Folders, Stored(f)
      PROVE  \/ Stored(f)'
             \/ /\ folder'[f].state = "gone"
                /\ \E g \in Folders : Stored(g)' /\ folder[g].state = "new"
  <2>1. CASE s = selection
    BY <1>2, <1>8, <2>1 DEF Stored, Pro
  <2>2. CASE Replaces(s, fs, f)
    <3>1. f \notin DOMAIN fs
      BY <1>1, <2>2 DEF Held, Replaces
    <3>2. folder'[f].state = "gone"
      BY <1>1, <1>2, <2>2, <3>1 DEF Overlay, TypeOK, Replaces
    <3>3. \E g \in Folders : Stored(g)' /\ folder[g].state = "new"
      BY <1>4, <1>8, <2>2 DEF Replaces, Stored
    <3> QED
      BY <3>2, <3>3
  <2> QED
    BY <1>1, <1>8, <2>1, <2>2 DEF Agrees
<1> QED
  BY <1>7, <1>8 DEF ChoiceSteps

\* The clock ends paid time, which no choice in force was made in.
LEMMA TickChoice ==
  ASSUME TypeOK, ChoiceInv, Tick
  PROVE  ChoiceInv' /\ ChoiceSteps
<1>1. /\ now' = now + 1 /\ now \in Int /\ (paidUntil # None => paidUntil \in Int)
      /\ UNCHANGED <<paidUntil, selection, folder, job>>
  BY DEF Tick, TypeOK, Times
<1>2. Pro' => Pro
  BY <1>1 DEF Pro
<1>3. \A s : Sound(s) => Sound(s)'
  BY <1>1, <1>2 DEF Sound, Current
<1>4. \A f \in Folders : Stored(f)' <=> Stored(f)
  BY <1>1, <1>2 DEF Stored, ChoiceInv, Sound, Current
<1>5. \A s, fs : Agrees(s, fs) => Agrees(s, fs)'
  BY <1>1, <1>3, <1>4 DEF Agrees, Current, Replaces, Overlay
<1>6. ChoiceInv'
  BY <1>1, <1>3, <1>4, <1>5 DEF ChoiceInv
<1> QED
  BY <1>4, <1>6 DEF ChoiceSteps

\* A payment begins a period for which nothing was chosen yet.
LEMMA PayChoice ==
  ASSUME TypeOK, ChoiceInv, Pay
  PROVE  ChoiceInv' /\ ChoiceSteps
<1>1. PICK end \in 1..(MaxNow + 1) : /\ end > now /\ (paidUntil # None => end > paidUntil)
                                     /\ paidUntil' = end
  BY DEF Pay
<1>2. /\ UNCHANGED <<now, selection, folder, job>>
      /\ \A w \in Workers : job[w].step # "open"
  BY DEF Pay, SubscriptionFree
<1>3. /\ end \in Int /\ end # None /\ paidUntil' # paidUntil
      /\ (paidUntil # None => paidUntil \in Int)
      /\ (selection.periodEnd # None => selection.periodEnd \in Int)
  BY <1>1, WorkspaceAssumption DEF TypeOK, Selections
<1>4. selection.periodEnd # None => selection.periodEnd < end
  BY <1>1, <1>3 DEF ChoiceInv, Sound
<1>5. ~Current(selection)' /\ Sound(selection)'
  BY <1>1, <1>2, <1>3, <1>4 DEF Sound, Current
<1>6. ChoiceInv'
  BY <1>2, <1>5 DEF ChoiceInv, Stored, Current
<1> QED
  BY <1>3, <1>6 DEF ChoiceSteps

\* The purge destroys folders of the trash, and leaves the choice as it is.
LEMMA PurgeChoice ==
  ASSUME TypeOK, ChoiceInv, UNCHANGED <<now, paidUntil, selection, job>>,
         \A f \in Folders : \/ folder'[f] = folder[f]
                            \/ folder[f].state = "row" /\ folder'[f].state = "gone",
         DOMAIN folder' = Folders
  PROVE  ChoiceInv' /\ ChoiceSteps
<1>1. \A f \in Folders : Stored(f)' <=> Stored(f)
  BY DEF Stored, Pro
<1>2. \A s : Sound(s) => Sound(s)'
  BY DEF Sound, Current, Pro
<1>3. ASSUME NEW s, NEW fs, Agrees(s, fs) PROVE Agrees(s, fs)'
  <2>1. \A f \in Folders : Replaces(s, fs, f) => Replaces(s, fs, f)'
    BY DEF Replaces, Current
  <2>2. \A f \in Folders :
          Overlay(fs, folder)[f].state # "new" => Overlay(fs, folder')[f].state # "new"
    BY DEF Overlay, TypeOK
  <2>3. Current(s)' <=> Current(s)
    BY DEF Current
  <2>4. Overlay(fs, folder)' = Overlay(fs, folder')
    BY DEF Overlay
  <2> QED
    BY <1>1, <1>2, <1>3, <2>1, <2>2, <2>3, <2>4 DEF Agrees
<1>4. ChoiceInv'
  BY <1>1, <1>2, <1>3 DEF ChoiceInv
<1> QED
  BY <1>1, <1>4 DEF ChoiceSteps


\* Every step keeps the invariant of the choice, and keeps or replaces a stored choice.
LEMMA StepChoice == IInv /\ ChoiceInv /\ [Next]_vars => ChoiceInv' /\ ChoiceSteps
<1> SUFFICES ASSUME IInv, ChoiceInv, [Next]_vars PROVE ChoiceInv' /\ ChoiceSteps
  OBVIOUS
<1>0. TypeOK
  BY DEF IInv
<1>1. UNCHANGED <<paidUntil, selection, folder, now>> => ChoiceSteps
  BY DEF ChoiceSteps, Stored, Pro
<1>2. ASSUME NEW w \in Workers, Request(w) PROVE ChoiceInv' /\ ChoiceSteps
  <2>1. ASSUME BeginRead(w) PROVE ChoiceInv' /\ ChoiceSteps
    BY <1>0, <1>1, <2>1, ContentChoice DEF BeginRead
  <2>2. ASSUME NEW f \in Folders, BeginUse(w, f) PROVE ChoiceInv' /\ ChoiceSteps
    BY <1>0, <1>1, <2>2, ContentChoice DEF BeginUse
  <2>3. ASSUME NEW f \in Folders, NEW c \in Clips, BeginCreateClip(w, f, c)
        PROVE  ChoiceInv' /\ ChoiceSteps
    BY <1>0, <1>1, <2>3, ContentChoice DEF BeginCreateClip
  <2>4. ASSUME NEW cs \in SUBSET Clips, BeginTrashClips(w, cs) PROVE ChoiceInv' /\ ChoiceSteps
    BY <1>0, <1>1, <2>4, ContentChoice DEF BeginTrashClips
  <2>5. ASSUME NEW f \in Folders, BeginCreateFolder(w, f) \/ BeginTrashFolder(w, f)
        PROVE  ChoiceInv' /\ ChoiceSteps
    BY <1>0, <1>1, <2>5, CreateFolderChoice, TrashFolderChoice
  <2>6. ASSUME NEW cs \in SUBSET Clips, NEW fs \in SUBSET Folders, BeginRestore(w, fs, cs)
        PROVE  ChoiceInv' /\ ChoiceSteps
    BY <1>0, <1>1, <2>6, RestoreChoice
  <2>7. ASSUME NEW cs \in SUBSET Clips, NEW fs \in SUBSET Folders, CheckDestroy(w, fs, cs)
        PROVE  ChoiceInv' /\ ChoiceSteps
    <3> DEFINE j == [Idle EXCEPT !.step = "checked", !.lockedFolders = fs,
                       !.lockedClips = {c \in cs : clip[c].folder \notin fs}]
    <3>1. job' = [job EXCEPT ![w] = j] /\ UNCHANGED <<now, paidUntil, selection, folder>>
      BY <2>7 DEF CheckDestroy
    <3>2. j.step # "open"
      BY DEF Idle
    <3> HIDE DEF j
    <3>3. ChoiceInv'
      BY <1>0, <3>1, <3>2, QuietChoice
    <3> QED
      BY <1>1, <3>1, <3>3
  <2>8. ASSUME BeginDestroy(w) \/ BeginEmptyTrash(w) PROVE ChoiceInv' /\ ChoiceSteps
    BY <1>0, <1>1, <2>8, DestroyChoice DEF BeginDestroy, BeginEmptyTrash
  <2> QED
    BY <1>2, <2>1, <2>2, <2>3, <2>4, <2>5, <2>6, <2>7, <2>8 DEF Request
<1>3. ASSUME NEW w \in Workers, Commit(w) PROVE ChoiceInv' /\ ChoiceSteps
  BY <1>3, CommitChoice
<1>4. ASSUME NEW w \in Workers, Rollback(w) PROVE ChoiceInv' /\ ChoiceSteps
  BY <1>0, <1>1, <1>4, IdleTyped, QuietChoice DEF Rollback
<1>5. CASE Tick \/ Pay
  BY <1>0, <1>5, TickChoice, PayChoice
<1>6. CASE DestroyFolders
  <2> DEFINE goneF == StillExpired(purge.folders)
             rf == [f \in goneF |-> [state |-> "gone", deletedAt |-> None]]
  <2>1. folder' = Overlay(rf, folder) /\ UNCHANGED <<now, paidUntil, selection, job>>
    BY <1>6 DEF DestroyFolders
  <2>2. \A f \in goneF : folder[f].state = "row"
    BY DEF StillExpired, ExpiredFolders, Trashed
  <2>3. DOMAIN folder' = Folders
        /\ \A f \in Folders : folder'[f] = IF f \in goneF THEN rf[f] ELSE folder[f]
    BY <1>0, <2>1 DEF Overlay, TypeOK
  <2>4. \A f \in Folders : \/ folder'[f] = folder[f]
                           \/ folder[f].state = "row" /\ folder'[f].state = "gone"
    BY <2>2, <2>3
  <2> QED
    BY <1>0, <2>1, <2>3, <2>4, PurgeChoice
<1>7. CASE ScanFolders \/ ScanClips \/ DestroyClips \/ PurgeFails \/ UNCHANGED vars
  <2>1. UNCHANGED <<now, paidUntil, selection, job, folder>>
    <3>1. CASE ScanFolders \/ ScanClips \/ PurgeFails
      BY <3>1, Zenon DEF ScanFolders, ScanClips, PurgeFails
    <3>2. CASE DestroyClips \/ UNCHANGED vars
      BY <3>2 DEF DestroyClips, vars
    <3> QED
      BY <1>7, <3>1, <3>2
  <2>2. DOMAIN folder' = Folders
    BY <1>0, <2>1 DEF TypeOK
  <2> QED
    BY <1>0, <2>1, <2>2, PurgeChoice
<1> QED
  BY <1>2, <1>3, <1>4, <1>5, <1>6, <1>7 DEF Next, Ends

\* While the chosen folder of a free period exists, no step of any request, of the purge
\* or of the clock opens another one or takes this one away; once it is destroyed only a
\* folder created in its place is to be had.
THEOREM ChoiceAlwaysKept == Spec => ChoiceKept
<1> DEFINE Kept == \A f \in Folders : Stored(f) /\ paidUntil' = paidUntil =>
                     IF folder'[f].state = "row" THEN Obtainable' = {f}
                     ELSE \A g \in Obtainable' : folder[g].state = "new"
<1>1. Init => ChoiceInv
  <2> SUFFICES ASSUME Init PROVE ChoiceInv
    OBVIOUS
  <2> QED
    BY IdleTyped DEF Init, ChoiceInv, Sound, Current, Stored, Idle
<1>2. (TypeOK => \A f \in Folders : Stored(f) =>
         Obtainable = IF folder[f].state = "row" THEN {f} ELSE {})'
  BY Obtained, PTL
<1>3. IInv /\ ChoiceInv /\ [Next]_vars /\ IInv' => [Kept]_vars
  <2> SUFFICES ASSUME IInv, ChoiceInv, [Next]_vars, IInv', NEW f \in Folders, Stored(f),
                      paidUntil' = paidUntil
               PROVE  IF folder'[f].state = "row" THEN Obtainable' = {f}
                      ELSE \A g \in Obtainable' : folder[g].state = "new"
    OBVIOUS
  <2>1. \A g \in Folders : Stored(g)' =>
          Obtainable' = IF folder'[g].state = "row" THEN {g} ELSE {}
    BY <1>2 DEF IInv
  <2>2. \/ Stored(f)'
        \/ /\ folder'[f].state = "gone"
           /\ \E g \in Folders : Stored(g)' /\ folder[g].state = "new"
    BY StepChoice DEF ChoiceSteps
  <2>3. CASE Stored(f)'
    BY <2>1, <2>3
  <2>4. CASE /\ folder'[f].state = "gone"
             /\ \E g \in Folders : Stored(g)' /\ folder[g].state = "new"
    BY <2>1, <2>4
  <2> QED
    BY <2>2, <2>3, <2>4
<1> QED
  BY <1>1, <1>3, InitInv, StepInv, StepChoice, PTL DEF Spec, ChoiceKept

=============================================================================
