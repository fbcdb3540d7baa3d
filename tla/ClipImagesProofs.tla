-------------------------- MODULE ClipImagesProofs --------------------------
(***************************************************************************)
(* The inductive invariant of ClipImages, and what follows from it, for    *)
(* any numbers of images, clips and requests.                              *)
(*                                                                         *)
(* Steps that only move a request on share one lemma, JobStep, which says  *)
(* what a request may forget and what it may undertake to remove.          *)
(***************************************************************************)
EXTENDS ClipImages, TLAPS

\* The job of one worker is replaced.
LEMMA GotoEffect ==
  ASSUME TypeOK, NEW w \in Workers, NEW j \in Jobs, Goto(w, j)
  PROVE  /\ job' \in [Workers -> Jobs]
         /\ job'[w] = j
         /\ \A v \in Workers \ {w} : job'[v] = job[v]
  BY DEF TypeOK, Goto

\* Who refers to what is a matter of the rows.
LEMMA SameRows ==
  ASSUME UNCHANGED row
  PROVE  /\ Present' = Present
         /\ \A k : RefersTo(k)' = RefersTo(k)
         /\ \A cs : ImagesOf(cs)' = ImagesOf(cs)
  BY DEF Present, RefersTo, ImagesOf

LEMMA IdleTyped ==
  /\ Idle \in Jobs
  /\ Idle.step = "idle" /\ Idle.image = None /\ Idle.doomed = {} /\ Idle.clip = None
  /\ Idle.kind = "create" /\ Idle.seen = None
  BY DEF Idle, Jobs, ImageOrNone

\* What a worker has to remove, and nothing else, is what it goes on with.
LEMMA RemoveEffect ==
  ASSUME TypeOK, NEW w \in Workers, NEW is \in SUBSET Images, Remove(w, is)
  PROVE  \E j \in Jobs :
           /\ Goto(w, j)
           /\ j.image = None /\ j.doomed = is
           /\ j.step \in {"idle", "sweep"}
           /\ is # {} => j.step = "sweep"
<1> DEFINE j == IF is = {} THEN Idle ELSE [Idle EXCEPT !.step = "sweep", !.doomed = is]
<1>1. j \in Jobs /\ j.image = None /\ j.doomed = is
  BY IdleTyped DEF Jobs, Idle
<1>2. j.step \in {"idle", "sweep"} /\ (is # {} => j.step = "sweep")
  BY DEF Idle
<1> QED
  BY <1>1, <1>2 DEF Remove

\* After an error a request goes on with its own upload, if it has one.
LEMMA OnErrorEffect ==
  ASSUME TypeOK, NEW w \in Workers, WorkerOK(w), OnError(w)
  PROVE  \E j \in Jobs :
           /\ Goto(w, j)
           /\ j.image = job[w].image /\ j.doomed = {}
           /\ j.image # None =>
                j.step = "cleanup" /\ j.kind = job[w].kind /\ j.clip = job[w].clip
           /\ j.image = None => j.step = "idle"
<1> DEFINE j == IF job[w].image = None THEN Idle ELSE [job[w] EXCEPT !.step = "cleanup"]
<1>1. job[w] \in Jobs
  BY DEF TypeOK
<1>2. job[w].image # None => job[w].doomed = {}
  BY DEF WorkerOK, InHand, Doomed
<1>3. CASE job[w].image = None
  BY <1>3, IdleTyped DEF OnError
<1>4. CASE job[w].image # None
  BY <1>1, <1>2, <1>4 DEF OnError, Jobs
<1> QED
  BY <1>3, <1>4

-----------------------------------------------------------------------------
\* What a request may go on with: it keeps its upload or hands it on, and it takes
\* an image to remove only when nobody refers to it or is about to.
Allowed(w, j) ==
  /\ j.image \in {None, job[w].image}
  /\ j.image # None =>
       /\ j.kind = job[w].kind /\ j.clip = job[w].clip
       /\ j.step \in {"write", "open", "cleanup"}
       /\ j.step \in {"write", "open"} => j.step = job[w].step
       /\ tx[w].open => j.step \in {"open", "cleanup"}
  /\ j.image = None =>
       \/ job[w].image = None \/ job[w].image \in j.doomed \cup lost'
       \/ RefersTo(job[w].image) # {}
  /\ job[w].doomed \subseteq j.doomed \cup lost'
  /\ \A i \in j.doomed :
       /\ j.step = "sweep"
       /\ \/ i \in job[w].doomed
          \/ /\ RefersTo(i) = {} /\ object[i] # "none"
             /\ \A v \in Workers : ~(tx[v].open /\ tx[v].image = i)
             /\ \A v \in Workers \ {w} : job[v].image # i
  /\ j.step = "open" => job[w].step = "open" /\ j.image = job[w].image
  /\ j.step \in {"write", "upload"} => ~tx[w].open
  /\ j.step = "cleanup" => j.image # None
  /\ j.step = "upload" => j.kind \in {"create", "update"}
  /\ j.step \in {"upload", "write"} /\ j.kind # "create" => j.clip \in Clips
  /\ tx[w].open /\ j.step # "open" => tx[w].found \subseteq lost'

\* A step that replaces one job, and perhaps gives images up to the operators.
LEMMA JobStep ==
  ASSUME IInv, NEW w \in Workers, NEW j \in Jobs, Goto(w, j), Allowed(w, j),
         UNCHANGED <<object, row, tx, alive>>,
         lost \subseteq lost', lost' \subseteq Images
  PROVE  IInv'
<1> USE DEF RefersTo, Present, ImagesOf, Allowed
<1>0. TypeOK /\ \A v \in Workers : WorkerOK(v)
  BY DEF IInv
<1>1. TypeOK'
  BY <1>0, GotoEffect DEF TypeOK
<1>2. /\ job'[w] = j
      /\ \A v \in Workers \ {w} : job'[v] = job[v]
  BY <1>0, GotoEffect
<1>3. ReferencedStored' /\ OneReference'
  BY DEF IInv, ReferencedStored, OneReference
<1>4. NoLeak'
  <2> SUFFICES ASSUME NEW i \in Images, object[i] = "stored", RefersTo(i) = {}, i \notin lost'
               PROVE  \E v \in Workers : i = job'[v].image \/ i \in job'[v].doomed
    BY DEF NoLeak
  <2>1. PICK v \in Workers : i = job[v].image \/ i \in job[v].doomed
    BY DEF IInv, NoLeak
  <2> QED
    BY <1>2, <2>1
<1>5. ASSUME NEW v \in Workers PROVE WorkerOK(v)'
  <2>1. job'[v].image # None => InHand(v)'
    BY <1>0, <1>2 DEF WorkerOK, InHand, Keeps
  <2>2. Doomed(v)'
    BY <1>0, <1>2 DEF WorkerOK, Doomed
  <2>3. tx[v].open => Sound(v)'
    BY <1>0, <1>2 DEF WorkerOK, Sound, Keeps
  <2> QED
    BY <1>0, <1>2, <2>1, <2>2, <2>3 DEF WorkerOK
<1> QED
  BY <1>1, <1>3, <1>4, <1>5 DEF IInv

LEMMA StartCreateStep ==
  ASSUME IInv, NEW w \in Workers, StartCreate(w)
  PROVE  IInv'
<1> USE IdleTyped
<1>0. TypeOK /\ job[w] = Idle /\ ~tx[w].open /\ UNCHANGED <<object, row, tx, alive, lost>>
  BY DEF IInv, StartCreate
<1>1. PICK step \in ClipData : Goto(w, [Idle EXCEPT !.step = step])
  BY DEF StartCreate
<1> DEFINE j == [Idle EXCEPT !.step = step]
<1>2. j \in Jobs /\ Allowed(w, j)
  BY <1>0 DEF ClipData, Jobs, Allowed
<1> QED
  BY <1>0, <1>1, <1>2, JobStep DEF TypeOK

LEMMA StartUpdateStep ==
  ASSUME IInv, NEW w \in Workers, NEW c \in Clips, StartUpdate(w, c)
  PROVE  IInv'
<1> USE IdleTyped
<1>0. TypeOK /\ job[w] = Idle /\ ~tx[w].open /\ UNCHANGED <<object, row, tx, alive, lost>>
  BY DEF IInv, StartUpdate
<1>1. PICK kind \in {"update", "rename"}, step \in ClipData :
        /\ kind = "rename" => step = "write"
        /\ Goto(w, [Idle EXCEPT !.kind = kind, !.step = step, !.clip = c,
                                !.seen = row[c].image])
  BY DEF StartUpdate
<1> DEFINE j == [Idle EXCEPT !.kind = kind, !.step = step, !.clip = c,
                             !.seen = row[c].image]
<1>2. j \in Jobs /\ Allowed(w, j)
  BY <1>0, <1>1 DEF ClipData, Jobs, Allowed, TypeOK, Rows
<1> QED
  BY <1>0, <1>1, <1>2, JobStep DEF TypeOK

\* A refusal, a lost answer: the request sees an error, and its transaction, if there
\* is one, goes on without it.
LEMMA Errors ==
  ASSUME IInv, NEW w \in Workers, Refuse(w) \/ AnswerLost(w)
  PROVE  IInv'
<1>0. TypeOK /\ WorkerOK(w) /\ UNCHANGED <<object, row, tx, alive>>
  BY DEF IInv, Refuse, AnswerLost
<1>1. /\ job[w].step \in {"write", "open"} /\ OnError(w)
      /\ lost \subseteq lost' /\ lost' \subseteq Images
      /\ tx[w].open => tx[w].found \subseteq lost'
  BY <1>0 DEF Refuse, AnswerLost, TypeOK, Txs, WorkerOK
<1>2. PICK j \in Jobs :
        /\ Goto(w, j)
        /\ j.image = job[w].image /\ j.doomed = {}
        /\ j.image # None =>
             j.step = "cleanup" /\ j.kind = job[w].kind /\ j.clip = job[w].clip
        /\ j.image = None => j.step = "idle"
  BY <1>0, <1>1, OnErrorEffect
<1>3. Allowed(w, j)
  BY <1>0, <1>1, <1>2 DEF Allowed, WorkerOK, Doomed
<1> QED
  BY <1>0, <1>1, <1>2, <1>3, JobStep

\* A request that has seen an error removes its upload only when no row refers to it
\* and no transaction that it may have left behind still can.
LEMMA CheckReferenceStep ==
  ASSUME IInv, NEW w \in Workers, CheckReference(w)
  PROVE  IInv'
<1> DEFINE is == IF Unreferenced(w) THEN {job[w].image} ELSE {}
<1>0. TypeOK /\ WorkerOK(w) /\ UNCHANGED <<object, row, tx, alive, lost>>
  BY DEF IInv, CheckReference
<1>1. job[w].image \in Images /\ InHand(w) /\ job[w].step = "cleanup"
  BY <1>0 DEF CheckReference, WorkerOK, TypeOK, Jobs, ImageOrNone
<1>2. PICK j \in Jobs :
        /\ Goto(w, j)
        /\ j.image = None /\ j.doomed = is
        /\ j.step \in {"idle", "sweep"}
        /\ is # {} => j.step = "sweep"
  BY <1>0, <1>1, RemoveEffect DEF CheckReference
<1>3. ~tx[w].open \/ tx[w].found \subseteq lost
  BY <1>0, <1>1 DEF WorkerOK, Sound
<1>4. job[w].doomed = {}
  BY <1>0, <1>1 DEF WorkerOK, Doomed
<1>5. CASE Unreferenced(w)
  <2>1. RefersTo(job[w].image) = {}
    BY <1>1, <1>5 DEF Unreferenced, InHand
  <2>2. ASSUME NEW v \in Workers, tx[v].open, tx[v].image = job[w].image PROVE FALSE
    BY <1>1, <2>1, <2>2
    DEF InHand, Keeps, CheckReference, WritersDone, SubscriptionFree, ClipsFree, RefersTo
  <2>3. Allowed(w, j)
    BY <1>1, <1>2, <1>3, <1>4, <1>5, <2>1, <2>2, <1>0 DEF Allowed, InHand
  <2> QED
    BY <1>0, <1>2, <2>3, JobStep DEF TypeOK
<1>6. CASE ~Unreferenced(w)
  <2>1. RefersTo(job[w].image) # {}
    BY <1>6 DEF Unreferenced
  <2>2. Allowed(w, j)
    BY <1>2, <1>3, <1>4, <1>6, <2>1, <1>0 DEF Allowed
  <2> QED
    BY <1>0, <1>2, <2>2, JobStep DEF TypeOK
<1> QED
  BY <1>5, <1>6

\* A failed check and a crash leave to the operators whatever was in hand.
LEMMA GiveUp ==
  ASSUME IInv, NEW w \in Workers, CheckFails(w) \/ Crash(w)
  PROVE  IInv'
<1>0. TypeOK /\ WorkerOK(w) /\ Goto(w, Idle) /\ UNCHANGED <<object, row, tx, alive>>
  BY DEF IInv, CheckFails, Crash
<1>1. job[w] \in Jobs /\ tx[w] \in Txs /\ lost \subseteq Images
  BY <1>0 DEF TypeOK
<1>2. CASE CheckFails(w)
  <2>1. /\ job[w].step = "cleanup" /\ job[w].image # None /\ job[w].doomed = {}
        /\ lost' = lost \cup {job[w].image}
    BY <1>0, <1>2 DEF CheckFails, WorkerOK, Doomed
  <2>2. ~tx[w].open \/ tx[w].found \subseteq lost
    BY <1>0, <2>1 DEF WorkerOK, Sound
  <2>3. Allowed(w, Idle)
    BY <2>1, <2>2, IdleTyped DEF Allowed
  <2> QED
    BY <1>0, <1>1, <2>1, <2>3, IdleTyped, JobStep DEF Jobs, ImageOrNone
<1>3. CASE Crash(w)
  <2>1. lost' = lost \cup job[w].doomed \cup ({job[w].image} \ {None}) \cup tx[w].found
    BY <1>3 DEF Crash
  <2>2. lost' \subseteq Images
    BY <1>1, <2>1 DEF Jobs, Txs, ImageOrNone
  <2>3. Allowed(w, Idle)
    BY <2>1, IdleTyped DEF Allowed
  <2> QED
    BY <1>0, <2>1, <2>2, <2>3, IdleTyped, JobStep
<1> QED
  BY <1>2, <1>3

-----------------------------------------------------------------------------
\* The storage: an upload, one that fails, a removal.
LEMMA UploadStep ==
  ASSUME IInv, NEW w \in Workers, NEW i \in Images, Upload(w, i)
  PROVE  IInv'
<1> USE DEF RefersTo, Present, ImagesOf
<1>0. /\ TypeOK /\ \A v \in Workers : WorkerOK(v)
      /\ job[w] \in Jobs /\ UNCHANGED <<row, tx, alive, lost>>
      /\ job[w].step = "upload" /\ job[w].image = None /\ job[w].doomed = {}
      /\ object[i] = "none" /\ object' = [object EXCEPT ![i] = "stored"]
      /\ i # None
  BY ImagesAssumption DEF IInv, Upload, TypeOK, WorkerOK, InHand, Doomed
<1>1. PICK j \in Jobs :
        /\ Goto(w, j)
        /\ j.image = i /\ j.step = "write" /\ j.doomed = {}
        /\ j.kind = job[w].kind /\ j.clip = job[w].clip
  <2> DEFINE j == [job[w] EXCEPT !.step = "write", !.image = i]
  <2>1. j \in Jobs
    BY <1>0 DEF Jobs, ImageOrNone
  <2>2. /\ j.image = i /\ j.step = "write" /\ j.doomed = {}
        /\ j.kind = job[w].kind /\ j.clip = job[w].clip
    BY <1>0 DEF Jobs
  <2> QED
    BY <2>1, <2>2 DEF Upload
<1>2. job' \in [Workers -> Jobs] /\ job'[w] = j /\ \A v \in Workers \ {w} : job'[v] = job[v]
  BY <1>0, <1>1, GotoEffect
<1>3. /\ job'[w].image = i /\ job'[w].step = "write" /\ job'[w].doomed = {}
      /\ job'[w].kind = job[w].kind /\ job'[w].clip = job[w].clip
  BY <1>1, <1>2
<1>4. object'[i] = "stored" /\ \A k \in Images \ {i} : object'[k] = object[k]
  BY <1>0 DEF TypeOK
<1>5. TypeOK'
  BY <1>0, <1>2 DEF TypeOK
<1>6. RefersTo(i) = {} /\ \A v \in Workers : i \notin job[v].doomed /\ job[v].image # i
  BY <1>0 DEF IInv, ReferencedStored, WorkerOK, Doomed, InHand, RefersTo
<1>7. \A v \in Workers : tx[v].open => tx[v].image # i
  BY <1>0 DEF WorkerOK, Sound
<1>8. ReferencedStored' /\ OneReference'
  BY <1>0, <1>4 DEF IInv, ReferencedStored, OneReference, TypeOK, Rows, ImageOrNone
<1>9. NoLeak'
  <2> SUFFICES ASSUME NEW k \in Images, object'[k] = "stored", RefersTo(k) = {}, k \notin lost
               PROVE  \E v \in Workers : k = job'[v].image \/ k \in job'[v].doomed
    BY <1>0 DEF NoLeak
  <2>1. k = i \/ \E v \in Workers : k = job[v].image \/ k \in job[v].doomed
    BY <1>4 DEF IInv, NoLeak
  <2> QED
    BY <1>0, <1>2, <1>3, <2>1, ImagesAssumption
<1>10. ASSUME NEW v \in Workers PROVE WorkerOK(v)'
  <2>0. /\ job[v].image \in ImageOrNone /\ job[v].doomed \subseteq Images
        /\ tx[v].image \in ImageOrNone
    BY <1>0 DEF TypeOK, Jobs, Txs
  <2>1. CASE v = w
    <3>1. InHand(w)'
      BY <1>0, <1>2, <1>3, <1>4, <1>6, <1>7, ImagesAssumption DEF WorkerOK, InHand, Keeps
    <3>2. Doomed(w)' /\ ~tx[w].open
      BY <1>0, <1>3 DEF WorkerOK, Doomed
    <3> QED
      BY <1>0, <1>3, <2>1, <3>1, <3>2 DEF WorkerOK
  <2>2. CASE v # w
    <3>1. job[v].image # None => InHand(v)'
      BY <1>0, <1>2, <1>3, <1>4, <1>6, <2>0, <2>2
      DEF WorkerOK, InHand, Keeps, ImageOrNone
    <3>2. Doomed(v)'
      BY <1>0, <1>2, <1>4, <1>6, <2>0, <2>2 DEF WorkerOK, Doomed
    <3>3. tx[v].open => Sound(v)'
      BY <1>0, <1>2, <1>4, <1>7, <2>0, <2>2 DEF WorkerOK, Sound, Keeps, ImageOrNone
    <3> QED
      BY <1>0, <1>2, <2>2, <3>1, <3>2, <3>3 DEF WorkerOK
  <2> QED
    BY <2>1, <2>2
<1> QED
  BY <1>5, <1>8, <1>9, <1>10 DEF IInv

LEMMA UploadFailsStep ==
  ASSUME IInv, NEW w \in Workers, UploadFails(w)
  PROVE  IInv'
<1> USE DEF RefersTo, Present, ImagesOf
<1>0. /\ TypeOK /\ \A v \in Workers : WorkerOK(v)
      /\ job[w].step = "upload" /\ job[w].image = None /\ job[w].doomed = {}
      /\ ~tx[w].open
      /\ Goto(w, Idle) /\ UNCHANGED <<row, tx, alive>>
  BY DEF IInv, UploadFails, WorkerOK, InHand, Doomed
<1>1. CASE UNCHANGED <<object, lost>>
  <2>1. Allowed(w, Idle)
    BY <1>0, IdleTyped DEF Allowed
  <2> QED
    BY <1>0, <1>1, <2>1, IdleTyped, JobStep DEF TypeOK
<1>2. ASSUME NEW i \in Images, object[i] = "none", lost' = lost \cup {i},
             object' = [object EXCEPT ![i] = "stored"]
      PROVE  IInv'
  <2>1. /\ job' \in [Workers -> Jobs] /\ job'[w] = Idle
        /\ \A v \in Workers \ {w} : job'[v] = job[v]
    BY <1>0, GotoEffect, IdleTyped
  <2>2. TypeOK'
    BY <1>0, <1>2, <2>1 DEF TypeOK
  <2>3. ReferencedStored' /\ OneReference'
    BY <1>0, <1>2 DEF IInv, ReferencedStored, OneReference, TypeOK, Rows, ImageOrNone
  <2>4. NoLeak'
    <3> SUFFICES ASSUME NEW k \in Images, object'[k] = "stored", RefersTo(k) = {},
                        k \notin lost'
                 PROVE  \E v \in Workers : k = job'[v].image \/ k \in job'[v].doomed
      BY <1>0 DEF NoLeak
    <3>1. object[k] = "stored" /\ k \notin lost
      BY <1>0, <1>2 DEF TypeOK
    <3>2. PICK v \in Workers : k = job[v].image \/ k \in job[v].doomed
      BY <3>1 DEF IInv, NoLeak
    <3> QED
      BY <1>0, <2>1, <3>2, ImagesAssumption
  <2>5. ASSUME NEW v \in Workers PROVE WorkerOK(v)'
    <3>1. job'[v].image # None => InHand(v)'
      BY <1>0, <1>2, <2>1, IdleTyped DEF WorkerOK, InHand, Keeps, TypeOK
    <3>2. Doomed(v)'
      BY <1>0, <1>2, <2>1, IdleTyped DEF WorkerOK, Doomed, TypeOK
    <3>3. tx[v].open => Sound(v)'
      BY <1>0, <1>2, <2>1, IdleTyped DEF WorkerOK, Sound, Keeps, TypeOK
    <3> QED
      BY <1>0, <2>1, <3>1, <3>2, <3>3, IdleTyped DEF WorkerOK
  <2> QED
    BY <2>2, <2>3, <2>4, <2>5 DEF IInv
<1> QED
  BY <1>1, <1>2 DEF UploadFails

LEMMA DeleteStep ==
  ASSUME IInv, NEW w \in Workers, NEW i \in Images, Delete(w, i)
  PROVE  IInv'
<1> USE DEF RefersTo, Present, ImagesOf
<1> DEFINE is == job[w].doomed \ {i}
<1>0. /\ TypeOK /\ \A v \in Workers : WorkerOK(v)
      /\ job[w].step = "sweep" /\ i \in job[w].doomed /\ job[w].image = None
      /\ job[w].doomed \subseteq Images
      /\ UNCHANGED <<row, tx, alive>>
  BY DEF IInv, Delete, WorkerOK, InHand, TypeOK, Jobs
<1>1. PICK j \in Jobs :
        /\ Goto(w, j)
        /\ j.image = None /\ j.doomed = is
        /\ j.step \in {"idle", "sweep"}
        /\ is # {} => j.step = "sweep"
  BY <1>0, RemoveEffect DEF Delete
<1>2. ~tx[w].open \/ tx[w].found \subseteq lost
  BY <1>0 DEF WorkerOK, Sound
<1>3. RefersTo(i) = {} /\ \A v \in Workers : ~(tx[v].open /\ tx[v].image = i)
  BY <1>0 DEF WorkerOK, Doomed
<1>4. CASE lost' = lost \cup {i} /\ UNCHANGED object
  <2>1. Allowed(w, j)
    BY <1>0, <1>1, <1>2, <1>4 DEF Allowed
  <2> QED
    BY <1>0, <1>1, <1>4, <2>1, JobStep DEF TypeOK
<1>5. CASE object' = [object EXCEPT ![i] = "deleted"] /\ UNCHANGED lost
  <2>1. /\ job' \in [Workers -> Jobs] /\ job'[w] = j
        /\ \A v \in Workers \ {w} : job'[v] = job[v]
    BY <1>0, <1>1, GotoEffect
  <2>2. TypeOK'
    BY <1>0, <1>5, <2>1 DEF TypeOK
  <2>3. ReferencedStored' /\ OneReference'
    BY <1>0, <1>3, <1>5 DEF IInv, ReferencedStored, OneReference, TypeOK
  <2>4. NoLeak'
    BY <1>0, <1>1, <1>5, <2>1 DEF IInv, NoLeak, TypeOK
  <2>5. ASSUME NEW v \in Workers PROVE WorkerOK(v)'
    <3>1. job'[v].image # None => InHand(v)'
      BY <1>0, <1>1, <1>5, <2>1 DEF WorkerOK, InHand, Keeps, TypeOK
    <3>2. Doomed(v)'
      BY <1>0, <1>1, <1>5, <2>1 DEF WorkerOK, Doomed, TypeOK
    <3>3. tx[v].open => Sound(v)'
      BY <1>0, <1>1, <1>3, <1>5, <2>1 DEF WorkerOK, Sound, Keeps, TypeOK
    <3> QED
      BY <1>0, <1>1, <2>1, <3>1, <3>2, <3>3 DEF WorkerOK
  <2> QED
    BY <2>2, <2>3, <2>4, <2>5 DEF IInv
<1> QED
  BY <1>4, <1>5 DEF Delete

-----------------------------------------------------------------------------
\* A request opens a transaction that writes the rows of t: new ones, or ones of its
\* own whose images the transaction answers with.
Opens(w, t) ==
  /\ t.open /\ (t.sub => SubscriptionFree) /\ ClipsFree(t.rows)
  /\ ~t.sub => t.rows \subseteq Present
  /\ t.state = "gone" => t.image = None
  /\ t.image # None => t.sub /\ \E c \in Clips : t.rows = {c}
  /\ t.found \subseteq ImagesOf(t.rows \cap Present)
  /\ ImagesOf(t.rows \cap Present) \subseteq t.found \cup {t.image}
  /\ t.image \notin t.found
  /\ t.image = job[w].image \/ (job[w].image = None /\ Keeps(t, t.image))
  /\ job[w].kind = "update" => t.rows = {job[w].clip}

LEMMA OpenStep ==
  ASSUME IInv, NEW w \in Workers, NEW t \in Txs, NEW j \in Jobs,
         ~tx[w].open, job[w].step \in {"idle", "write"}, Opens(w, t),
         tx' = [tx EXCEPT ![w] = t], Goto(w, j),
         UNCHANGED <<object, row, alive, lost>>,
         j.step = "open" /\ j.image = job[w].image /\ j.doomed = {},
         job[w].doomed = {}, job[w].step = "idle" => job[w].image = None,
         j.image # None => j.kind = job[w].kind /\ j.clip = job[w].clip
  PROVE  IInv'
<1> USE ImagesAssumption DEF RefersTo, Present, ImagesOf
<1>0. /\ TypeOK /\ (\A v \in Workers : WorkerOK(v)) /\ ReferencedStored
  BY DEF IInv
<1>1. /\ job' \in [Workers -> Jobs] /\ job'[w] = j
      /\ \A v \in Workers \ {w} : job'[v] = job[v]
  BY <1>0, GotoEffect
<1>2. /\ tx' \in [Workers -> Txs] /\ tx'[w] = t
      /\ \A v \in Workers \ {w} : tx'[v] = tx[v]
  BY <1>0 DEF TypeOK
<1>3. TypeOK'
  BY <1>0, <1>1, <1>2 DEF TypeOK
<1>4. ReferencedStored' /\ OneReference'
  BY DEF IInv, ReferencedStored, OneReference
<1>5. NoLeak'
  <2> SUFFICES ASSUME NEW k \in Images, object[k] = "stored", RefersTo(k) = {}, k \notin lost
               PROVE  \E v \in Workers : k = job'[v].image \/ k \in job'[v].doomed
    BY DEF NoLeak
  <2>1. PICK v \in Workers : k = job[v].image \/ k \in job[v].doomed
    BY DEF IInv, NoLeak
  <2> QED
    BY <1>1, <2>1
<1>6. \A v \in Workers : t.image \in job[v].doomed => FALSE
  BY <1>0 DEF WorkerOK, Doomed, InHand, Keeps, Opens, TypeOK, Jobs
<1>7. /\ t.image # None => object[t.image] = "stored"
      /\ t.image # None => RefersTo(t.image) \subseteq t.rows
  BY <1>0 DEF WorkerOK, InHand, Keeps, Opens, IInv, ReferencedStored, OneReference
<1>8. ASSUME NEW v \in Workers PROVE WorkerOK(v)'
  <2>1. job'[v].image # None => InHand(v)'
    BY <1>0, <1>1, <1>2 DEF WorkerOK, InHand, Keeps, Opens
  <2>2. Doomed(v)'
    BY <1>0, <1>1, <1>2, <1>6 DEF WorkerOK, Doomed
  <2>3. tx'[v].open => Sound(v)'
    <3>1. CASE v = w
      BY <1>1, <1>2, <1>7, <3>1 DEF Sound, Keeps, Opens, SubscriptionFree, ClipsFree
    <3>2. CASE v # w
      BY <1>0, <1>1, <1>2, <3>2
      DEF WorkerOK, Sound, Keeps, Opens, SubscriptionFree, ClipsFree
    <3> QED
      BY <3>1, <3>2
  <2> QED
    BY <1>0, <1>1, <1>2, <2>1, <2>2, <2>3 DEF WorkerOK, Opens
<1> QED
  BY <1>3, <1>4, <1>5, <1>8 DEF IInv

LEMMA OpenCreateStep ==
  ASSUME IInv, NEW w \in Workers, NEW c \in Clips, OpenCreate(w, c)
  PROVE  IInv'
<1> DEFINE t == [NoTx EXCEPT !.sub = TRUE, !.rows = {c}, !.image = job[w].image,
                             !.open = TRUE]
           j == [job[w] EXCEPT !.step = "open"]
<1>0. TypeOK /\ WorkerOK(w) /\ job[w] \in Jobs
  BY DEF IInv, TypeOK
<1>1. /\ job[w].step = "write" /\ job[w].kind = "create" /\ ~tx[w].open
      /\ job[w].doomed = {} /\ c \notin Present /\ SubscriptionFree
      /\ tx' = [tx EXCEPT ![w] = t] /\ Goto(w, j)
      /\ UNCHANGED <<object, row, alive, lost>>
  BY <1>0 DEF OpenCreate, Open, WorkerOK, Doomed, Present
<1>2. t \in Txs /\ t.open /\ t.sub /\ t.rows = {c} /\ t.state = "active"
      /\ t.image = job[w].image /\ t.found = {}
  BY <1>0 DEF NoTx, Txs, Jobs
<1>3. /\ j \in Jobs /\ j.step = "open" /\ j.image = job[w].image /\ j.doomed = {}
      /\ j.kind = job[w].kind /\ j.clip = job[w].clip
  BY <1>0, <1>1 DEF Jobs
<1>4. ClipsFree({c})
  <2>1. ASSUME NEW v \in Workers, tx[v].open PROVE c \notin tx[v].rows
    <3>1. Sound(v) /\ ~tx[v].sub
      BY <1>1, <2>1 DEF IInv, WorkerOK, SubscriptionFree
    <3> QED
      BY <1>1, <3>1 DEF Sound
  <2> QED
    BY <2>1 DEF ClipsFree
<1>5. Opens(w, t)
  BY <1>1, <1>2, <1>4 DEF Opens, ImagesOf
<1> HIDE DEF t, j
<1> QED
  BY <1>1, <1>2, <1>3, <1>5, OpenStep

LEMMA OpenUpdateStep ==
  ASSUME IInv, NEW w \in Workers, OpenUpdate(w)
  PROVE  IInv'
<1> DEFINE c == job[w].clip
           renames == job[w].kind = "rename"
           t == [NoTx EXCEPT !.sub = TRUE, !.rows = {c}, !.image = NewImage(w),
                             !.found = IF renames THEN {} ELSE Previous(w),
                             !.open = TRUE]
           j == [job[w] EXCEPT !.step = "open"]
<1>0. TypeOK /\ WorkerOK(w) /\ job[w] \in Jobs
  BY DEF IInv, TypeOK
<1>1. /\ job[w].step = "write" /\ job[w].kind \in {"update", "rename"} /\ ~tx[w].open
      /\ job[w].doomed = {} /\ c \in Clips /\ c \in Present
      /\ SubscriptionFree /\ ClipsFree({c})
      /\ tx' = [tx EXCEPT ![w] = t] /\ Goto(w, j)
      /\ UNCHANGED <<object, row, alive, lost>>
  BY <1>0 DEF OpenUpdate, Open, WorkerOK, Doomed, Present
<1>2. row[c].image \in ImageOrNone /\ NewImage(w) \in ImageOrNone
  BY <1>0, <1>1 DEF TypeOK, Rows, Jobs, NewImage
<1>3. Previous(w) = {row[c].image} \ {None} /\ Previous(w) \subseteq Images
  BY <1>2 DEF Previous, ImagesOf, ImageOrNone
<1>4. /\ t \in Txs /\ t.open /\ t.sub /\ t.rows = {c} /\ t.state = "active"
      /\ t.image = NewImage(w) /\ t.found = IF renames THEN {} ELSE Previous(w)
  BY <1>1, <1>2, <1>3 DEF NoTx, Txs
<1>5. /\ j \in Jobs /\ j.step = "open" /\ j.image = job[w].image /\ j.doomed = {}
      /\ j.kind = job[w].kind /\ j.clip = job[w].clip
  BY <1>0, <1>1 DEF Jobs
<1>6. job[w].image # None => ~renames /\ RefersTo(job[w].image) = {}
  BY <1>0, <1>1 DEF WorkerOK, InHand
<1>7. CASE renames
  <2>1. job[w].image = None /\ NewImage(w) = row[c].image
    BY <1>6, <1>7 DEF NewImage
  <2>2. Opens(w, t)
    BY <1>1, <1>3, <1>4, <1>7, <2>1 DEF Opens, ImagesOf, Keeps
  <2> HIDE DEF t, j
  <2> QED
    BY <1>1, <1>4, <1>5, <2>2, OpenStep
<1>8. CASE ~renames
  <2>1. NewImage(w) = job[w].image /\ t.found = {row[c].image} \ {None}
    BY <1>3, <1>4, <1>8 DEF NewImage
  <2>2. t.image \notin t.found
    BY <1>1, <1>4, <1>6, <2>1 DEF RefersTo
  <2>3. Opens(w, t)
    BY <1>1, <1>4, <2>1, <2>2 DEF Opens, ImagesOf
  <2> HIDE DEF t, j
  <2> QED
    BY <1>1, <1>4, <1>5, <2>3, OpenStep
<1> QED
  BY <1>7, <1>8

LEMMA OpenDestroyStep ==
  ASSUME IInv, NEW w \in Workers, NEW cs \in SUBSET Clips, NEW sub \in BOOLEAN,
         OpenDestroy(w, cs, sub)
  PROVE  IInv'
<1> DEFINE t == [NoTx EXCEPT !.sub = sub, !.rows = cs, !.state = "gone",
                             !.found = ImagesOf(cs), !.open = TRUE]
           j == [Idle EXCEPT !.step = "open", !.kind = "destroy"]
<1>0. TypeOK /\ job[w] = Idle /\ ~tx[w].open
  BY DEF IInv, OpenDestroy
<1>1. /\ cs \subseteq Present /\ (sub => SubscriptionFree) /\ ClipsFree(cs)
      /\ tx' = [tx EXCEPT ![w] = t] /\ Goto(w, j)
      /\ UNCHANGED <<object, row, alive, lost>>
  BY DEF OpenDestroy, Open, Trash, Present
<1>2. ImagesOf(cs) \subseteq Images
  BY <1>0 DEF ImagesOf, TypeOK, Rows, ImageOrNone
<1>3. /\ t \in Txs /\ t.open /\ t.sub = sub /\ t.rows = cs /\ t.state = "gone"
      /\ t.image = None /\ t.found = ImagesOf(cs)
  BY <1>2 DEF NoTx, Txs, ImageOrNone
<1>4. j \in Jobs /\ j.step = "open" /\ j.image = None /\ j.doomed = {}
  BY IdleTyped DEF Jobs
<1>5. cs \cap Present = cs /\ None \notin ImagesOf(cs)
  BY <1>1 DEF ImagesOf
<1>6. Opens(w, t)
  BY <1>0, <1>1, <1>3, <1>5, IdleTyped DEF Opens
<1> HIDE DEF t, j
<1> QED
  BY <1>0, <1>1, <1>3, <1>4, <1>6, IdleTyped, OpenStep

-----------------------------------------------------------------------------
\* The end of a transaction.
LEMMA CommitStep ==
  ASSUME IInv, NEW w \in Workers, Commit(w)
  PROVE  IInv'
<1> USE ImagesAssumption DEF RefersTo, Present, ImagesOf
<1> DEFINE t == tx[w]
           answered == job[w].step = "open"
<1>0. /\ TypeOK /\ (\A v \in Workers : WorkerOK(v)) /\ ReferencedStored /\ OneReference
      /\ t.open /\ Sound(w) /\ t \in Txs /\ t.rows \subseteq Clips
      /\ UNCHANGED <<object, alive, lost>>
  BY DEF IInv, Commit, WorkerOK, TypeOK, Txs
<1>1. /\ tx' \in [Workers -> Txs] /\ ~tx'[w].open
      /\ \A v \in Workers \ {w} : tx'[v] = tx[v]
  BY <1>0 DEF TypeOK, Commit, NoTx, Txs, ImageOrNone
<1>2. /\ row' \in [Clips -> Rows]
      /\ \A c \in t.rows : row'[c].state = t.state /\ row'[c].image = t.image
      /\ \A c \in Clips \ t.rows : row'[c] = row[c]
  BY <1>0 DEF TypeOK, Commit, Written, Txs, Rows
<1>3. /\ job' \in [Workers -> Jobs]
      /\ \A v \in Workers \ {w} : job'[v] = job[v]
      /\ ~answered => job'[w] = job[w]
      /\ answered => /\ job'[w].image = None /\ job'[w].doomed = t.found
                     /\ job'[w].step \in {"idle", "sweep"}
                     /\ t.found # {} => job'[w].step = "sweep"
  <2>1. CASE answered
    <3>1. PICK j \in Jobs :
            /\ Goto(w, j)
            /\ j.image = None /\ j.doomed = t.found
            /\ j.step \in {"idle", "sweep"}
            /\ t.found # {} => j.step = "sweep"
      BY <1>0, <2>1, RemoveEffect DEF Commit, Txs
    <3> QED
      BY <1>0, <2>1, <3>1, GotoEffect
  <2>2. CASE ~answered
    BY <1>0, <2>2 DEF Commit, TypeOK
  <2> QED
    BY <2>1, <2>2
<1>4. TypeOK'
  BY <1>0, <1>1, <1>2, <1>3 DEF TypeOK
<1> HIDE DEF answered
<1>5. ReferencedStored'
  BY <1>0, <1>2 DEF ReferencedStored, Sound
<1>6. OneReference'
  BY <1>0, <1>2 DEF OneReference, Sound
<1>7. NoLeak'
  <2> SUFFICES ASSUME NEW k \in Images, object[k] = "stored", RefersTo(k)' = {}, k \notin lost
               PROVE  \E v \in Workers : k = job'[v].image \/ k \in job'[v].doomed
    BY <1>0 DEF NoLeak
  <2>1. t.image # k
    BY <1>0, <1>2 DEF Sound, Txs
  <2>2. CASE RefersTo(k) # {}
    <3>1. k \in ImagesOf(t.rows \cap Present)
      BY <1>2, <2>2
    <3>2. k \in t.found /\ answered
      BY <1>0, <2>1, <3>1 DEF Sound, answered
    <3> QED
      BY <1>3, <3>2
  <2>3. CASE RefersTo(k) = {}
    <3>1. PICK v \in Workers : k = job[v].image \/ k \in job[v].doomed
      BY <1>0, <2>3 DEF IInv, NoLeak
    <3>2. ~(v = w /\ answered)
      BY <1>0, <2>1, <3>1 DEF Sound, WorkerOK, Doomed, answered
    <3> QED
      BY <1>3, <3>1, <3>2
  <2> QED
    BY <2>2, <2>3
<1>8. ASSUME NEW v \in Workers PROVE WorkerOK(v)'
  <2>1. job'[v].image # None => InHand(v)'
    <3> SUFFICES ASSUME job'[v].image # None PROVE InHand(v)'
      OBVIOUS
    <3>1. job'[v] = job[v] /\ InHand(v) /\ ~(v = w /\ answered)
      BY <1>0, <1>3 DEF WorkerOK
    <3> DEFINE i == job[v].image
    <3>2. \A u \in Workers \ {w} : tx[u].open /\ Keeps(tx[u], i) => Keeps(tx[u], i)'
      <4> TAKE u \in Workers \ {w}
      <4>1. tx[u].open => t.rows \cap tx[u].rows = {}
        BY <1>0 DEF Sound
      <4> QED
        BY <1>0, <1>1, <1>2, <3>1, <4>1 DEF Keeps
    <3>3. \A u \in Workers : tx'[u].open /\ tx'[u].image = i =>
            \/ /\ u = v /\ tx[u].sub /\ job[v].step \in {"open", "cleanup"}
               /\ job[v].kind = "update" => tx[u].rows = {job[v].clip}
            \/ Keeps(tx[u], i)'
      BY <1>1, <3>1, <3>2 DEF InHand
    <3>4. CASE job[v].step \in {"write", "open"}
      <4>1. v # w
        BY <1>0, <3>1, <3>4 DEF WorkerOK, answered
      <4>2. RefersTo(i) = {} /\ t.image # i /\ i \notin t.found
        BY <1>0, <3>1, <3>4, <4>1 DEF InHand, Keeps, Sound
      <4>3. RefersTo(i)' = {} /\ \A u \in Workers : i \notin job'[u].doomed
        BY <1>2, <1>3, <3>1, <3>4, <4>2 DEF InHand
      <4> QED
        BY <1>0, <1>1, <1>3, <3>1, <3>3, <3>4, <4>3 DEF InHand
    <3>5. CASE job[v].step = "cleanup"
      <4>1. job[v].kind = "update" => RefersTo(i)' \subseteq {job[v].clip}
        BY <1>0, <1>2, <3>1 DEF InHand, Keeps, Sound
      <4> QED
        BY <1>0, <1>1, <1>3, <3>1, <3>3, <3>5, <4>1 DEF InHand
    <3> QED
      BY <3>1, <3>4, <3>5 DEF InHand
  <2>2. Doomed(v)'
    <3> SUFFICES ASSUME NEW i \in job'[v].doomed
                 PROVE  /\ job'[v].step = "sweep"
                        /\ RefersTo(i)' = {}
                        /\ object[i] # "none"
                        /\ \A u \in Workers : ~(tx'[u].open /\ tx'[u].image = i)
      BY <1>0 DEF Doomed
    <3>1. CASE v = w /\ answered
      <4>1. i \in t.found /\ i # t.image /\ i # None
        BY <1>0, <1>3, <3>1 DEF Sound, Txs
      <4>2. PICK c \in t.rows : c \in Present /\ row[c].image = i
        BY <1>0, <4>1 DEF Sound
      <4>3. RefersTo(i)' = {}
        BY <1>0, <1>2, <4>1, <4>2 DEF OneReference
      <4>4. ASSUME NEW u \in Workers, u # w, tx[u].open, tx[u].image = i PROVE FALSE
        BY <1>0, <4>1, <4>2, <4>4 DEF WorkerOK, Sound
      <4>5. object[i] # "none"
        BY <1>0, <4>1, <4>2 DEF ReferencedStored
      <4> QED
        BY <1>1, <1>3, <3>1, <4>3, <4>4, <4>5
    <3>2. CASE ~(v = w /\ answered)
      <4>1. job'[v] = job[v]
        BY <1>3, <3>2
      <4>2. RefersTo(i) = {} /\ t.image # i
        BY <1>0, <4>1 DEF WorkerOK, Doomed
      <4>3. RefersTo(i)' = {}
        BY <1>2, <4>2
      <4> QED
        BY <1>0, <1>1, <4>1, <4>3 DEF WorkerOK, Doomed
    <3> QED
      BY <3>1, <3>2
  <2>3. tx'[v].open => Sound(v)'
    <3> SUFFICES ASSUME tx'[v].open, v # w PROVE Sound(v)'
      BY <1>1
    <3>1. Sound(v) /\ tx'[v] = tx[v] /\ tx[v].open
      BY <1>0, <1>1 DEF WorkerOK
    <3>0. PICK s : s = tx[v]
      OBVIOUS
    <3>2. s.rows \cap t.rows = {} /\ s.rows \subseteq Clips
      BY <1>0, <3>0, <3>1 DEF Sound, TypeOK, Txs
    <3>3. s.rows \cap Present' = s.rows \cap Present
      BY <1>2, <3>2
    <3>4. ImagesOf(s.rows \cap Present)' = ImagesOf(s.rows \cap Present)
      BY <1>2, <3>2
    <3>5. Keeps(s, s.image) => Keeps(s, s.image)'
      BY <1>2, <3>2 DEF Keeps
    <3>6. s.image # None => t.image # s.image
      BY <1>0, <3>0, <3>1 DEF Sound
    <3>7. s.image # None => RefersTo(s.image)' \subseteq s.rows
      BY <1>2, <3>0, <3>1, <3>6 DEF Sound
    <3>8. job'[v] = job[v]
      BY <1>3
    <3>9. /\ \A u \in Workers \ {v} : tx'[u].open => /\ ~(s.sub /\ tx'[u].sub)
                                                   /\ s.rows \cap tx'[u].rows = {}
          /\ ~s.sub => s.rows \subseteq Present'
          /\ s.image # None => object'[s.image] = "stored"
      BY <1>0, <1>1, <3>0, <3>1, <3>3 DEF Sound
    <3>10. /\ s.found \subseteq ImagesOf(s.rows \cap Present)'
           /\ ImagesOf(s.rows \cap Present)' \subseteq s.found \cup {s.image}
      BY <3>0, <3>1, <3>4 DEF Sound
    <3>11. /\ job'[v].step = "open" =>
                s.image = job'[v].image \/ (job'[v].image = None /\ Keeps(s, s.image)')
           /\ job'[v].step # "open" => s.found \subseteq lost'
      BY <1>0, <3>0, <3>1, <3>5, <3>8 DEF Sound
    <3> HIDE DEF RefersTo, Present, ImagesOf
    <3> QED
      BY <3>0, <3>1, <3>7, <3>9, <3>10, <3>11 DEF Sound
  <2> QED
    BY <1>0, <1>1, <1>3, <2>1, <2>2, <2>3 DEF WorkerOK, answered
<1> QED
  BY <1>4, <1>5, <1>6, <1>7, <1>8 DEF IInv

\* A transaction that is rolled back: the request goes on with its upload.
LEMMA AbortStep ==
  ASSUME IInv, NEW w \in Workers, Abort(w)
  PROVE  IInv'
<1> USE ImagesAssumption DEF RefersTo, Present, ImagesOf
<1> DEFINE answered == job[w].step = "open"
<1>0. /\ TypeOK /\ (\A v \in Workers : WorkerOK(v))
      /\ tx[w].open /\ Sound(w)
      /\ UNCHANGED <<object, row, alive, lost>>
  BY DEF IInv, Abort, WorkerOK
<1>1. /\ tx' \in [Workers -> Txs] /\ ~tx'[w].open
      /\ \A v \in Workers \ {w} : tx'[v] = tx[v]
  BY <1>0 DEF TypeOK, Abort, NoTx, Txs, ImageOrNone
<1>2. /\ job' \in [Workers -> Jobs]
      /\ \A v \in Workers \ {w} : job'[v] = job[v]
      /\ ~answered => job'[w] = job[w]
      /\ answered => /\ job'[w].image = job[w].image
                     /\ job'[w].doomed = {} /\ job[w].doomed = {}
                     /\ job'[w].image = None => job'[w].step = "idle"
                     /\ job'[w].image # None =>
                          /\ job'[w].step = "cleanup"
                          /\ job'[w].kind = job[w].kind /\ job'[w].clip = job[w].clip
  <2>1. CASE answered
    <3>1. OnError(w) /\ job[w].doomed = {}
      BY <1>0, <2>1 DEF Abort, WorkerOK, Doomed
    <3>2. PICK j \in Jobs :
            /\ Goto(w, j)
            /\ j.image = job[w].image /\ j.doomed = {}
            /\ j.image # None =>
                 j.step = "cleanup" /\ j.kind = job[w].kind /\ j.clip = job[w].clip
            /\ j.image = None => j.step = "idle"
      BY <1>0, <3>1, OnErrorEffect
    <3> QED
      BY <1>0, <2>1, <3>1, <3>2, GotoEffect
  <2>2. CASE ~answered
    BY <1>0, <2>2 DEF Abort, TypeOK
  <2> QED
    BY <2>1, <2>2
<1>3. TypeOK'
  BY <1>0, <1>1, <1>2 DEF TypeOK
<1> HIDE DEF answered
<1>4. ReferencedStored' /\ OneReference'
  BY <1>0 DEF IInv, ReferencedStored, OneReference
<1>5. NoLeak'
  <2> SUFFICES ASSUME NEW k \in Images, object[k] = "stored", RefersTo(k) = {}, k \notin lost
               PROVE  \E v \in Workers : k = job'[v].image \/ k \in job'[v].doomed
    BY <1>0 DEF NoLeak
  <2>1. PICK v \in Workers : k = job[v].image \/ k \in job[v].doomed
    BY DEF IInv, NoLeak
  <2> QED
    BY <1>2, <2>1
<1>6. ASSUME NEW v \in Workers PROVE WorkerOK(v)'
  <2>1. job'[v].image # None => InHand(v)'
    <3>1. CASE v = w /\ answered
      BY <1>0, <1>1, <1>2, <3>1 DEF WorkerOK, InHand, Keeps
    <3>2. CASE ~(v = w /\ answered)
      BY <1>0, <1>1, <1>2, <3>2 DEF WorkerOK, InHand, Keeps
    <3> QED
      BY <3>1, <3>2
  <2>2. Doomed(v)'
    BY <1>0, <1>1, <1>2 DEF WorkerOK, Doomed
  <2>3. tx'[v].open => Sound(v)'
    BY <1>0, <1>1, <1>2 DEF WorkerOK, Sound, Keeps
  <2> QED
    BY <1>0, <1>1, <1>2, <2>1, <2>2, <2>3 DEF WorkerOK, answered
<1> QED
  BY <1>3, <1>4, <1>5, <1>6 DEF IInv

-----------------------------------------------------------------------------
\* A clip goes to the trash or comes back: it keeps its image.
LEMMA MoveStep ==
  ASSUME IInv, NEW c \in Clips, Move(c)
  PROVE  IInv'
<1>0. TypeOK /\ UNCHANGED <<object, job, tx, alive, lost>>
  BY DEF IInv, Move
<1>1. /\ row' \in [Clips -> Rows]
      /\ \A d \in Clips : row'[d].image = row[d].image
  BY <1>0 DEF Move, TypeOK, Rows
<1>2. Present' = Present
  BY <1>0 DEF Move, TypeOK, Rows, Present
<1>3. \A k : RefersTo(k)' = RefersTo(k)
  BY <1>1, <1>2 DEF RefersTo, Present
<1>4. \A cs \in SUBSET Clips : ImagesOf(cs)' = ImagesOf(cs)
  BY <1>1 DEF ImagesOf
<1>5. TypeOK'
  BY <1>0, <1>1 DEF TypeOK
<1>6. ReferencedStored' /\ OneReference' /\ NoLeak'
  BY <1>0, <1>1, <1>2 DEF IInv, ReferencedStored, OneReference, NoLeak, RefersTo, Present
<1>7. ASSUME NEW w \in Workers PROVE WorkerOK(w)'
  <2>0. WorkerOK(w) /\ tx[w].rows \subseteq Clips
    BY <1>0 DEF IInv, TypeOK, Txs
  <2>1. job[w].image # None => InHand(w)'
    BY <1>0, <1>1, <1>2, <2>0 DEF WorkerOK, InHand, Keeps, RefersTo, Present
  <2>2. Doomed(w)'
    BY <1>0, <1>1, <1>2, <2>0 DEF WorkerOK, Doomed, RefersTo, Present
  <2>3. tx[w].open => Sound(w)'
    BY <1>0, <1>1, <1>2, <2>0 DEF WorkerOK, Sound, Keeps, RefersTo, Present, ImagesOf
  <2> QED
    BY <1>0, <2>0, <2>1, <2>2, <2>3 DEF WorkerOK
<1> QED
  BY <1>5, <1>6, <1>7 DEF IInv

\* The account is deleted: no transaction of it runs, and its images are left over.
LEMMA DeleteAccountStep ==
  ASSUME IInv, DeleteAccount
  PROVE  IInv'
<1>0. /\ TypeOK /\ UNCHANGED <<object, job, tx>>
      /\ \A w \in Workers : ~tx[w].open
      /\ row' = [c \in Clips |-> [state |-> "gone", image |-> None]]
      /\ lost' = lost \cup ImagesOf(Present)
  BY DEF IInv, DeleteAccount
<1>1. Present' = {} /\ row' \in [Clips -> Rows]
  BY <1>0 DEF Present, Rows, ImageOrNone
<1>2. \A k : RefersTo(k)' = {}
  BY <1>1 DEF RefersTo
<1>3. TypeOK'
  BY <1>0, <1>1 DEF TypeOK, DeleteAccount, ImagesOf, Rows, ImageOrNone, Present
<1>4. ReferencedStored' /\ OneReference'
  BY <1>1 DEF ReferencedStored, OneReference
<1>5. NoLeak'
  <2> SUFFICES ASSUME NEW k \in Images, object[k] = "stored", k \notin lost'
               PROVE  \E v \in Workers : k = job[v].image \/ k \in job[v].doomed
    BY <1>0 DEF NoLeak
  <2>1. RefersTo(k) = {}
    BY <1>0, ImagesAssumption DEF RefersTo, ImagesOf
  <2> QED
    BY <1>0, <2>1 DEF IInv, NoLeak
<1>6. ASSUME NEW w \in Workers PROVE WorkerOK(w)'
  BY <1>0, <1>1 DEF IInv, WorkerOK, InHand, Doomed, RefersTo
<1> QED
  BY <1>3, <1>4, <1>5, <1>6 DEF IInv

-----------------------------------------------------------------------------
\* Nothing is stored and nothing under way when the first request arrives.
LEMMA Initially == Init => IInv
<1> SUFFICES ASSUME Init PROVE IInv
  OBVIOUS
<1>1. TypeOK
  BY DEF Init, TypeOK, Rows, ImageOrNone, Idle, Jobs, NoTx, Txs
<1>2. Present = {}
  BY DEF Init, Present
<1>3. ReferencedStored /\ OneReference /\ NoLeak
  BY <1>2 DEF Init, ReferencedStored, OneReference, NoLeak
<1>4. \A w \in Workers : WorkerOK(w)
  BY DEF Init, WorkerOK, Idle, NoTx, Doomed
<1> QED
  BY <1>1, <1>3, <1>4 DEF IInv

LEMMA Step == IInv /\ [Next]_vars => IInv'
<1> SUFFICES ASSUME IInv, [Next]_vars PROVE IInv'
  OBVIOUS
<1>1. ASSUME NEW w \in Workers, Request(w) PROVE IInv'
  <2>1. ASSUME NEW c \in Clips, StartUpdate(w, c) PROVE IInv'
    BY <2>1, StartUpdateStep
  <2>2. CASE StartCreate(w)
    BY <2>2, StartCreateStep
  <2>3. ASSUME NEW cs \in SUBSET Clips, DeleteTrashItems(w, cs) \/ PurgeExpired(w, cs)
        PROVE  IInv'
    BY <2>3, OpenDestroyStep DEF DeleteTrashItems, PurgeExpired
  <2>4. CASE DeleteAllTrashItems(w)
    BY <2>4, OpenDestroyStep DEF DeleteAllTrashItems, Trash
  <2> QED
    BY <1>1, <2>1, <2>2, <2>3, <2>4, OpenCreateStep, UploadStep, DeleteStep,
       UploadFailsStep, OpenUpdateStep, Errors, CheckReferenceStep, GiveUp DEF Request
<1>2. ASSUME NEW w \in Workers, Ends(w) PROVE IInv'
  BY <1>2, CommitStep, AbortStep, Errors, GiveUp DEF Ends
<1>3. CASE UNCHANGED vars
  BY <1>3 DEF vars, IInv, TypeOK, ReferencedStored, OneReference, NoLeak, WorkerOK, InHand,
     Doomed, Sound, Keeps, RefersTo, Present, ImagesOf
<1> QED
  BY <1>1, <1>2, <1>3, MoveStep, DeleteAccountStep DEF Next

\* The inductive invariant holds in every reachable state, for any numbers of images,
\* clips and requests: what a request holds, what it will remove and what its
\* transaction will write never get in each other's way.
THEOREM Invariance == Spec => []IInv
<1>1. Init => IInv
  BY Initially
<1>2. IInv /\ [Next]_vars => IInv'
  BY Step
<1> QED
  BY <1>1, <1>2, PTL DEF Spec

\* Every object, row, request and transaction keeps its type.
THEOREM TypeCorrect == Spec => []TypeOK
<1>1. IInv => TypeOK
  BY DEF IInv
<1> QED
  BY <1>1, Invariance, PTL

\* No clip, in the trash or not, ever refers to an image that was removed.
THEOREM ReferencedAlwaysStored == Spec => []ReferencedStored
<1>1. IInv => ReferencedStored
  BY DEF IInv
<1> QED
  BY <1>1, Invariance, PTL

\* Only failures leave an object behind that nothing refers to.
THEOREM NeverLeaks == Spec => []NoLeak
<1>1. IInv => NoLeak
  BY DEF IInv
<1> QED
  BY <1>1, Invariance, PTL

=============================================================================
