-------------------------- MODULE FolderOrderProofs --------------------------
(***************************************************************************)
(* Theorems about FolderOrder, for every value of its constants: whatever  *)
(* requests run at the same time, a folder that is moved lands on the side *)
(* of its reference that was asked for, and requests that do not overlap   *)
(* implement the list that the user sees.                                  *)
(***************************************************************************)
EXTENDS FolderOrder, WellFoundedInduction, TLAPS

\* A set of natural numbers that is not empty has a least one.
LEMMA LeastNatural ==
  ASSUME NEW s \in SUBSET Nat, s # {}
  PROVE  \E x \in s : \A y \in s : y >= x
<1>1. PICK x \in s : \A y \in s : ~(<<y, x>> \in OpToRel(<, Nat))
  BY WFMin, NatLessThanWellFounded, Zenon
<1>2. \A y \in s : ~(y < x)
  BY <1>1 DEF OpToRel
<1> QED
  BY <1>2

\* A set of orders has a least and a greatest element.
LEMMA OrderEnds ==
  ASSUME NEW s \in SUBSET Orders, s # {}
  PROVE  /\ MinOf(s) \in s /\ \A y \in s : y >= MinOf(s)
         /\ MaxOf(s) \in s /\ \A y \in s : y <= MaxOf(s)
<1>0. Low \in Nat /\ High \in Nat
  BY OrderAssumption
<1>1. \E x \in s : \A y \in s : y >= x
  <2> DEFINE t == {y + Low : y \in s}
  <2>1. t \in SUBSET Nat /\ t # {}
    BY <1>0 DEF Orders
  <2>2. PICK x \in t : \A y \in t : y >= x
    BY <2>1, LeastNatural
  <2>3. PICK z \in s : x = z + Low
    BY <2>2
  <2>4. \A y \in s : y + Low >= z + Low
    BY <2>2, <2>3
  <2> QED
    BY <1>0, <2>4 DEF Orders
<1>2. \E x \in s : \A y \in s : y <= x
  <2> DEFINE t == {High - y : y \in s}
  <2>1. t \in SUBSET Nat /\ t # {}
    BY <1>0 DEF Orders
  <2>2. PICK x \in t : \A y \in t : y >= x
    BY <2>1, LeastNatural
  <2>3. PICK z \in s : x = High - z
    BY <2>2
  <2>4. \A y \in s : High - y >= High - z
    BY <2>2, <2>3
  <2> QED
    BY <1>0, <2>4 DEF Orders
<1> QED
  BY <1>1, <1>2 DEF MinOf, MaxOf

-----------------------------------------------------------------------------
Steps == {"reference", "neighbour", "move"}
CreateReqs == [step : {"create"}, order : Orders, ref : {None}, stale : BOOLEAN,
               written : SUBSET Folders]
MoveReqs == [step : Steps, target : Folders, targetOrder : Orders \cup {None},
             ref : Folders, before : BOOLEAN, order : Orders \cup {None},
             gap : {"open", "zero", "closed"}, stale : BOOLEAN, written : SUBSET Folders]

TypeOK ==
  /\ folder \in [Folders -> Rows]
  /\ req \in [Workers -> {Idle} \cup CreateReqs \cup MoveReqs]

(* The side of the reference that request r asks for.                       *)
OnSide(r, reference) == IF r.before THEN r.order < reference ELSE r.order > reference

(* Folder f is not between the number that r computed and its reference.    *)
Apart(r, f) ==
  IF r.before THEN folder[f].order < r.order \/ folder[f].order >= folder[r.ref].order
  ELSE folder[f].order > r.order \/ folder[f].order <= folder[r.ref].order

(* What a request has read of a folder holds until somebody writes it.      *)
Placed(r) ==
  /\ r.step = "create" => \A f \in Kept(r) : folder[f].order < r.order
  /\ r.step = "neighbour" => r.order \in Orders
  /\ r.step = "neighbour" /\ r.ref \notin r.written => r.order = folder[r.ref].order
  /\ r.step = "move" => r.order \in Orders
  /\ r.step = "move" /\ r.ref \notin r.written =>
       /\ r.gap # "closed" => OnSide(r, folder[r.ref].order)
       /\ r.gap = "open" => \A f \in Kept(r) \ {r.target} : Apart(r, f)

IInv == TypeOK /\ \A w \in Workers : Placed(req[w])

-----------------------------------------------------------------------------
\* The nearest order on the asked side is an order on that side.
LEMMA NearestBeyond ==
  ASSUME TypeOK, NEW r \in MoveReqs, r.order \in Orders, Nearest(r) # None
  PROVE  /\ Nearest(r) \in Orders
         /\ IF r.before THEN Nearest(r) < r.order ELSE Nearest(r) > r.order
<1> DEFINE fs == {f \in Active \ {r.target} : Beyond(r, f)}
           s == OrdersOf(fs)
<1>1. s # {}
  BY DEF Nearest
<1>2. s \in SUBSET Orders
  BY DEF OrdersOf, Active, TypeOK, Rows
<1>3. \A x \in s : IF r.before THEN x < r.order ELSE x > r.order
  BY DEF OrdersOf, Beyond
<1>4. MinOf(s) \in s /\ MaxOf(s) \in s
  <2> HIDE DEF s
  <2> QED
    BY <1>1, <1>2, OrderEnds
<1>5. Nearest(r) \in s
  BY <1>1, <1>4 DEF Nearest
<1> QED
  BY <1>2, <1>3, <1>5

\* Unless the gap is exhausted or zero was taken for no neighbour, the number that is
\* computed is on the asked side of the reference.
LEMMA ComputedOnSide ==
  ASSUME TypeOK, NEW r \in MoveReqs, r.order \in Orders,
         NEW o \in NewOrders(r, Nearest(r)), Gap(r, Nearest(r)) # "closed"
  PROVE  IF r.before THEN o < r.order ELSE o > r.order
<1> DEFINE n == Nearest(r)
<1>0. Unit \in Nat /\ Unit > 0 /\ r.order \in Int
  BY OrderAssumption DEF Orders
<1>1. CASE Absent(n)
  BY <1>0, <1>1 DEF NewOrders
<1>2. CASE ~Absent(n)
  <2>1. n \in Int /\ (IF r.before THEN n < r.order ELSE n > r.order)
    BY <1>2, NearestBeyond DEF Orders, Absent
  <2>2. n # 0 /\ n - r.order # -1 /\ n - r.order # 1
    BY <1>2 DEF Gap, Absent
  <2>3. o \in {(n + r.order) \div 2, (n + r.order + 1) \div 2}
    BY <1>2, <2>2 DEF NewOrders, Absent, Middles
  <2> HIDE DEF n
  <2>4. CASE r.before
    <3>1. n + 2 <= r.order
      BY <1>0, <2>1, <2>2, <2>4
    <3>2. (n + r.order) \div 2 < r.order /\ (n + r.order + 1) \div 2 < r.order
      BY <1>0, <2>1, <3>1
    <3> QED
      BY <2>3, <2>4, <3>2
  <2>5. CASE ~r.before
    <3>1. n >= r.order + 2
      BY <1>0, <2>1, <2>2, <2>5
    <3>2. (n + r.order) \div 2 > r.order /\ (n + r.order + 1) \div 2 > r.order
      BY <1>0, <2>1, <3>1
    <3> QED
      BY <2>3, <2>5, <3>2
  <2> QED
    BY <2>4, <2>5
<1> QED
  BY <1>1, <1>2

\* A new folder gets a number above all others.
LEMMA LastIsBeyond ==
  ASSUME TypeOK
  PROVE  \A f \in Active : folder[f].order < OrderAfterLast(Active)
<1> DEFINE s == OrdersOf(Active)
<1>0. Unit \in Nat /\ Unit > 0
  BY OrderAssumption
<1>1. s \in SUBSET Orders /\ \A f \in Active : folder[f].order \in s
  BY DEF OrdersOf, Active, TypeOK, Rows
<1>2. ASSUME NEW f \in Active PROVE folder[f].order < OrderAfterLast(Active)
  <2>1. MaxOf(s) \in Orders /\ folder[f].order \in Orders /\ folder[f].order <= MaxOf(s)
    <3> HIDE DEF s
    <3> QED
      BY <1>1, OrderEnds
  <2>2. OrderAfterLast(Active) \in {Unit, MaxOf(s) + Unit}
    BY DEF OrderAfterLast
  <2>3. OrderAfterLast(Active) = Unit => MaxOf(s) = 0 \/ MaxOf(s) + Unit = Unit
    BY <1>2 DEF OrderAfterLast
  <2> HIDE DEF s
  <2>4. MaxOf(s) \in Int /\ folder[f].order \in Int
    BY <2>1, OrderAssumption DEF Orders
  <2> QED
    BY <1>0, <2>1, <2>2, <2>3, <2>4
<1> QED
  BY <1>2

\* The nearest neighbour is the nearest: no other folder is between it and the reference.
LEMMA NearestIsNearest ==
  ASSUME TypeOK, NEW r \in MoveReqs, NEW f \in Active \ {r.target}, Beyond(r, f)
  PROVE  /\ Nearest(r) # None
         /\ IF r.before THEN folder[f].order <= Nearest(r)
            ELSE folder[f].order >= Nearest(r)
<1> DEFINE fs == {g \in Active \ {r.target} : Beyond(r, g)}
           s == OrdersOf(fs)
<1>1. folder[f].order \in s
  BY DEF OrdersOf
<1>2. s \in SUBSET Orders
  BY DEF OrdersOf, Active, TypeOK, Rows
<1>3. /\ MinOf(s) \in Orders /\ MaxOf(s) \in Orders
      /\ folder[f].order >= MinOf(s) /\ folder[f].order <= MaxOf(s)
  <2> HIDE DEF s
  <2> QED
    BY <1>1, <1>2, OrderEnds
<1>4. Nearest(r) = IF r.before THEN MaxOf(s) ELSE MinOf(s)
  BY <1>1 DEF Nearest
<1>5. None \notin Orders
  BY OrderAssumption DEF Orders
<1> QED
  BY <1>3, <1>4, <1>5

\* Nor is another folder between the number that is computed and the reference's.
LEMMA ComputedIsFree ==
  ASSUME TypeOK, NEW r \in MoveReqs, r.order \in Orders,
         NEW o \in NewOrders(r, Nearest(r)), Gap(r, Nearest(r)) = "open",
         NEW f \in Active \ {r.target}
  PROVE  IF r.before THEN folder[f].order < o \/ folder[f].order >= r.order
         ELSE folder[f].order > o \/ folder[f].order <= r.order
<1> DEFINE n == Nearest(r)
           x == folder[f].order
<1>0. r.order \in Int /\ x \in Int /\ r.before \in BOOLEAN
  BY OrderAssumption DEF Orders, TypeOK, Rows, Active, MoveReqs
<1>1. CASE ~Beyond(r, f)
  BY <1>0, <1>1 DEF Beyond
<1>2. CASE Beyond(r, f)
  <2>1. n # None /\ (IF r.before THEN x <= n ELSE x >= n)
    BY <1>2, NearestIsNearest
  <2>2. n \in Int /\ (IF r.before THEN n < r.order ELSE n > r.order)
    BY <2>1, NearestBeyond, OrderAssumption DEF Orders
  <2>3. n # 0 /\ n - r.order # -1 /\ n - r.order # 1
    BY <2>1 DEF Gap
  <2>4. o \in {(n + r.order) \div 2, (n + r.order + 1) \div 2}
    BY <2>1, <2>3 DEF NewOrders, Absent, Middles
  <2> HIDE DEF n, x
  <2>5. CASE r.before
    <3>1. n + 2 <= r.order
      BY <1>0, <2>2, <2>3, <2>5
    <3>2. (n + r.order) \div 2 > n /\ (n + r.order + 1) \div 2 > n
      BY <1>0, <2>2, <3>1
    <3>3. x < o
      BY <1>0, <2>1, <2>2, <2>4, <2>5, <3>2
    <3> QED
      BY <2>5, <3>3 DEF x
  <2>6. CASE ~r.before
    <3>1. n >= r.order + 2
      BY <1>0, <2>2, <2>3, <2>6
    <3>2. (n + r.order) \div 2 < n /\ (n + r.order + 1) \div 2 < n
      BY <1>0, <2>2, <3>1
    <3>3. x > o
      BY <1>0, <2>1, <2>2, <2>4, <2>6, <3>2
    <3> QED
      BY <2>6, <3>3 DEF x
  <2> QED
    BY <2>5, <2>6
<1> QED
  BY <1>1, <1>2

-----------------------------------------------------------------------------
\* A step that gives one worker another request that is placed keeps the others.
LEMMA GotoStep ==
  ASSUME IInv, UNCHANGED folder, NEW w \in Workers,
         NEW r \in {Idle} \cup CreateReqs \cup MoveReqs, Placed(r), Goto(w, r)
  PROVE  IInv'
<1>1. TypeOK'
  BY DEF IInv, TypeOK, Goto
<1>2. \A v \in Workers : req'[v] = IF v = w THEN r ELSE req[v]
  BY DEF IInv, TypeOK, Goto
<1>3. \A q : Placed(q)' <=> Placed(q)
  BY DEF Placed, Kept, Active, Apart, OnSide
<1> QED
  BY <1>1, <1>2, <1>3 DEF IInv, Placed

\* Whoever writes a folder, a request either finds what it read as it was or knows
\* that it was written.
LEMMA WriteStep ==
  ASSUME IInv, NEW f \in Folders, NEW row \in Rows, NEW w, Write(f, row, w)
  PROVE  IInv'
<1>0. /\ folder \in [Folders -> Rows] /\ folder' = [folder EXCEPT ![f] = row]
      /\ \A g \in Folders : g # f => folder'[g] = folder[g]
  BY DEF IInv, TypeOK, Write
<1>1. ASSUME NEW v \in Workers
      PROVE  /\ req'[v] \in {Idle} \cup CreateReqs \cup MoveReqs
             /\ Placed(req[v])'
  <2>1. CASE req'[v] = Idle
    BY <2>1 DEF Placed, Idle
  <2>2. CASE req[v] # Idle
             /\ req'[v] = [req[v] EXCEPT !.stale = TRUE,
                               !.written = @ \cup ({f} \cap Used(req[v]))]
    <3>0. Placed(req[v])
      BY DEF IInv
    <3>1. CASE req[v] \in CreateReqs
      <4>1. Used(req[v]) = Folders /\ req[v].step = "create"
        BY <3>1 DEF CreateReqs, Used
      <4>2. /\ req'[v] \in CreateReqs /\ req'[v].step = "create"
            /\ req'[v].order = req[v].order /\ req'[v].written = req[v].written \cup {f}
        BY <2>2, <3>1, <4>1 DEF CreateReqs
      <4>3. ASSUME NEW g \in Kept(req[v])' PROVE folder'[g].order < req'[v].order
        <5>1. g \in Kept(req[v]) /\ folder'[g] = folder[g]
          BY <1>0, <4>2, <4>3 DEF Kept, Active
        <5> QED
          BY <3>0, <4>1, <4>2, <5>1 DEF Placed
      <4> QED
        BY <4>2, <4>3 DEF Placed
    <3>2. CASE req[v] \in MoveReqs
      <4>1. /\ req'[v] \in MoveReqs
            /\ req'[v].step = req[v].step /\ req'[v].ref = req[v].ref
            /\ req'[v].order = req[v].order /\ req'[v].before = req[v].before
            /\ req'[v].gap = req[v].gap /\ req'[v].target = req[v].target
            /\ req'[v].written = req[v].written \cup ({f} \cap Used(req[v]))
        <5> DEFINE W == req[v].written \cup ({f} \cap Used(req[v]))
        <5>1. W \in SUBSET Folders
          BY <3>2 DEF MoveReqs
        <5>2. req'[v] = [req[v] EXCEPT !.stale = TRUE, !.written = W]
          BY <2>2
        <5> HIDE DEF W
        <5>3. req'[v] \in MoveReqs /\ req'[v].written = W
              /\ req'[v].step = req[v].step /\ req'[v].ref = req[v].ref
              /\ req'[v].order = req[v].order /\ req'[v].before = req[v].before
              /\ req'[v].gap = req[v].gap /\ req'[v].target = req[v].target
          BY <3>2, <5>1, <5>2 DEF MoveReqs
        <5> QED
          BY <5>3 DEF W
      <4>2. req[v].step \in {"neighbour", "move"} /\ req[v].ref \notin req'[v].written =>
              req[v].ref \notin req[v].written /\ folder'[req[v].ref] = folder[req[v].ref]
        BY <1>0, <3>2, <4>1 DEF MoveReqs, Used
      <4>3. ASSUME req[v].step = "move", NEW g \in Kept(req[v])'
            PROVE  g \in Kept(req[v]) /\ folder'[g] = folder[g]
        <5>1. req'[v].written = req[v].written \cup {f}
          BY <4>1, <4>3 DEF Used
        <5> QED
          BY <1>0, <4>3, <5>1 DEF Kept, Active
      <4>4. CASE req[v].step # "move"
        BY <3>0, <3>2, <4>1, <4>2, <4>4 DEF Placed, MoveReqs, Steps
      <4>5. CASE req[v].step = "move"
        <5>1. req'[v].order \in Orders
          BY <3>0, <4>1, <4>5 DEF Placed
        <5>2. ASSUME req'[v].ref \notin req'[v].written
              PROVE  /\ req'[v].gap # "closed" => OnSide(req[v], folder[req[v].ref].order)'
                     /\ req'[v].gap = "open" =>
                          \A g \in Kept(req[v])' \ {req'[v].target} : Apart(req[v], g)'
          <6>1. req[v].ref \notin req[v].written /\ folder'[req[v].ref] = folder[req[v].ref]
            BY <4>1, <4>2, <4>5, <5>2
          <6>2. req'[v].gap # "closed" => OnSide(req[v], folder[req[v].ref].order)'
            BY <3>0, <4>1, <4>5, <6>1 DEF Placed, OnSide
          <6>3. ASSUME req'[v].gap = "open", NEW g \in Kept(req[v])' \ {req'[v].target}
                PROVE  Apart(req[v], g)'
            <7>1. Apart(req[v], g) /\ folder'[g] = folder[g]
              BY <3>0, <4>1, <4>3, <4>5, <6>1, <6>3 DEF Placed
            <7> QED
              BY <4>1, <6>1, <7>1 DEF Apart
          <6> QED
            BY <6>2, <6>3
        <5> QED
          BY <4>1, <4>5, <5>1, <5>2 DEF Placed
      <4> QED
        BY <4>1, <4>4, <4>5
    <3> QED
      BY <2>2, <3>1, <3>2 DEF IInv, TypeOK
  <2> QED
    BY <2>1, <2>2 DEF Write
<1>2. req' = [v \in Workers |-> req'[v]]
  BY DEF Write
<1>3. TypeOK'
  BY <1>0, <1>1, <1>2 DEF TypeOK
<1> QED
  BY <1>1, <1>3 DEF IInv

\* The three readings of a move.
LEMMA MoveSteps ==
  ASSUME IInv, NEW w \in Workers,
         \/ ReadReference(w) \/ ReadNeighbour(w)
         \/ \E t, ref \in Folders, before \in BOOLEAN : ReadTarget(w, t, ref, before)
  PROVE  IInv'
<1>0. /\ req[w] \in {Idle} \cup CreateReqs \cup MoveReqs /\ Placed(req[w])
      /\ folder \in [Folders -> Rows]
  BY DEF IInv, TypeOK
<1>1. CASE ReadReference(w)
  <2> DEFINE r == [req[w] EXCEPT !.step = "neighbour", !.order = folder[req[w].ref].order]
  <2>1. req[w] \in MoveReqs
    BY <1>0, <1>1 DEF ReadReference, Idle, CreateReqs
  <2>2. folder[req[w].ref].order \in Orders
    BY <1>0, <2>1 DEF MoveReqs, Rows
  <2>3. r \in MoveReqs /\ Placed(r)
    BY <2>1, <2>2 DEF MoveReqs, Steps, Placed
  <2> QED
    BY <1>1, <2>3, GotoStep DEF ReadReference
<1>2. CASE ReadNeighbour(w)
  <2>1. req[w].step = "neighbour" /\ UNCHANGED folder
    BY <1>2 DEF ReadNeighbour
  <2>2. req[w] \in MoveReqs /\ req[w].order \in Orders
    BY <1>0, <2>1 DEF Idle, CreateReqs, Placed
  <2>3. PICK o \in NewOrders(req[w], Nearest(req[w])) \cap Orders :
          Goto(w, IF o = req[w].targetOrder THEN Idle
                  ELSE [req[w] EXCEPT !.step = "move", !.order = o, !.targetOrder = None,
                                      !.gap = Gap(req[w], Nearest(req[w]))])
    BY <1>2 DEF ReadNeighbour
  <2> DEFINE r == [req[w] EXCEPT !.step = "move", !.order = o, !.targetOrder = None,
                                 !.gap = Gap(req[w], Nearest(req[w]))]
  <2>4. r \in MoveReqs
    BY <2>2 DEF MoveReqs, Steps, Gap
  <2>5. /\ r.step = "move" /\ r.order = o /\ r.gap = Gap(req[w], Nearest(req[w]))
        /\ r.target = req[w].target /\ r.ref = req[w].ref /\ r.before = req[w].before
        /\ r.written = req[w].written
    BY <2>2 DEF MoveReqs
  <2>6. Placed(r)
    <3>1. r.gap # "closed" => OnSide(r, req[w].order)
      <4>1. r.gap # "closed" =>
              IF req[w].before THEN o < req[w].order ELSE o > req[w].order
        BY <2>2, <2>5, ComputedOnSide DEF IInv
      <4> HIDE DEF r
      <4> QED
        BY <2>5, <4>1 DEF OnSide
    <3>2. ASSUME r.gap = "open", NEW f \in Active \ {r.target}
          PROVE  IF req[w].before THEN folder[f].order < o \/ folder[f].order >= req[w].order
                 ELSE folder[f].order > o \/ folder[f].order <= req[w].order
      <4>1. Gap(req[w], Nearest(req[w])) = "open" /\ f \in Active \ {req[w].target}
        BY <2>5, <3>2
      <4> QED
        BY <2>2, <4>1, ComputedIsFree DEF IInv
    <3>3. r.ref \notin r.written => req[w].order = folder[r.ref].order
      BY <1>0, <2>1, <2>5 DEF Placed
    <3> HIDE DEF r
    <3>4. r.ref \notin r.written /\ r.gap = "open" =>
            \A f \in Kept(r) \ {r.target} : Apart(r, f)
      BY <2>5, <3>2, <3>3 DEF Kept, Apart
    <3> QED
      BY <2>3, <2>5, <3>1, <3>3, <3>4 DEF Placed
  <2>7. Placed(Idle)
    BY DEF Placed, Idle
  <2> QED
    BY <2>1, <2>3, <2>4, <2>6, <2>7, GotoStep
<1>3. ASSUME NEW t \in Folders, NEW ref \in Folders, NEW before \in BOOLEAN,
             ReadTarget(w, t, ref, before)
      PROVE  IInv'
  <2> DEFINE r == [step |-> "reference", target |-> t, targetOrder |-> folder[t].order,
                   ref |-> ref, before |-> before, order |-> None, gap |-> "open",
                   stale |-> FALSE, written |-> {}]
  <2>1. folder[t].order \in Orders
    BY <1>0 DEF Rows
  <2>2. r \in MoveReqs /\ Placed(r)
    BY <2>1 DEF MoveReqs, Steps, Placed
  <2> QED
    BY <1>3, <2>2, GotoStep DEF ReadTarget
<1> QED
  BY <1>1, <1>2, <1>3

\* The invariant holds at the beginning.
LEMMA InitialInv == Init => IInv
<1> SUFFICES ASSUME Init PROVE IInv
  OBVIOUS
<1>1. 0 \in Orders
  BY OrderAssumption DEF Orders
<1>2. TypeOK
  BY <1>1 DEF Init, TypeOK, Rows
<1>3. \A w \in Workers : Placed(req[w])
  BY DEF Init, Placed, Idle
<1> QED
  BY <1>2, <1>3 DEF IInv

\* The invariant holds in every reachable state, for any numbers of folders and requests
\* and any distance between two numbers.
THEOREM Invariance == Spec => []IInv
<1>1. Init => IInv
  BY InitialInv
<1>2. IInv /\ [Next]_vars => IInv'
  <2> SUFFICES ASSUME IInv, [Next]_vars PROVE IInv'
    OBVIOUS
  <2>0. folder \in [Folders -> Rows]
    BY DEF IInv, TypeOK
  <2>1. CASE UNCHANGED vars
    <3>1. \A w \in Workers : Placed(req[w])' <=> Placed(req[w])
      BY <2>1 DEF vars, Placed, Kept, Active, Apart, OnSide
    <3> QED
      BY <2>1, <3>1 DEF vars, IInv, TypeOK
  <2>2. ASSUME NEW w \in Workers, ReadLast(w) PROVE IInv'
    <3> DEFINE r == [step |-> "create", order |-> OrderAfterLast(Active), ref |-> None,
                     stale |-> FALSE, written |-> {}]
    <3>1. r \in CreateReqs /\ Placed(r)
      BY <2>2, LastIsBeyond DEF ReadLast, CreateReqs, Placed, Kept, IInv
    <3> QED
      BY <2>2, <3>1, GotoStep DEF ReadLast
  <2>3. ASSUME NEW w \in Workers, NEW f \in Folders, Create(w, f) PROVE IInv'
    <3>1. req[w] \in CreateReqs
      BY <2>3 DEF Create, IInv, TypeOK, Idle, MoveReqs, Steps
    <3>2. [state |-> "active", order |-> req[w].order] \in Rows
      BY <3>1 DEF CreateReqs, Rows
    <3> QED
      BY <2>3, <3>2, WriteStep DEF Create
  <2>4. ASSUME NEW w \in Workers, Move(w) PROVE IInv'
    <3>1. req[w].step = "move" /\ req[w].target \in Folders /\ req[w].order \in Orders
      BY <2>4 DEF Move, Active, IInv, Placed
    <3>2. [state |-> "active", order |-> req[w].order] \in Rows
      BY <3>1 DEF Rows
    <3> QED
      BY <2>4, <3>1, <3>2, WriteStep DEF Move
  <2>5. ASSUME NEW w \in Workers, Stop(w) PROVE IInv'
    <3>1. Placed(Idle)
      BY DEF Placed, Idle
    <3> QED
      BY <2>5, <3>1, GotoStep DEF Stop
  <2>6. ASSUME NEW f \in Folders, SoftDelete(f) \/ Restore(f) PROVE IInv'
    <3>1. /\ [folder[f] EXCEPT !.state = "trash"] \in Rows
          /\ [folder[f] EXCEPT !.state = "active"] \in Rows
      BY <2>0 DEF Rows
    <3> QED
      BY <2>6, <3>1, WriteStep DEF SoftDelete, Restore
  <2> QED
    BY <2>1, <2>2, <2>3, <2>4, <2>5, <2>6, MoveSteps DEF Next
<1> QED
  BY <1>1, <1>2, PTL DEF Spec

\* The request that is done when a folder is written is the one that wrote it.
LEMMA Writer ==
  ASSUME TypeOK, [Next]_vars, NEW w \in Workers,
         edits' # edits, req[w] # Idle, req'[w] = Idle
  PROVE  (\E f \in Folders : Create(w, f)) \/ Move(w)
<1>1. ASSUME NEW f, NEW row, NEW v, Write(f, row, v) PROVE v = w
  <2>1. CASE v # w
    <3> DEFINE W == req[w].written \cup ({f} \cap Used(req[w]))
    <3>0. req'[w] = [req[w] EXCEPT !.stale = TRUE, !.written = W]
      BY <1>1, <2>1 DEF Write
    <3> HIDE DEF W
    <3>1. req'[w].step = req[w].step
      <4>1. CASE req[w] \in CreateReqs
        BY <3>0, <4>1 DEF CreateReqs
      <4>2. CASE req[w] \in MoveReqs
        BY <3>0, <4>2 DEF MoveReqs
      <4> QED
        BY <4>1, <4>2 DEF TypeOK
    <3>2. req[w].step # "idle"
      BY DEF TypeOK, CreateReqs, MoveReqs, Steps
    <3> QED
      BY <3>1, <3>2 DEF Idle
  <2> QED
    BY <2>1
<1>2. None # w
  BY OrderAssumption
<1>3. ASSUME NEW f \in Folders PROVE ~SoftDelete(f) /\ ~Restore(f)
  BY <1>1, <1>2 DEF SoftDelete, Restore
<1>4. ASSUME NEW v \in Workers, NEW f \in Folders, Create(v, f) PROVE v = w
  BY <1>1, <1>4 DEF Create
<1>5. ASSUME NEW v \in Workers, Move(v) PROVE v = w
  BY <1>1, <1>5 DEF Move
<1>6. ASSUME NEW v \in Workers
      PROVE  /\ ~ReadLast(v) /\ ~ReadReference(v) /\ ~ReadNeighbour(v) /\ ~Stop(v)
             /\ \A t, ref \in Folders, before \in BOOLEAN : ~ReadTarget(v, t, ref, before)
  BY DEF ReadLast, ReadReference, ReadNeighbour, Stop, ReadTarget
<1>7. ~UNCHANGED vars
  BY DEF vars
<1> QED
  BY <1>3, <1>4, <1>5, <1>6, <1>7 DEF Next

\* Whatever requests overlap: a new folder is listed after every folder that nobody wrote
\* since the last number was read (create-folder.usecase.ts), and a moved one is on the
\* asked side of a reference that nobody wrote, where there was room with no such folder
\* between the two (reorder-folder.helper.ts).
THEOREM PlacedAlwaysAsAsked == Spec => PlacedAsAsked
<1> DEFINE AsAsked(w) ==
      LET r == req[w]
          at(f) == folder[f].order
          new == folder'[r.target].order
      IN edits' # edits /\ r # Idle /\ req'[w] = Idle =>
           /\ r.step = "create" => \A f \in New \ New', g \in Kept(r) : Listed(g, f)'
           /\ r.step = "move" /\ r.ref \in Kept(r) =>
                /\ r.gap # "closed" => Side(r, new, at(r.ref))
                /\ r.gap = "open" =>
                     \A g \in Kept(r) \ {r.target} :
                       Side(r, at(g), at(r.ref)) => Side(r, at(g), new)
<1>1. ASSUME IInv, [Next]_vars, NEW w \in Workers PROVE AsAsked(w)
  <2> SUFFICES ASSUME edits' # edits, req[w] # Idle, req'[w] = Idle PROVE AsAsked(w)
    OBVIOUS
  <2>0. TypeOK /\ Placed(req[w]) /\ req[w] \in CreateReqs \cup MoveReqs
        /\ \A g \in Active : folder[g].order \in Int
    BY <1>1, OrderAssumption DEF IInv, TypeOK, Active, Rows, Orders
  <2>1. \/ \E f \in Folders : Create(w, f)
        \/ Move(w)
    BY <1>1, <2>0, Writer
  <2>2. ASSUME NEW f \in Folders, Create(w, f) PROVE AsAsked(w)
    <3>1. /\ req[w].step = "create"
          /\ folder' = [folder EXCEPT ![f] = [state |-> "active", order |-> req[w].order]]
      BY <2>2 DEF Create, Write
    <3>2. ASSUME NEW h \in New \ New', NEW g \in Kept(req[w]) PROVE Listed(g, h)'
      <4>1. h = f /\ g # f
        BY <2>0, <3>1, <3>2 DEF New, Kept, Active, TypeOK
      <4>2. folder'[h].order = req[w].order /\ folder'[g] = folder[g]
        BY <2>0, <3>1, <4>1 DEF TypeOK
      <4>3. folder[g].order < req[w].order
        BY <2>0, <3>1 DEF Placed
      <4> QED
        BY <4>2, <4>3 DEF Listed
    <3> QED
      BY <3>1, <3>2
  <2>3. CASE Move(w)
    <3>1. /\ req[w].step = "move" /\ req[w].target \in Active
          /\ folder' = [folder EXCEPT ![req[w].target] =
                          [state |-> "active", order |-> req[w].order]]
      BY <2>3 DEF Move, Write
    <3>2. folder'[req[w].target].order = req[w].order
      BY <2>0, <3>1 DEF TypeOK, Active
    <3>3. ASSUME req[w].ref \in Kept(req[w]), req[w].gap # "closed"
          PROVE  Side(req[w], req[w].order, folder[req[w].ref].order)
      BY <2>0, <3>1, <3>3 DEF Placed, Kept, OnSide, Side
    <3>4. ASSUME req[w].ref \in Kept(req[w]), req[w].gap = "open",
                 NEW g \in Kept(req[w]) \ {req[w].target},
                 Side(req[w], folder[g].order, folder[req[w].ref].order)
          PROVE  Side(req[w], folder[g].order, req[w].order)
      <4>1. Apart(req[w], g)
        BY <2>0, <3>1, <3>4 DEF Placed, Kept
      <4>2. folder[g].order \in Int /\ folder[req[w].ref].order \in Int
        BY <2>0, <3>4 DEF Kept
      <4>3. req[w].order \in Int
        BY <2>0, <3>1, OrderAssumption DEF Placed, Orders
      <4> QED
        BY <3>4, <4>1, <4>2, <4>3 DEF Apart, Side
    <3> QED
      BY <3>1, <3>2, <3>3, <3>4
  <2> QED
    BY <2>1, <2>2, <2>3
<1>2. IInv /\ [Next]_vars => [\A w \in Workers : AsAsked(w)]_vars
  BY <1>1
<1> QED
  BY <1>2, Invariance, PTL DEF Spec, PlacedAsAsked

-----------------------------------------------------------------------------
(* What a request has read is true as long as nobody writes a folder.       *)

(* No other folder has a number between that of the reference and r's.      *)
Free(r) ==
  \A f \in Active \ {r.target} :
    IF r.before THEN folder[f].order < r.order \/ folder[f].order >= folder[r.ref].order
    ELSE folder[f].order > r.order \/ folder[f].order <= folder[r.ref].order

Fresh(r) ==
  ~r.stale =>
    /\ r.step = "create" => \A f \in Active : folder[f].order < r.order
    /\ r.step \in Steps => r.target \in Active /\ r.ref # r.target
    /\ r.step = "neighbour" => r.ref \in Active /\ r.order = folder[r.ref].order
    /\ r.step = "move" /\ r.gap = "open" =>
         r.ref \in Active /\ OnSide(r, folder[r.ref].order) /\ Free(r)

Distinct == \A f, g \in Active : f # g => folder[f].order # folder[g].order

OrderInv ==
  /\ IInv
  /\ spoilt \in BOOLEAN /\ (~spoilt => Distinct)
  /\ \A w \in Workers : Fresh(req[w])

-----------------------------------------------------------------------------
\* A reading keeps what the other requests know.
LEMMA FreshGoto ==
  ASSUME OrderInv, UNCHANGED <<folder, spoilt>>, IInv', NEW w \in Workers, NEW r,
         Fresh(r), Goto(w, r)
  PROVE  OrderInv'
<1>1. \A v \in Workers : req'[v] = IF v = w THEN r ELSE req[v]
  BY DEF OrderInv, IInv, TypeOK, Goto
<1>2. Active' = Active
  BY DEF Active
<1>3. \A q : Fresh(q)' <=> Fresh(q)
  BY <1>2 DEF Fresh, Free
<1>4. \A v \in Workers : Fresh(req'[v])
  BY <1>1 DEF OrderInv
<1>5. \A v \in Workers : Fresh(req[v])'
  BY <1>2, <1>4 DEF Fresh, Free, OnSide
<1> QED
  BY <1>2, <1>5 DEF OrderInv, Distinct

\* After a write every request knows that what it read may be outdated.
LEMMA FreshWrite ==
  ASSUME IInv, NEW f, NEW row, NEW w, Write(f, row, w)
  PROVE  \A v \in Workers : Fresh(req[v])'
<1>1. ASSUME NEW v \in Workers PROVE req'[v] = Idle \/ req'[v].stale
  <2>1. CASE req[v] \in CreateReqs \cup MoveReqs
    BY <2>1 DEF Write, CreateReqs, MoveReqs
  <2>2. CASE req[v] = Idle
    BY <2>2 DEF Write
  <2> QED
    BY <2>1, <2>2 DEF IInv, TypeOK
<1> QED
  BY <1>1 DEF Fresh, Idle, Steps

\* What a new folder's number is read for.
LEMMA ReadLastOrder ==
  ASSUME OrderInv, IInv', NEW w \in Workers, ReadLast(w)
  PROVE  OrderInv'
<1> DEFINE r == [step |-> "create", order |-> OrderAfterLast(Active), ref |-> None,
                 stale |-> FALSE, written |-> {}]
<1>1. Fresh(r)
  BY LastIsBeyond DEF Fresh, Steps, OrderInv, IInv
<1> QED
  BY <1>1, FreshGoto DEF ReadLast

LEMMA ReadTargetOrder ==
  ASSUME OrderInv, IInv', NEW w \in Workers, NEW t \in Folders, NEW ref \in Folders,
         NEW before \in BOOLEAN, ReadTarget(w, t, ref, before)
  PROVE  OrderInv'
<1> DEFINE r == [step |-> "reference", target |-> t, targetOrder |-> folder[t].order,
                 ref |-> ref, before |-> before, order |-> None, gap |-> "open",
                 stale |-> FALSE, written |-> {}]
<1>1. Fresh(r)
  BY DEF Fresh, ReadTarget, ValidMove
<1> QED
  BY <1>1, FreshGoto DEF ReadTarget

LEMMA ReadReferenceOrder ==
  ASSUME OrderInv, IInv', NEW w \in Workers, ReadReference(w)
  PROVE  OrderInv'
<1> DEFINE r == [req[w] EXCEPT !.step = "neighbour", !.order = folder[req[w].ref].order]
<1>1. req[w] \in MoveReqs /\ req[w].step = "reference" /\ req[w].ref \in Active
  BY DEF ReadReference, OrderInv, IInv, TypeOK, Idle, CreateReqs
<1>2. /\ r.step = "neighbour" /\ r.order = folder[req[w].ref].order
      /\ r.target = req[w].target /\ r.ref = req[w].ref /\ r.stale = req[w].stale
  BY <1>1 DEF MoveReqs
<1>3. Fresh(req[w])
  BY DEF OrderInv
<1> HIDE DEF r
<1>4. Fresh(r)
  BY <1>1, <1>2, <1>3 DEF Fresh, Steps
<1> QED
  BY <1>4, FreshGoto DEF ReadReference, r

LEMMA ReadNeighbourOrder ==
  ASSUME OrderInv, IInv', NEW w \in Workers, ReadNeighbour(w)
  PROVE  OrderInv'
<1> DEFINE n == Nearest(req[w])
<1>1. /\ req[w] \in MoveReqs /\ req[w].step = "neighbour" /\ req[w].order \in Orders
      /\ UNCHANGED <<folder, spoilt>> /\ TypeOK
  BY DEF ReadNeighbour, OrderInv, IInv, TypeOK, Idle, CreateReqs, Placed
<1>2. PICK o \in NewOrders(req[w], n) \cap Orders :
        Goto(w, IF o = req[w].targetOrder THEN Idle
                ELSE [req[w] EXCEPT !.step = "move", !.order = o, !.targetOrder = None,
                                    !.gap = Gap(req[w], n)])
  BY DEF ReadNeighbour
<1> DEFINE r == [req[w] EXCEPT !.step = "move", !.order = o, !.targetOrder = None,
                               !.gap = Gap(req[w], n)]
<1>3. /\ r.step = "move" /\ r.order = o /\ r.gap = Gap(req[w], n)
      /\ r.target = req[w].target /\ r.ref = req[w].ref /\ r.stale = req[w].stale
      /\ r.before = req[w].before
  BY <1>1 DEF MoveReqs
<1>4. Fresh(req[w])
  BY DEF OrderInv
<1>5. ASSUME ~r.stale, r.gap = "open" PROVE OnSide(r, folder[r.ref].order) /\ Free(r)
  <2>1. req[w].order = folder[r.ref].order
    BY <1>1, <1>3, <1>4, <1>5 DEF Fresh
  <2>2. Gap(req[w], n) = "open"
    BY <1>3, <1>5
  <2>3. OnSide(r, req[w].order)
    <3>1. IF req[w].before THEN o < req[w].order ELSE o > req[w].order
      BY <1>1, <2>2, ComputedOnSide
    <3> HIDE DEF r
    <3> QED
      BY <1>3, <3>1 DEF OnSide
  <2>4. \A f \in Active \ {req[w].target} :
          IF req[w].before THEN folder[f].order < o \/ folder[f].order >= req[w].order
          ELSE folder[f].order > o \/ folder[f].order <= req[w].order
    BY <1>1, <2>2, ComputedIsFree
  <2> HIDE DEF r
  <2>5. Free(r)
    BY <1>3, <2>1, <2>4 DEF Free
  <2> QED
    BY <2>1, <2>3, <2>5
<1>6. Fresh(r)
  <2> HIDE DEF r
  <2> QED
    BY <1>1, <1>3, <1>4, <1>5 DEF Fresh, Steps
<1>7. Fresh(Idle)
  BY DEF Fresh, Idle, Steps
<1> HIDE DEF r, n
<1> QED
  BY <1>1, <1>2, <1>6, <1>7, FreshGoto DEF r


\* A creation and a move write the number that was read for them.
LEMMA CreateOrder ==
  ASSUME OrderInv, IInv', NEW w \in Workers, NEW f \in Folders, Create(w, f)
  PROVE  OrderInv'
<1> DEFINE row == [state |-> "active", order |-> req[w].order]
<1>0. Write(f, row, w)
  BY DEF Create
<1>1. /\ folder \in [Folders -> Rows] /\ folder' = [folder EXCEPT ![f] = row]
      /\ req[w] \in CreateReqs /\ Fresh(req[w])
  <2>1. req[w] \in CreateReqs
    BY DEF Create, OrderInv, IInv, TypeOK, Idle, MoveReqs, Steps
  <2> QED
    BY <1>0, <2>1 DEF Write, OrderInv, IInv, TypeOK
<1>2. spoilt' \in BOOLEAN /\ (~spoilt' => Distinct')
  <2> SUFFICES ASSUME ~spoilt' PROVE Distinct'
    BY <1>1 DEF Create, OrderInv, CreateReqs
  <2>1. ~spoilt /\ ~req[w].stale
    BY DEF Create
  <2>2. Distinct /\ \A g \in Active : folder[g].order < req[w].order
    BY <1>1, <2>1 DEF OrderInv, Fresh, Create
  <2>3. \A g \in Active' : g = f \/ (g \in Active /\ folder'[g] = folder[g])
    BY <1>1 DEF Active
  <2>4. folder'[f].order = req[w].order
    BY <1>1
  <2>5. req[w].order \in Int /\ \A g \in Active : folder[g].order \in Int
    BY <1>1, OrderAssumption DEF CreateReqs, Orders, Active, Rows
  <2> QED
    BY <2>2, <2>3, <2>4, <2>5 DEF Distinct
<1> QED
  BY <1>0, <1>2, FreshWrite DEF OrderInv

\* What is known of a move that keeps the list: there is room for it beside its reference.
LEMMA MoveFits ==
  ASSUME OrderInv, NEW w \in Workers, Move(w), ~spoilt'
  PROVE  /\ req[w] \in MoveReqs /\ ~spoilt /\ Distinct
         /\ req[w].order \in Int /\ \A g \in Active : folder[g].order \in Int
         /\ req[w].target \in Active /\ req[w].ref \in Active /\ req[w].ref # req[w].target
         /\ OnSide(req[w], folder[req[w].ref].order) /\ Free(req[w])
<1>1. req[w] \in MoveReqs /\ req[w].step = "move" /\ req[w].order \in Orders
  BY DEF Move, OrderInv, IInv, TypeOK, Idle, CreateReqs, Placed
<1>2. ~spoilt /\ ~req[w].stale /\ req[w].gap = "open"
  BY DEF Move
<1>3. Fresh(req[w]) /\ Distinct
  BY <1>2 DEF OrderInv
<1>4. req[w].order \in Int /\ \A g \in Active : folder[g].order \in Int
  BY <1>1, OrderAssumption DEF OrderInv, IInv, TypeOK, Orders, Active, Rows
<1> QED
  BY <1>1, <1>2, <1>3, <1>4 DEF Fresh, Steps

LEMMA MoveOrder ==
  ASSUME OrderInv, IInv', NEW w \in Workers, Move(w)
  PROVE  OrderInv'
<1> DEFINE r == req[w]
           row == [state |-> "active", order |-> r.order]
<1>0. Write(r.target, row, w)
  BY DEF Move
<1>1. /\ folder \in [Folders -> Rows] /\ folder' = [folder EXCEPT ![r.target] = row]
      /\ r \in MoveReqs /\ r.target \in Folders
  <2>1. r \in MoveReqs
    BY DEF Move, OrderInv, IInv, TypeOK, Idle, CreateReqs
  <2> QED
    BY <1>0, <2>1 DEF Move, Write, OrderInv, IInv, TypeOK, Active
<1>2. spoilt' \in BOOLEAN /\ (~spoilt' => Distinct')
  <2> SUFFICES ASSUME ~spoilt' PROVE Distinct'
    BY <1>1 DEF Move, OrderInv, MoveReqs
  <2>1. /\ Distinct /\ r.order \in Int /\ \A g \in Active : folder[g].order \in Int
        /\ r.ref \in Active /\ OnSide(r, folder[r.ref].order) /\ Free(r)
    BY MoveFits
  <2>2. \A g \in Active' : g = r.target \/ (g \in Active /\ folder'[g] = folder[g])
    BY <1>1 DEF Active
  <2>3. folder'[r.target].order = r.order
    BY <1>1
  <2>4. \A g \in Active \ {r.target} : folder[g].order # r.order
    BY <2>1 DEF Free, OnSide
  <2> QED
    BY <2>1, <2>2, <2>3, <2>4 DEF Distinct
<1> QED
  BY <1>0, <1>2, FreshWrite DEF OrderInv

LEMMA DeleteRestoreOrder ==
  ASSUME OrderInv, IInv', NEW f \in Folders, SoftDelete(f) \/ Restore(f)
  PROVE  OrderInv'
<1>1. folder \in [Folders -> Rows]
  BY DEF OrderInv, IInv, TypeOK
<1>2. CASE SoftDelete(f)
  <2>0. folder' = [folder EXCEPT ![f] = [folder[f] EXCEPT !.state = "trash"]]
    BY <1>2 DEF SoftDelete, Write
  <2>1. Active' \subseteq Active /\ \A g \in Active' : folder'[g] = folder[g]
    BY <1>1, <2>0 DEF Active, Rows
  <2>2. spoilt' = spoilt /\ (Distinct => Distinct')
    BY <1>2, <2>1 DEF SoftDelete, Distinct
  <2> QED
    BY <1>2, <2>2, FreshWrite DEF SoftDelete, OrderInv
<1>3. CASE Restore(f)
  BY <1>3, FreshWrite DEF Restore, OrderInv
<1> QED
  BY <1>2, <1>3

\* What was read stays true until somebody writes, and numbers stay distinct until
\* something is written that may be out of place.
THEOREM OrderKnown == Spec => []OrderInv
<1>1. Init => OrderInv
  <2> SUFFICES ASSUME Init PROVE OrderInv
    OBVIOUS
  <2>1. IInv
    BY InitialInv
  <2>2. Active = {} /\ spoilt = FALSE
    BY DEF Init, Active
  <2>3. Fresh(Idle) /\ \A w \in Workers : req[w] = Idle
    BY DEF Init, Fresh, Idle, Steps
  <2> QED
    BY <2>1, <2>2, <2>3 DEF OrderInv, Distinct
<1>2. OrderInv /\ IInv' /\ [Next]_vars => OrderInv'
  <2> SUFFICES ASSUME OrderInv, IInv', [Next]_vars PROVE OrderInv'
    OBVIOUS
  <2>1. CASE UNCHANGED vars
    BY <2>1 DEF vars, OrderInv, Distinct, Fresh, Free, OnSide, Active
  <2>2. ASSUME NEW w \in Workers, Stop(w) PROVE OrderInv'
    <3>1. Fresh(Idle)
      BY DEF Fresh, Idle, Steps
    <3> QED
      BY <2>2, <3>1, FreshGoto DEF Stop
  <2> QED
    BY <2>1, <2>2, ReadLastOrder, ReadTargetOrder, ReadReferenceOrder, ReadNeighbourOrder,
       CreateOrder, MoveOrder, DeleteRestoreOrder DEF Next
<1> QED
  BY <1>1, <1>2, Invariance, PTL DEF Spec


-----------------------------------------------------------------------------
(* The requests implement the list of FolderList.                           *)

\* The members of the list that is shown are the active folders.
LEMMA ShownIs ==
  /\ List!Members = Active
  /\ \A g, h : <<g, h>> \in Shown <=> g \in Active /\ h \in Active /\ (g = h \/ Listed(g, h))
<1>1. \A g, h : <<g, h>> \in Shown <=> g \in Active /\ h \in Active /\ (g = h \/ Listed(g, h))
  BY DEF Shown
<1>2. Active \subseteq Folders
  BY DEF Active
<1> QED
  BY <1>1, <1>2 DEF List!Members

\* A folder is put into its place by writing a number above those of the folders in front
\* of it and below those of the others.
LEMMA Arranged ==
  ASSUME folder \in [Folders -> Rows], NEW f \in Folders, NEW row,
         folder' = [folder EXCEPT ![f] = row], row.state = "active", row.order \in Int,
         \A g \in Active : folder[g].order \in Int,
         NEW front,
         \A g \in Active \ {f} : IF g \in front THEN folder[g].order < row.order
                                 ELSE row.order < folder[g].order
  PROVE  List!PutBehind(front, f)
<1> DEFINE moved == List!Without(f) \cup {<<f, f>>}
                      \cup {<<g, f>> : g \in (Active \cap front) \ {f}}
                      \cup {<<f, g>> : g \in (Active \ front) \ {f}}
<1>1. Active' = Active \cup {f}
  BY DEF Active
<1>2. folder'[f].order = row.order /\ \A g \in Active \ {f} : folder'[g] = folder[g]
  BY DEF Active
<1>3. \A g, h : <<g, h>> \in Shown' <=>
         g \in Active' /\ h \in Active' /\ (g = h \/ Listed(g, h)')
  BY DEF Shown
<1>4. \A g, h : <<g, h>> \in moved <=>
         \/ <<g, h>> \in Shown /\ g # f /\ h # f
         \/ g = f /\ h = f
         \/ h = f /\ g \in (Active \cap front) \ {f}
         \/ g = f /\ h \in (Active \ front) \ {f}
  BY DEF List!Without
<1>5. ASSUME NEW g, NEW h PROVE <<g, h>> \in Shown' <=> <<g, h>> \in moved
  <2> HIDE DEF moved
  <2>1. CASE g # f /\ h # f
    BY <1>1, <1>2, <1>3, <1>4, <2>1, ShownIs DEF Listed
  <2>2. CASE g = f /\ h = f
    BY <1>1, <1>3, <1>4, <2>2
  <2>3. CASE g # f /\ h = f
    BY <1>1, <1>2, <1>3, <1>4, <2>3 DEF Listed
  <2>4. CASE g = f /\ h # f
    BY <1>1, <1>2, <1>3, <1>4, <2>4 DEF Listed
  <2> QED
    BY <2>1, <2>2, <2>3, <2>4
<1>6. /\ \A p \in Shown' : \E g, h : p = <<g, h>>
      /\ \A p \in moved : \E g, h : p = <<g, h>>
  <2>1. \A p \in Shown' : \E g, h : p = <<g, h>>
    BY DEF Shown
  <2>2. \A p \in Shown : \E g, h : p = <<g, h>>
    BY DEF Shown
  <2> QED
    BY <2>1, <2>2 DEF List!Without
<1>7. Shown' = moved
  <2> HIDE DEF moved
  <2> QED
    BY <1>5, <1>6
<1> QED
  BY <1>7, ShownIs DEF List!PutBehind

\* A folder that is deleted leaves the list, and the others stay where they are.
LEMMA Dropped ==
  ASSUME folder \in [Folders -> Rows], NEW f \in Active,
         folder' = [folder EXCEPT ![f] = [folder[f] EXCEPT !.state = "trash"]]
  PROVE  Shown' = List!Without(f)
<1>1. Active' = Active \ {f} /\ \A g \in Active \ {f} : folder'[g] = folder[g]
  BY DEF Active, Rows
<1>2. \A g, h : <<g, h>> \in Shown' <=> <<g, h>> \in List!Without(f)
  BY <1>1 DEF Shown, Listed, List!Without
<1>3. /\ \A p \in Shown' : \E g, h : p = <<g, h>>
      /\ \A p \in List!Without(f) : \E g, h : p = <<g, h>>
  BY DEF Shown, List!Without
<1> QED
  BY <1>2, <1>3

-----------------------------------------------------------------------------
\* What a step of one request makes of what is asked.
LEMMA AskedGoto ==
  ASSUME TypeOK, NEW w \in Workers, NEW r, Goto(w, r)
  PROVE  /\ Asked' = [Asked EXCEPT ![w] = AskedBy(r)]
         /\ Asked[w] = AskedBy(req[w])
<1>1. \A v \in Workers : req'[v] = IF v = w THEN r ELSE req[v]
  BY DEF TypeOK, Goto
<1> QED
  BY <1>1 DEF Asked

\* The writer's change is made, and nobody else's.
LEMMA AskedWrite ==
  ASSUME TypeOK, NEW f, NEW row, NEW w, Write(f, row, w)
  PROVE  /\ w \in Workers => Asked' = [Asked EXCEPT ![w] = List!Nothing]
         /\ w \notin Workers => Asked' = Asked
<1>1. ASSUME NEW v \in Workers, v # w PROVE AskedBy(req'[v]) = AskedBy(req[v])
  <2>1. CASE req[v] = Idle
    BY <1>1, <2>1 DEF Write
  <2>2. CASE req[v] # Idle
    <3> DEFINE q == [req[v] EXCEPT !.stale = TRUE,
                               !.written = @ \cup ({f} \cap Used(req[v]))]
    <3>1. req'[v] = q
      BY <1>1, <2>2 DEF Write
    <3>2. CASE req[v] \in CreateReqs
      <4>1. q.step = "create" /\ req[v].step = "create"
        BY <3>2 DEF CreateReqs
      <4>2. q # Idle
        BY <4>1 DEF Idle
      <4> HIDE DEF q
      <4> QED
        BY <2>2, <3>1, <4>1, <4>2 DEF AskedBy
    <3>3. CASE req[v] \in MoveReqs
      <4>1. /\ q.step = req[v].step /\ q.step \in Steps
            /\ q.target = req[v].target /\ q.ref = req[v].ref /\ q.before = req[v].before
        BY <3>3 DEF MoveReqs
      <4>2. q # Idle /\ q.step # "create"
        BY <4>1 DEF Idle, Steps
      <4> HIDE DEF q
      <4> QED
        BY <2>2, <3>1, <4>1, <4>2 DEF AskedBy
    <3> QED
      BY <2>2, <3>2, <3>3 DEF TypeOK
  <2> QED
    BY <2>1, <2>2
<1>2. ASSUME w \in Workers PROVE AskedBy(req'[w]) = List!Nothing
  BY <1>2 DEF Write, AskedBy, List!Nothing
<1> QED
  BY <1>1, <1>2 DEF Asked


\* What is asked of the list: a creation, or the place before or after the reference.
LEMMA AskedOf ==
  /\ AskedBy(Idle) = List!Nothing
  /\ \A r \in CreateReqs : AskedBy(r) = [kind |-> "add"]
  /\ \A r \in MoveReqs :
       AskedBy(r) = [kind |-> IF r.before THEN "before" ELSE "after",
                     folder |-> r.target, reference |-> r.ref]
<1>1. ASSUME NEW r \in CreateReqs PROVE r # Idle /\ r.step = "create"
  BY DEF CreateReqs, Idle
<1>2. ASSUME NEW r \in MoveReqs PROVE r # Idle /\ r.step # "create"
  BY DEF MoveReqs, Steps, Idle
<1> QED
  BY <1>1, <1>2 DEF AskedBy, List!Nothing

\* Each request asks for its change when it begins.
LEMMA AskStep ==
  ASSUME TypeOK, UNCHANGED folder, NEW w \in Workers, req[w] = Idle,
         NEW r \in CreateReqs \cup MoveReqs, Goto(w, r)
  PROVE  List!Ask(w)
<1>1. AskedBy(r) \in List!Changes
  <2>1. CASE r \in CreateReqs
    BY <2>1, AskedOf DEF List!Changes
  <2>2. CASE r \in MoveReqs
    BY <2>2, AskedOf DEF MoveReqs, List!Changes
  <2> QED
    BY <2>1, <2>2
<1>2. Shown' = Shown
  BY DEF Shown, Listed, Active
<1> QED
  BY <1>1, <1>2, AskedGoto, AskedOf DEF List!Ask

\* While it reads it asks for the same, and it may end without a change.
LEMMA ReadStep ==
  ASSUME TypeOK, UNCHANGED folder, NEW w \in Workers, NEW r, Goto(w, r),
         r = Idle \/ (r \in MoveReqs /\ req[w] \in MoveReqs /\ r.target = req[w].target
                        /\ r.ref = req[w].ref /\ r.before = req[w].before)
  PROVE  List!Make(w) \/ UNCHANGED <<Shown, Asked>>
<1>1. Shown' = Shown
  BY DEF Shown, Listed, Active
<1>2. CASE r = Idle
  <2>1. Asked' = [Asked EXCEPT ![w] = List!Nothing]
    BY <1>2, AskedGoto, AskedOf
  <2> QED
    BY <1>1, <2>1 DEF List!Make
<1>3. CASE r # Idle
  <2>1. AskedBy(r) = AskedBy(req[w])
    BY <1>3, AskedOf
  <2>2. Asked' = [Asked EXCEPT ![w] = Asked[w]]
    BY <2>1, AskedGoto
  <2>3. Asked' = Asked
    BY <2>2 DEF Asked
  <2> QED
    BY <1>1, <2>3
<1> QED
  BY <1>2, <1>3

\* A creation adds its folder at the end.
LEMMA CreateAdds ==
  ASSUME OrderInv, NEW w \in Workers, NEW f \in Folders, Create(w, f), ~spoilt'
  PROVE  List!Make(w)
<1> DEFINE row == [state |-> "active", order |-> req[w].order]
<1>0. Write(f, row, w) /\ TypeOK /\ spoilt \in BOOLEAN
  BY DEF Create, OrderInv, IInv
<1>1. req[w] \in CreateReqs /\ Fresh(req[w]) /\ ~req[w].stale
  <2>1. req[w] \in CreateReqs
    BY DEF Create, OrderInv, IInv, TypeOK, Idle, MoveReqs, Steps
  <2> QED
    BY <2>1 DEF Create, OrderInv
<1>2. folder \in [Folders -> Rows] /\ folder' = [folder EXCEPT ![f] = row]
  BY <1>0 DEF Write, TypeOK
<1>3. /\ row.order \in Int /\ \A g \in Active : folder[g].order \in Int
      /\ \A g \in Active : folder[g].order < row.order
  <2>1. row.order = req[w].order /\ req[w].order \in Orders
    BY <1>1 DEF CreateReqs
  <2>2. \A g \in Active : folder[g].order \in Orders
    BY <1>2 DEF Active, Rows
  <2> QED
    BY <1>1, <2>1, <2>2, OrderAssumption DEF Fresh, Create, Orders
<1>4. f \notin Active
  <2>1. New \in SUBSET Nat /\ New # {}
    BY OrderAssumption DEF New, Create
  <2>2. \E x \in New : \A y \in New : y >= x
    BY <2>1, LeastNatural
  <2>3. f \in New
    BY <2>2 DEF MinOf, Create
  <2> QED
    BY <2>3 DEF New, Active
<1>5. List!PutBehind(Active, f)
  BY <1>2, <1>3, Arranged
<1>6. List!Add(f)
  BY <1>4, <1>5, ShownIs DEF List!Add
<1>7. Asked[w].kind = "add"
  BY <1>1, AskedOf DEF Asked
<1>8. Asked' = [Asked EXCEPT ![w] = List!Nothing]
  BY <1>0, AskedWrite
<1> QED
  BY <1>6, <1>7, <1>8 DEF List!Make

\* A move puts its folder right before or right after the reference.
LEMMA MoveDrags ==
  ASSUME OrderInv, NEW w \in Workers, Move(w), ~spoilt'
  PROVE  List!Make(w)
<1> DEFINE r == req[w]
           row == [state |-> "active", order |-> r.order]
           ahead == List!Ahead(r.ref)
<1>0. Write(r.target, row, w) /\ TypeOK
  BY DEF Move, OrderInv, IInv
<1>1. folder \in [Folders -> Rows] /\ folder' = [folder EXCEPT ![r.target] = row]
  BY <1>0 DEF Write, TypeOK
<1>2. /\ r \in MoveReqs /\ Distinct
      /\ r.order \in Int /\ \A g \in Active : folder[g].order \in Int
      /\ r.target \in Active /\ r.ref \in Active /\ r.ref # r.target
      /\ OnSide(r, folder[r.ref].order) /\ Free(r)
  BY MoveFits
<1>3. \A g \in Active : g \in ahead <=> g # r.ref /\ folder[g].order < folder[r.ref].order
  BY <1>2, ShownIs DEF List!Ahead, Listed, Distinct
<1>4. r.target \in Folders /\ r.before \in BOOLEAN
  BY <1>2 DEF MoveReqs
<1>5. /\ Asked[w].kind = IF r.before THEN "before" ELSE "after"
      /\ Asked[w].folder = r.target /\ Asked[w].reference = r.ref
  BY <1>2, AskedOf DEF Asked
<1>6. Asked' = [Asked EXCEPT ![w] = List!Nothing]
  BY <1>0, AskedWrite
<1>7. row.state = "active" /\ row.order = r.order
  OBVIOUS
<1> HIDE DEF ahead, row, r
<1>8. CASE r.before
  <2>1. \A g \in Active \ {r.target} : IF g \in ahead THEN folder[g].order < r.order
                                       ELSE r.order < folder[g].order
    BY <1>2, <1>3, <1>8 DEF Free, OnSide
  <2>2. List!PutBehind(ahead, r.target)
    BY <1>1, <1>2, <1>4, <1>7, <2>1, Arranged
  <2>3. List!Drag(r.target, r.ref, ahead)
    BY <1>2, <2>2, ShownIs DEF List!Drag
  <2> QED
    BY <1>5, <1>6, <1>8, <2>3 DEF List!Make, ahead
<1>9. CASE ~r.before
  <2> DEFINE front == ahead \cup {r.ref}
  <2>1. \A g \in Active \ {r.target} : IF g \in front THEN folder[g].order < r.order
                                       ELSE r.order < folder[g].order
    BY <1>2, <1>3, <1>9 DEF Free, OnSide, Distinct
  <2>2. List!PutBehind(front, r.target)
    <3> HIDE DEF front
    <3> QED
      BY <1>1, <1>2, <1>4, <1>7, <2>1, Arranged
  <2>3. List!Drag(r.target, r.ref, front)
    BY <1>2, <2>2, ShownIs DEF List!Drag
  <2> QED
    BY <1>5, <1>6, <1>9, <2>3 DEF List!Make, ahead
<1> QED
  BY <1>8, <1>9


\* A deletion takes its folder out of the list.
LEMMA DeleteDrops ==
  ASSUME OrderInv, NEW f \in Folders, SoftDelete(f)
  PROVE  List!Drop(f) /\ UNCHANGED spoilt
<1>1. f \in Active /\ Write(f, [folder[f] EXCEPT !.state = "trash"], None) /\ TypeOK
  BY DEF SoftDelete, OrderInv, IInv
<1>2. Shown' = List!Without(f)
  <2>1. folder' = [folder EXCEPT ![f] = [folder[f] EXCEPT !.state = "trash"]]
    BY <1>1 DEF Write
  <2> QED
    BY <1>1, <2>1, Dropped DEF TypeOK
<1>3. Asked' = Asked
  <2>1. None \notin Workers
    BY OrderAssumption
  <2> QED
    BY <1>1, <2>1, AskedWrite
<1> QED
  BY <1>1, <1>2, <1>3, ShownIs DEF List!Drop, SoftDelete

\* Every step is a step of the list, changes nothing of it, or ends its promise.
LEMMA ListStep ==
  ASSUME OrderInv, [Next]_vars
  PROVE  [List!Next]_(List!vars)
<1>0. TypeOK /\ spoilt \in BOOLEAN
  BY DEF OrderInv, IInv
<1>1. CASE UNCHANGED vars
  <2>1. Shown' = Shown /\ Asked' = Asked /\ spoilt' = spoilt
    BY <1>1 DEF vars, Shown, Listed, Active, Asked
  <2> QED
    BY <2>1 DEF List!vars
<1>2. ASSUME NEW w \in Workers, ReadLast(w) PROVE List!Next
  <2> DEFINE r == [step |-> "create", order |-> OrderAfterLast(Active), ref |-> None,
                   stale |-> FALSE, written |-> {}]
  <2>1. r \in CreateReqs
    BY <1>2 DEF ReadLast, CreateReqs
  <2>2. List!Ask(w) /\ UNCHANGED spoilt
    BY <1>0, <1>2, <2>1, AskStep DEF ReadLast
  <2> QED
    BY <2>2 DEF List!Next
<1>3. ASSUME NEW w \in Workers, NEW t \in Folders, NEW ref \in Folders,
             NEW before \in BOOLEAN, ReadTarget(w, t, ref, before)
      PROVE  List!Next
  <2> DEFINE r == [step |-> "reference", target |-> t, targetOrder |-> folder[t].order,
                   ref |-> ref, before |-> before, order |-> None, gap |-> "open",
                   stale |-> FALSE, written |-> {}]
  <2>1. r \in MoveReqs
    BY <1>0 DEF TypeOK, Rows, MoveReqs, Steps
  <2>2. List!Ask(w) /\ UNCHANGED spoilt
    BY <1>0, <1>3, <2>1, AskStep DEF ReadTarget
  <2> QED
    BY <2>2 DEF List!Next
<1>4. ASSUME NEW w \in Workers, NEW r, Goto(w, r), UNCHANGED <<folder, spoilt>>,
             List!Make(w) \/ UNCHANGED <<Shown, Asked>>
      PROVE  [List!Next]_(List!vars)
  BY <1>4 DEF List!Next, List!vars
<1>5. ASSUME NEW w \in Workers, ReadReference(w) PROVE [List!Next]_(List!vars)
  <2> DEFINE r == [req[w] EXCEPT !.step = "neighbour", !.order = folder[req[w].ref].order]
  <2>1. req[w] \in MoveReqs
    BY <1>0, <1>5 DEF ReadReference, TypeOK, Idle, CreateReqs
  <2>2. /\ r \in MoveReqs /\ r.target = req[w].target
        /\ r.ref = req[w].ref /\ r.before = req[w].before
    BY <1>0, <2>1 DEF TypeOK, Rows, MoveReqs, Steps
  <2>3. Goto(w, r) /\ UNCHANGED <<folder, spoilt>>
    BY <1>5 DEF ReadReference
  <2> HIDE DEF r
  <2> QED
    BY <1>0, <1>4, <2>1, <2>2, <2>3, ReadStep
<1>6. ASSUME NEW w \in Workers, ReadNeighbour(w) PROVE [List!Next]_(List!vars)
  <2>1. req[w] \in MoveReqs /\ UNCHANGED <<folder, spoilt>>
    BY <1>0, <1>6 DEF ReadNeighbour, TypeOK, Idle, CreateReqs
  <2>2. PICK o \in Orders :
          Goto(w, IF o = req[w].targetOrder THEN Idle
                  ELSE [req[w] EXCEPT !.step = "move", !.order = o, !.targetOrder = None,
                                      !.gap = Gap(req[w], Nearest(req[w]))])
    BY <1>6 DEF ReadNeighbour
  <2> DEFINE r == [req[w] EXCEPT !.step = "move", !.order = o, !.targetOrder = None,
                                 !.gap = Gap(req[w], Nearest(req[w]))]
  <2>3. /\ r \in MoveReqs /\ r.target = req[w].target
        /\ r.ref = req[w].ref /\ r.before = req[w].before
    BY <2>1 DEF MoveReqs, Steps, Gap
  <2>4. Goto(w, Idle) \/ Goto(w, r)
    BY <2>2
  <2> HIDE DEF r
  <2> QED
    BY <1>0, <1>4, <2>1, <2>3, <2>4, ReadStep
<1>7. ASSUME NEW w \in Workers, Stop(w) PROVE [List!Next]_(List!vars)
  BY <1>0, <1>4, <1>7, ReadStep DEF Stop
<1>8. ASSUME NEW w \in Workers, NEW f \in Folders, Create(w, f) PROVE List!Next
  <2>1. ~spoilt' => List!Make(w) /\ spoilt' = spoilt
    BY <1>0, <1>8, CreateAdds DEF Create
  <2> QED
    BY <2>1 DEF List!Next
<1>9. ASSUME NEW w \in Workers, Move(w) PROVE List!Next
  <2>1. ~spoilt' => List!Make(w) /\ spoilt' = spoilt
    BY <1>0, <1>9, MoveDrags DEF Move
  <2> QED
    BY <2>1 DEF List!Next
<1>10. ASSUME NEW f \in Folders, SoftDelete(f) \/ Restore(f) PROVE List!Next
  BY <1>10, DeleteDrops DEF List!Next, Restore
<1> QED
  BY <1>1, <1>2, <1>3, <1>5, <1>6, <1>7, <1>8, <1>9, <1>10 DEF Next

\* Requests that do not overlap, without a restore, a neighbour at zero or an exhausted
\* gap, keep the list as the user arranged it, for any numbers of folders and requests:
\* new folders come last, and a moved one is next to its reference (create-folder,
\* reorder-folder).
THEOREM ImplementsList == Spec => ListKept
<1>1. Init => List!Init
  <2> SUFFICES ASSUME Init PROVE List!Init
    OBVIOUS
  <2>1. Active = {} /\ \A w \in Workers : req[w] = Idle
    BY DEF Init, Active
  <2>2. Shown = {}
    BY <2>1 DEF Shown
  <2>3. Asked = [w \in Workers |-> List!Nothing]
    BY <2>1, AskedOf DEF Asked
  <2> QED
    BY <2>2, <2>3 DEF List!Init, Init
<1>2. OrderInv /\ [Next]_vars => [List!Next]_(List!vars)
  BY ListStep
<1> QED
  BY <1>1, <1>2, OrderKnown, PTL DEF Spec, ListKept, List!Spec


=============================================================================
