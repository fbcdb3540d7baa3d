--------------------------- MODULE BillingPayments ---------------------------
(***************************************************************************)
(* Theorems about the money in Billing: an order is charged once, recorded *)
(* outcomes are the gateway's, periods that were paid for are kept, and    *)
(* the payments implement PaymentLedger.                                   *)
(***************************************************************************)
EXTENDS BillingProofs

\* What a step does to a job.
Moves(v) ==
  \/ StartExpire(v) \/ FindDue(v)
  \/ \E a \in Attempts : ClaimInitial(v, a) \/ ReadAttempt(v, a)
  \/ \E d \in DueTimes : LeaseRenewal(v, d)
  \/ IssueBillingKey(v) \/ PostCharge(v) \/ ReceiveCharge(v)
  \/ LookupAnswers(v) \/ LookupFails(v) \/ ClaimRenewal(v)

\* A worker stays as it is, finishes, or takes one of the steps that need a worker.
LEMMA JobMoves ==
  ASSUME TypeOK, [Next]_vars, NEW v \in Workers
  PROVE  job'[v] = job[v] \/ job'[v] = Idle \/ Moves(v)
<1>0. job \in [Workers -> Jobs]
  BY DEF TypeOK
<1>1. ASSUME NEW w \in Workers, NEW j, Become(w, j) PROVE v = w \/ job'[v] = job[v]
  BY <1>0, <1>1 DEF Become
<1>2. ASSUME NEW w \in Workers, Finish(w) PROVE job'[v] = job[v] \/ job'[v] = Idle
  BY <1>0, <1>2 DEF Finish, Become
<1>3. ASSUME NEW w \in Workers, Moves(w) PROVE v = w \/ job'[v] = job[v]
  BY <1>1, <1>3
  DEF Moves, StartExpire, FindDue, ClaimInitial, ReadAttempt, LeaseRenewal, Start,
      IssueBillingKey, PostCharge, ReceiveCharge, LookupAnswers, LookupFails, ClaimRenewal,
      Goto
<1>4. ASSUME NEW w \in Workers, Begin(w) PROVE Moves(w) \/ UNCHANGED job
  BY <1>4 DEF Begin, Confirm, Moves, Resume
<1>5. ASSUME NEW w \in Workers, Continue(w) PROVE Moves(w) \/ Finish(w)
  BY <1>5
  DEF Continue, Moves, ExpireIfUnchanged, IssueFails, ChargeFails, CompleteInitial,
      FailInitial, LeaveInitial, SkipRenewal, CompleteRenewal, LeaveCharge, DeferRenewal,
      SkipSettled
<1>6. CASE User \/ Gateway \/ Timers \/ UNCHANGED vars
  BY <1>6
  DEF User, Gateway, Timers, vars, Cancel, Resume, StartBillingAuth, FinishBillingAuth,
      Process, Refund, Tick, InitialBecomesDue, RenewalBecomesDue
<1>7. ASSUME NEW w \in Workers, Stop(w) PROVE Finish(w)
  BY <1>7 DEF Stop
<1> QED
  BY <1>2, <1>3, <1>4, <1>5, <1>6, <1>7 DEF Next

\* What a job is about, and how far it has got.
Is(j, task, step, o, response) ==
  j.task = task /\ j.step = step /\ j.order = o /\ j.response = response

\* A step that a worker goes on with keeps its task, its order and its period.
Goes(w, step, response) ==
  /\ Is(job'[w], job[w].task, step, job[w].order, response)
  /\ job'[w].end = job[w].end

\* The jobs that the steps of a worker leave it with.
LEMMA MovedJob ==
  ASSUME TypeOK, NEW w \in Workers
  PROVE  /\ Finish(w) => Is(job'[w], "idle", "none", None, "none")
         /\ StartExpire(w) => /\ Is(job'[w], "expire", "settle", None, "none")
                              /\ job'[w].end = sub.periodEnd
         /\ FindDue(w) => /\ Is(job'[w], "charge", "claim", sub.nextBillingAt, "none")
                          /\ job'[w].end = sub.periodEnd
         /\ \A a \in Attempts :
              /\ ClaimInitial(w, a) => Is(job'[w], "confirm", "issue", a, "none")
              /\ ReadAttempt(w, a) => Is(job'[w], "initial", "lookup", a, "none")
         /\ \A d \in DueTimes : LeaseRenewal(w, d) =>
              /\ Is(job'[w], "renewal", "lookup", d, "none")
                   \/ Is(job'[w], "renewal", "settle", d, "none")
              /\ job'[w].end = renewal[d].periodEnd
         /\ IssueBillingKey(w) => Goes(w, "charge", job[w].response)
         /\ PostCharge(w) => Goes(w, "await", job[w].response)
         /\ ReceiveCharge(w) => Goes(w, "settle", order[job[w].order])
         /\ LookupAnswers(w) => Goes(w, "settle", Seen(job[w].order))
         /\ LookupFails(w) => Goes(w, "settle", "NOT_FOUND")
         /\ ClaimRenewal(w) => Goes(w, "charge", job[w].response)
<1> USE DEF Is, Goes
<1>0. job[w] \in Jobs /\ Idle \in Jobs
  BY IdleTyped DEF TypeOK
<1>1. ASSUME NEW j, Become(w, j) PROVE job'[w] = j
  BY <1>1 DEF Become, TypeOK
<1>2. ASSUME NEW j, Start(w, j) PROVE job'[w] = j
  BY <1>1, <1>2 DEF Start
<1>3. Is(Idle, "idle", "none", None, "none")
  BY DEF Idle
<1>4. Finish(w) => Is(job'[w], "idle", "none", None, "none")
  BY <1>1, <1>3 DEF Finish
<1>5. ASSUME StartExpire(w)
      PROVE  /\ Is(job'[w], "expire", "settle", None, "none")
             /\ job'[w].end = sub.periodEnd
  BY <1>2, <1>5 DEF StartExpire, Idle
<1>6. ASSUME FindDue(w)
      PROVE  /\ Is(job'[w], "charge", "claim", sub.nextBillingAt, "none")
             /\ job'[w].end = sub.periodEnd
  BY <1>2, <1>6 DEF FindDue, Idle
<1>7. ASSUME NEW a \in Attempts, ClaimInitial(w, a)
      PROVE  Is(job'[w], "confirm", "issue", a, "none")
  BY <1>2, <1>7 DEF ClaimInitial, Idle
<1>8. ASSUME NEW a \in Attempts, ReadAttempt(w, a)
      PROVE  Is(job'[w], "initial", "lookup", a, "none")
  BY <1>2, <1>8 DEF ReadAttempt, Reconciling, Idle
<1>9. ASSUME NEW d \in DueTimes, LeaseRenewal(w, d)
      PROVE  /\ Is(job'[w], "renewal", "lookup", d, "none")
                  \/ Is(job'[w], "renewal", "settle", d, "none")
             /\ job'[w].end = renewal[d].periodEnd
  BY <1>2, <1>9 DEF LeaseRenewal, Idle
<1>10. IssueBillingKey(w) => Goes(w, "charge", job[w].response)
  BY <1>0, <1>1 DEF IssueBillingKey, Jobs
<1>11. PostCharge(w) => Goes(w, "await", job[w].response)
  BY <1>0, <1>1 DEF PostCharge, Goto, Jobs
<1>12. ReceiveCharge(w) => Goes(w, "settle", order[job[w].order])
  BY <1>0, <1>1 DEF ReceiveCharge, Jobs
<1>13. LookupAnswers(w) => Goes(w, "settle", Seen(job[w].order))
  BY <1>0, <1>1 DEF LookupAnswers, Jobs
<1>14. LookupFails(w) => Goes(w, "settle", "NOT_FOUND")
  BY <1>0, <1>1 DEF LookupFails, Jobs
<1>15. ClaimRenewal(w) => Goes(w, "charge", job[w].response)
  BY <1>0, <1>1 DEF ClaimRenewal, Goto, Jobs
<1> QED
  BY <1>4, <1>5, <1>6, <1>7, <1>8, <1>9, <1>10, <1>11, <1>12, <1>13, <1>14, <1>15

----------------------------------------------------------------------------
\* Rows.

\* The row of a purchase keeps its status and its time, or the purchase is claimed,
\* completed or failed.
LEMMA InitialRow ==
  ASSUME TypeOK, JobOK, [Next]_vars, NEW a \in Attempts
  PROVE  \/ /\ initial'[a].status = initial[a].status
            /\ initial'[a].createdAt = initial[a].createdAt
         \/ \E w \in Workers :
              \/ ClaimInitial(w, a)
              \/ (CompleteInitial(w) \/ FailInitial(w)) /\ job[w].order = a
<1>0. initial \in [Attempts -> InitialRows]
  BY DEF TypeOK
<1> DEFINE Same == /\ initial'[a].status = initial[a].status
                   /\ initial'[a].createdAt = initial[a].createdAt
<1>1. CASE Cancel
  BY <1>0, <1>1 DEF Cancel, MarkCancelled, InitialRows
<1>2. ASSUME NEW w \in Workers, IssueBillingKey(w) PROVE Same
  BY <1>0, <1>2 DEF IssueBillingKey, SaveBillingKey, InitialRows
<1>3. ASSUME NEW w \in Workers, CompleteInitial(w) \/ FailInitial(w), job[w].order # a
      PROVE  Same
  BY <1>0, <1>3 DEF CompleteInitial, FailInitial, InitialRows
<1>4. ASSUME NEW b \in Attempts,
             InitialBecomesDue(b) \/ \E w \in Workers : ReadAttempt(w, b)
      PROVE  Same
  BY <1>0, <1>4 DEF InitialBecomesDue, ReadAttempt, Postponed, InitialRows
<1>5. ASSUME NEW w \in Workers, NEW b \in Attempts, ClaimInitial(w, b), b # a PROVE Same
  BY <1>0, <1>5 DEF ClaimInitial, InitialRows
<1> QED
  BY <1>1, <1>2, <1>3, <1>4, <1>5, InitialWriters

\* A renewal keeps its status and its period, or is claimed or completed.
LEMMA RenewalRow ==
  ASSUME TypeOK, JobOK, [Next]_vars, NEW d \in DueTimes
  PROVE  \/ /\ renewal'[d].status = renewal[d].status
            /\ renewal'[d].periodEnd = renewal[d].periodEnd
         \/ \E w \in Workers :
              (ClaimRenewal(w) \/ CompleteRenewal(w)) /\ job[w].order = d
<1>0. renewal \in [DueTimes -> RenewalRows]
  BY DEF TypeOK
<1> DEFINE Same == /\ renewal'[d].status = renewal[d].status
                   /\ renewal'[d].periodEnd = renewal[d].periodEnd
<1>1. ASSUME NEW w \in Workers, ClaimRenewal(w) \/ CompleteRenewal(w), job[w].order # d
      PROVE  Same
  BY <1>0, <1>1 DEF ClaimRenewal, CompleteRenewal, RenewalRows
<1>2. ASSUME NEW w \in Workers, DeferRenewal(w) PROVE Same
  <2>1. job[w].order \in DueTimes
    BY <1>2 DEF DeferRenewal, At, JobOK
  <2>2. \A row \in RenewalRows : /\ Deferred(row, job[w]).status = row.status
                                 /\ Deferred(row, job[w]).periodEnd = row.periodEnd
    BY DEF Deferred, RenewalRows
  <2> QED
    BY <1>0, <1>2, <2>1, <2>2 DEF DeferRenewal
<1>3. ASSUME NEW e \in DueTimes, RenewalBecomesDue(e) \/ \E w \in Workers : LeaseRenewal(w, e)
      PROVE  Same
  BY <1>0, <1>3 DEF RenewalBecomesDue, LeaseRenewal, RenewalRows
<1> QED
  BY <1>1, <1>2, <1>3, RenewalWriters

\* What the claims and the settlements do to the row of their order.
LEMMA RowWrites ==
  ASSUME TypeOK, JobOK, NEW w \in Workers
  PROVE  /\ \A a \in Attempts : ClaimInitial(w, a) =>
              /\ initial[a].status = "NONE" /\ initial'[a].status = "PENDING"
              /\ initial'[a].createdAt = now
         /\ CompleteInitial(w) =>
              /\ job[w].order \in Attempts /\ initial[job[w].order].status = "PENDING"
              /\ initial'[job[w].order].status = "DONE"
         /\ FailInitial(w) =>
              /\ job[w].order \in Attempts /\ initial[job[w].order].status = "PENDING"
              /\ initial'[job[w].order].status \in {"FAILED", "CANCELED"}
         /\ ClaimRenewal(w) =>
              /\ job[w].order \in DueTimes /\ renewal[job[w].order].status = "NONE"
              /\ renewal'[job[w].order].status = "PENDING"
              /\ renewal'[job[w].order].periodEnd = sub.periodEnd
         /\ CompleteRenewal(w) =>
              /\ job[w].order \in DueTimes /\ renewal[job[w].order].status = "PENDING"
              /\ renewal'[job[w].order].status = "DONE"
              /\ renewal'[job[w].order].periodEnd = renewal[job[w].order].periodEnd
<1>0. initial \in [Attempts -> InitialRows] /\ renewal \in [DueTimes -> RenewalRows]
  BY DEF TypeOK
<1>1. ASSUME NEW a \in Attempts, ClaimInitial(w, a)
      PROVE  /\ initial[a].status = "NONE" /\ initial'[a].status = "PENDING"
             /\ initial'[a].createdAt = now
  BY <1>0, <1>1 DEF ClaimInitial, Claimed
<1>2. ASSUME CompleteInitial(w)
      PROVE  /\ job[w].order \in Attempts /\ initial[job[w].order].status = "PENDING"
             /\ initial'[job[w].order].status = "DONE"
  BY <1>0, <1>2 DEF CompleteInitial, Completes, StillPending, At, JobOK, InitialRows
<1>3. ASSUME FailInitial(w)
      PROVE  /\ job[w].order \in Attempts /\ initial[job[w].order].status = "PENDING"
             /\ initial'[job[w].order].status \in {"FAILED", "CANCELED"}
  BY <1>0, <1>3 DEF FailInitial, Fails, StillPending, At, JobOK, InitialRows
<1>4. ASSUME ClaimRenewal(w)
      PROVE  /\ job[w].order \in DueTimes /\ renewal[job[w].order].status = "NONE"
             /\ renewal'[job[w].order].status = "PENDING"
             /\ renewal'[job[w].order].periodEnd = sub.periodEnd
  BY <1>0, <1>4 DEF ClaimRenewal, Claimable, At, JobOK
<1>5. ASSUME CompleteRenewal(w)
      PROVE  /\ job[w].order \in DueTimes /\ renewal[job[w].order].status = "PENDING"
             /\ renewal'[job[w].order].status = "DONE"
             /\ renewal'[job[w].order].periodEnd = renewal[job[w].order].periodEnd
  BY <1>0, <1>5 DEF CompleteRenewal, CompletesRenewal, At, JobOK, RenewalRows
<1> QED
  BY <1>1, <1>2, <1>3, <1>4, <1>5

\* Purchases and renewals have different names.
LEMMA StatusOf ==
  /\ \A a \in Attempts : Status(a) = initial[a].status /\ a \notin DueTimes
  /\ \A d \in DueTimes : Status(d) = renewal[d].status /\ d \notin Attempts
  BY BillingAssumption DEF Status, DueTimes

----------------------------------------------------------------------------
\* Charges.

\* An order that has a row keeps one.
LEMMA StatusKept ==
  ASSUME TypeOK, JobOK, [Next]_vars, NEW o \in Orders, Status(o) # "NONE"
  PROVE  Status(o)' # "NONE"
<1>1. CASE o \in Attempts
  BY <1>1, InitialRow, RowWrites DEF Status
<1>2. CASE o \notin Attempts
  BY <1>2, RenewalRow, RowWrites DEF Status, Orders
<1> QED
  BY <1>1, <1>2

\* A claim takes an order that had no row, and touches no other worker.
LEMMA ClaimsNew ==
  ASSUME TypeOK, JobOK, NEW w \in Workers,
         ClaimRenewal(w) \/ \E a \in Attempts : ClaimInitial(w, a)
  PROVE  /\ UNCHANGED posts
         /\ \A v \in Workers \ {w} : job'[v] = job[v]
         /\ \E o \in Orders :
              job'[w].order = o /\ Status(o) = "NONE" /\ Status(o)' # "NONE"
<1>1. CASE ClaimRenewal(w)
  <2>1. PICK o \in DueTimes : o = job[w].order
    BY <1>1, RowWrites
  <2>2. o \notin Attempts /\ renewal[o].status = "NONE" /\ renewal'[o].status = "PENDING"
    BY <1>1, <2>1, RowWrites, StatusOf
  <2>3. Status(o) = "NONE" /\ Status(o)' # "NONE"
    BY <2>2 DEF Status
  <2>4. job'[w].order = o /\ o \in Orders
    BY <1>1, <2>1, MovedJob DEF Goes, Is, Orders
  <2>5. UNCHANGED posts /\ \A v \in Workers \ {w} : job'[v] = job[v]
    BY <1>1 DEF ClaimRenewal, Goto, Become, gateway, TypeOK
  <2> QED
    BY <2>3, <2>4, <2>5
<1>2. ASSUME NEW a \in Attempts, ClaimInitial(w, a)
      PROVE  /\ UNCHANGED posts
             /\ \A v \in Workers \ {w} : job'[v] = job[v]
             /\ \E o \in Orders :
                  job'[w].order = o /\ Status(o) = "NONE" /\ Status(o)' # "NONE"
  <2>1. Status(a) = "NONE" /\ Status(a)' # "NONE"
    BY <1>2, RowWrites DEF Status
  <2>2. job'[w].order = a /\ a \in Orders
    BY <1>2, MovedJob DEF Is, Orders
  <2>3. UNCHANGED posts /\ \A v \in Workers \ {w} : job'[v] = job[v]
    BY <1>2 DEF ClaimInitial, Start, Become, gateway, TypeOK
  <2> QED
    BY <2>1, <2>2, <2>3
<1> QED
  BY <1>1, <1>2

\* Only a claim makes a worker about to charge.
LEMMA ChargingWriters ==
  ASSUME TypeOK, JobOK, [Next]_vars, NEW v \in Workers, Charging(v)'
  PROVE  \/ Charging(v) /\ job'[v].order = job[v].order /\ ~PostCharge(v)
         \/ ClaimRenewal(v)
         \/ \E a \in Attempts : ClaimInitial(v, a)
<1>1. job'[v].step \in {"issue", "charge"} /\ job'[v].task \in {"confirm", "charge"}
  BY DEF Charging, At
<1>2. CASE job'[v] = job[v]
  <2>1. ~PostCharge(v)
    <3>1. PostCharge(v) => job'[v].step = "await"
      BY MovedJob DEF Is, Goes
    <3> QED
      BY <1>1, <3>1
  <2> QED
    BY <1>2, <2>1 DEF Charging, At
<1>3. job'[v] # Idle
  BY <1>1, IdleTyped
<1>4. ~StartExpire(v) /\ ~FindDue(v)
  BY <1>1, MovedJob DEF Is
<1>5. \A a \in Attempts : ~ReadAttempt(v, a)
  BY <1>1, MovedJob DEF Is
<1>6. \A d \in DueTimes : ~LeaseRenewal(v, d)
  BY <1>1, MovedJob DEF Is
<1>7. ~PostCharge(v) /\ ~ReceiveCharge(v) /\ ~LookupAnswers(v) /\ ~LookupFails(v)
  BY <1>1, MovedJob DEF Is, Goes
<1>8. CASE IssueBillingKey(v)
  <2>1. job'[v].order = job[v].order
    BY <1>8, MovedJob DEF Is, Goes
  <2>2. Charging(v)
    BY <1>8 DEF IssueBillingKey, Charging, At
  <2> QED
    BY <1>7, <2>1, <2>2
<1> QED
  BY <1>2, <1>3, <1>4, <1>5, <1>6, <1>7, <1>8, JobMoves DEF Moves

\* A request leaves only from a worker that is about to charge, for its order.
LEMMA PostWriters ==
  ASSUME TypeOK, JobOK, [Next]_vars
  PROVE  \/ UNCHANGED posts
         \/ \E w \in Workers :
              /\ PostCharge(w) /\ Charging(w) /\ job[w].order \in Orders
              /\ posts' = [posts EXCEPT ![job[w].order] = @ + 1]
<1>1. ASSUME NEW w \in Workers, PostCharge(w)
      PROVE  /\ Charging(w) /\ job[w].order \in Orders
             /\ posts' = [posts EXCEPT ![job[w].order] = @ + 1]
  BY <1>1 DEF PostCharge, Charging, At, JobOK, Orders
<1>2. CASE Gateway
  BY <1>2 DEF Gateway, Process, Refund
<1> QED
  BY <1>1, <1>2, RestWriters DEF gateway

\* A worker that is about to charge is bound to an order.
LEMMA ChargingOrder ==
  ASSUME JobOK, NEW w \in Workers, Charging(w)
  PROVE  job[w].order \in Orders
  BY DEF JobOK, Charging, At, Orders

\* Nobody but the worker that claimed an order charges it, and that worker does once.
LEMMA ChargeStep ==
  ASSUME TypeOK, JobOK, ChargeOK, ChargedOnce, [Next]_vars
  PROVE  ChargeOK' /\ ChargedOnce'
<1>0. posts \in [Orders -> Nat]
  BY DEF TypeOK
<1>1. ASSUME NEW o \in Orders, Status(o)' = "NONE" PROVE posts'[o] = 0
  <2>1. Status(o) = "NONE" /\ posts[o] = 0
    BY <1>1, StatusKept DEF ChargeOK
  <2>2. ASSUME NEW w \in Workers, Charging(w) PROVE job[w].order # o
    BY <2>1, <2>2 DEF ChargeOK
  <2> QED
    BY <1>0, <2>1, <2>2, PostWriters
<1>2. ASSUME NEW w \in Workers, Charging(w), ~PostCharge(w)
      PROVE  /\ job[w].order \in Orders /\ Status(job[w].order) # "NONE"
             /\ posts'[job[w].order] = 0
             /\ \A v \in Workers \ {w} : Charging(v) => job[v].order # job[w].order
  <2>1. /\ job[w].order \in Orders /\ Status(job[w].order) # "NONE"
        /\ posts[job[w].order] = 0
        /\ \A v \in Workers \ {w} : Charging(v) => job[v].order # job[w].order
    BY <1>2, ChargingOrder DEF ChargeOK
  <2>2. \A v \in Workers : PostCharge(v) /\ Charging(v) => job[v].order # job[w].order
    BY <1>2, <2>1
  <2>3. posts'[job[w].order] = 0
    BY <1>0, <2>1, <2>2, PostWriters
  <2> QED
    BY <2>1, <2>3
<1>3. ASSUME NEW w \in Workers, Charging(w)'
      PROVE  \E o \in Orders :
               /\ job'[w].order = o /\ posts'[o] = 0 /\ Status(o)' # "NONE"
               /\ \A v \in Workers \ {w} : Charging(v)' => job'[v].order # o
  <2>1. CASE Charging(w) /\ job'[w].order = job[w].order /\ ~PostCharge(w)
    <3>1. PICK o \in Orders : o = job[w].order
      BY <1>2, <2>1
    <3>2. posts'[o] = 0 /\ job'[w].order = o
      BY <1>2, <2>1, <3>1
    <3>3. Status(o) # "NONE"
      BY <1>2, <2>1, <3>1 DEF Status
    <3>4. Status(o)' # "NONE"
      BY <3>3, StatusKept
    <3>5. ASSUME NEW v \in Workers \ {w}, Charging(v)' PROVE job'[v].order # o
      <4>1. CASE Charging(v) /\ job'[v].order = job[v].order
        BY <1>2, <2>1, <3>1, <4>1
      <4>2. CASE ClaimRenewal(v) \/ \E a \in Attempts : ClaimInitial(v, a)
        BY <3>3, <4>2, ClaimsNew
      <4> QED
        BY <3>5, <4>1, <4>2, ChargingWriters
    <3> QED
      BY <3>2, <3>4, <3>5
  <2>2. CASE ClaimRenewal(w) \/ \E a \in Attempts : ClaimInitial(w, a)
    <3>1. PICK o \in Orders : job'[w].order = o /\ Status(o) = "NONE" /\ Status(o)' # "NONE"
      BY <2>2, ClaimsNew
    <3>2. posts'[o] = 0
      BY <2>2, <3>1, ClaimsNew DEF ChargeOK
    <3>3. ASSUME NEW v \in Workers \ {w}, Charging(v)' PROVE job'[v].order # o
      <4>1. job'[v] = job[v]
        BY <2>2, ClaimsNew
      <4>2. Charging(v)
        BY <3>3, <4>1 DEF Charging, At
      <4>3. \A p \in Orders : p = job[v].order => Status(p) # "NONE"
        BY <4>2 DEF ChargeOK, Status
      <4> QED
        BY <3>1, <4>1, <4>3
    <3> QED
      BY <3>1, <3>2, <3>3
  <2> QED
    BY <1>3, <2>1, <2>2, ChargingWriters
<1>4. \A w \in Workers : Charging(w)' =>
        /\ Status(job[w].order)' # "NONE" /\ posts'[job'[w].order] = 0
        /\ \A v \in Workers \ {w} : Charging(v)' => job'[v].order # job'[w].order
  BY <1>3 DEF Status
<1>5. ChargeOK'
  BY <1>1, <1>4 DEF ChargeOK
<1>6. ChargedOnce'
  <2>1. ASSUME NEW w \in Workers, Charging(w) PROVE posts[job[w].order] = 0
    BY <2>1 DEF ChargeOK
  <2> QED
    BY <1>0, <2>1, PostWriters DEF ChargedOnce
<1> QED
  BY <1>5, <1>6

----------------------------------------------------------------------------
\* Answers.

\* What the gateway has decided stays, except that an approval may be cancelled.
LEMMA OrderStep ==
  ASSUME TypeOK, JobOK, [Next]_vars, NEW o \in Orders
  PROVE  /\ order[o] = "DONE" => order'[o] \in {"DONE", "CANCELED"}
         /\ order[o] \in {"ABORTED", "CANCELED"} => order'[o] = order[o]
         /\ order[o] \in {"DONE", "CANCELED"} => approvedAt'[o] = approvedAt[o]
         /\ order'[o] \in {"DONE", "CANCELED"} =>
              \/ order[o] \in {"DONE", "CANCELED"}
              \/ approvedAt'[o] >= 1 /\ approvedAt'[o] <= now + Skew
<1> DEFINE Goal == /\ order[o] = "DONE" => order'[o] \in {"DONE", "CANCELED"}
                   /\ order[o] \in {"ABORTED", "CANCELED"} => order'[o] = order[o]
                   /\ order[o] \in {"DONE", "CANCELED"} => approvedAt'[o] = approvedAt[o]
                   /\ order'[o] \in {"DONE", "CANCELED"} =>
                        \/ order[o] \in {"DONE", "CANCELED"}
                        \/ approvedAt'[o] >= 1 /\ approvedAt'[o] <= now + Skew
<1>0. /\ order \in [Orders -> Answers \cup {"NONE", "INFLIGHT"}]
      /\ approvedAt \in [Orders -> Nat] /\ now \in Nat /\ Skew \in Nat
  BY BillingAssumption DEF TypeOK
<1>1. CASE UNCHANGED gateway
  BY <1>1 DEF gateway
<1>2. ASSUME NEW w \in Workers, PostCharge(w) PROVE Goal
  BY <1>0, <1>2 DEF PostCharge
<1>3. ASSUME NEW p \in Orders, NEW t \in GatewayTimes, Process(p, "DONE", t) PROVE Goal
  <2>1. t \in Nat /\ t >= 1 /\ t <= now + Skew
    BY <1>0 DEF GatewayTimes
  <2>2. CASE p = o
    BY <1>0, <1>3, <2>1, <2>2 DEF Process
  <2>3. CASE p # o
    BY <1>0, <1>3, <2>3 DEF Process
  <2> QED
    BY <2>2, <2>3
<1>4. ASSUME NEW p \in Orders, NEW outcome \in {"MISMATCH", "ABORTED", "NONE"},
             Process(p, outcome, now)
      PROVE  Goal
  BY <1>0, <1>4 DEF Process
<1>5. ASSUME NEW p \in Orders, Refund(p) PROVE Goal
  BY <1>0, <1>5 DEF Refund
<1> QED
  BY <1>1, <1>2, <1>3, <1>4, <1>5, RestWriters DEF Gateway

\* A worker has an answer from an earlier step or takes the gateway's as it is now.
LEMMA ResponseWriters ==
  ASSUME TypeOK, JobOK, [Next]_vars, NEW w \in Workers, job'[w].response # "none"
  PROVE  /\ job'[w].order = job[w].order
         /\ \/ job'[w].response = job[w].response
            \/ /\ job[w].order \in Orders /\ order' = order
               /\ job'[w].response \in {order[job[w].order], "NOT_FOUND"}
<1>1. job'[w] # Idle /\ ~StartExpire(w) /\ ~FindDue(w)
  BY MovedJob DEF Is, Idle
<1>2. \A a \in Attempts : ~ClaimInitial(w, a) /\ ~ReadAttempt(w, a)
  BY MovedJob DEF Is
<1>3. \A d \in DueTimes : ~LeaseRenewal(w, d)
  BY MovedJob DEF Is
<1>4. CASE IssueBillingKey(w) \/ PostCharge(w) \/ ClaimRenewal(w)
  BY <1>4, MovedJob DEF Is, Goes
<1>5. CASE ReceiveCharge(w) \/ LookupAnswers(w) \/ LookupFails(w)
  <2>1. job[w].order \in Orders /\ order' = order
    BY <1>5 DEF ReceiveCharge, LookupAnswers, LookupFails, gateway, At, JobOK, Orders
  <2>2. job'[w].order = job[w].order
    BY <1>5, MovedJob DEF Is, Goes
  <2>3. job'[w].response \in {order[job[w].order], Seen(job[w].order), "NOT_FOUND"}
    BY <1>5, MovedJob DEF Is, Goes
  <2>4. Seen(job[w].order) \in {order[job[w].order], "NOT_FOUND"}
    BY DEF Seen
  <2> QED
    BY <2>1, <2>2, <2>3, <2>4
<1> QED
  BY <1>1, <1>2, <1>3, <1>4, <1>5, JobMoves DEF Moves

\* What a worker was told stays true while it acts on it.
LEMMA AnswerStep ==
  ASSUME TypeOK, JobOK, AnswerOK, [Next]_vars
  PROVE  AnswerOK'
<1>0. now \in Nat /\ Skew \in Nat /\ now' \in Nat /\ now' >= now
  BY BillingAssumption, RestWriters DEF TypeOK, Tick
<1>1. ASSUME NEW o \in Orders, order'[o] \in {"DONE", "CANCELED"}
      PROVE  approvedAt'[o] >= 1 /\ approvedAt'[o] <= now' + Skew
  <2>1. approvedAt[o] \in Nat /\ approvedAt'[o] \in Nat
    BY RestStep DEF TypeOK
  <2>2. CASE order[o] \in {"DONE", "CANCELED"}
    <3>1. approvedAt[o] >= 1 /\ approvedAt[o] <= now + Skew
      BY <2>2 DEF AnswerOK
    <3> QED
      BY <1>0, <2>1, <2>2, <3>1, OrderStep
  <2>3. CASE approvedAt'[o] >= 1 /\ approvedAt'[o] <= now + Skew
    BY <1>0, <2>1, <2>3
  <2> QED
    BY <1>1, <2>2, <2>3, OrderStep
<1>2. ASSUME NEW w \in Workers, job'[w].response # "none"
      PROVE  /\ job'[w].order \in Orders
             /\ job'[w].response = "DONE" => order'[job'[w].order] \in {"DONE", "CANCELED"}
             /\ job'[w].response \in {"ABORTED", "CANCELED"} =>
                  order'[job'[w].order] = job'[w].response
  <2>1. job[w].order \in Orders /\ job'[w].order = job[w].order
    BY <1>2, ResponseWriters DEF AnswerOK
  <2>2. CASE job'[w].response = job[w].response
    BY <2>1, <2>2, OrderStep DEF AnswerOK
  <2>3. CASE order' = order /\ job'[w].response \in {order[job[w].order], "NOT_FOUND"}
    BY <2>1, <2>3
  <2> QED
    BY <1>2, <2>2, <2>3, ResponseWriters
<1> QED
  BY <1>1, <1>2 DEF AnswerOK

\* Only a completion by a worker that was told of an approval makes an order paid.
LEMMA PaidWriters ==
  ASSUME TypeOK, JobOK, [Next]_vars, NEW o \in Orders, o \in Paid', o \notin Paid
  PROVE  \E w \in Workers :
           /\ CompleteInitial(w) \/ CompleteRenewal(w)
           /\ job[w].order = o /\ job[w].response = "DONE"
<1>1. CASE o \in Attempts
  <2>1. initial[o].status # "DONE" /\ initial'[o].status = "DONE"
    <3>1. o \notin DueTimes
      BY <1>1, StatusOf
    <3> QED
      BY <1>1, <3>1 DEF Paid, TypeOK, InitialRows
  <2> QED
    <3>1. PICK w \in Workers :
             \/ ClaimInitial(w, o)
             \/ (CompleteInitial(w) \/ FailInitial(w)) /\ job[w].order = o
      BY <1>1, <2>1, InitialRow
    <3>2. CompleteInitial(w) /\ job[w].order = o
      BY <1>1, <2>1, <3>1, RowWrites
    <3> QED
      BY <3>2 DEF CompleteInitial, Completes
<1>2. CASE o \in DueTimes
  <2>1. renewal[o].status # "DONE" /\ renewal'[o].status = "DONE"
    <3>1. o \notin Attempts
      BY <1>2, StatusOf
    <3> QED
      BY <1>2, <3>1 DEF Paid
  <2> QED
    <3>1. PICK w \in Workers :
             (ClaimRenewal(w) \/ CompleteRenewal(w)) /\ job[w].order = o
      BY <1>2, <2>1, RenewalRow
    <3>2. CompleteRenewal(w)
      BY <1>2, <2>1, <3>1, RowWrites
    <3> QED
      BY <3>1, <3>2 DEF CompleteRenewal, CompletesRenewal, Verified
<1> QED
  BY <1>1, <1>2 DEF Orders

\* What is recorded of an order is what the gateway did with it.
LEMMA OutcomeStep ==
  ASSUME TypeOK, JobOK, AnswerOK, OutcomeTrue, [Next]_vars
  PROVE  OutcomeTrue'
<1>1. ASSUME NEW o \in Paid'
      PROVE  order'[o] \in {"DONE", "CANCELED"} /\ approvedAt'[o] > 0
  <2>1. o \in Orders
    BY DEF Paid, Orders
  <2>2. order[o] \in {"DONE", "CANCELED"}
    <3>1. CASE o \in Paid
      BY <3>1 DEF OutcomeTrue
    <3>2. CASE o \notin Paid
      BY <2>1, <3>2, PaidWriters DEF AnswerOK
    <3> QED
      BY <3>1, <3>2
  <2>3. order'[o] \in {"DONE", "CANCELED"}
    BY <2>1, <2>2, OrderStep
  <2>4. approvedAt'[o] \in Nat /\ approvedAt'[o] >= 1
    BY <2>1, <2>3, AnswerStep, RestStep DEF AnswerOK
  <2> QED
    BY <2>3, <2>4
<1>2. ASSUME NEW a \in Attempts, initial'[a].status \in {"FAILED", "CANCELED"}
      PROVE  order'[a] \in {"ABORTED", "CANCELED"}
  <2>1. order[a] \in {"ABORTED", "CANCELED"}
    <3>1. CASE initial'[a].status = initial[a].status
      BY <1>2, <3>1 DEF OutcomeTrue
    <3>2. ASSUME NEW w \in Workers, FailInitial(w), job[w].order = a
          PROVE  order[a] \in {"ABORTED", "CANCELED"}
      BY <3>2 DEF FailInitial, Fails, AnswerOK
    <3> QED
      BY <1>2, <3>1, <3>2, InitialRow, RowWrites
  <2> QED
    BY <2>1, OrderStep DEF Orders
<1> QED
  BY <1>1, <1>2 DEF OutcomeTrue

----------------------------------------------------------------------------
\* Periods.

\* A period only moves when an order is completed.
LEMMA PeriodMoves ==
  ASSUME TypeOK, [Next]_vars
  PROVE  \/ sub'.periodEnd = sub.periodEnd
         \/ \E w \in Workers : CompleteInitial(w) \/ CompleteRenewal(w)
<1>0. sub \in SubRows
  BY DEF TypeOK
<1>1. CASE Cancel \/ Resume
  BY <1>0, <1>1 DEF Cancel, Resume, SubRows
<1>2. ASSUME NEW k \in CustomerKeys, FinishBillingAuth(k)
      PROVE  sub'.periodEnd = sub.periodEnd
  BY <1>0, <1>2 DEF FinishBillingAuth, SubRows
<1>3. ASSUME NEW w \in Workers, ExpireIfUnchanged(w)
      PROVE  sub'.periodEnd = sub.periodEnd
  BY <1>0, <1>3 DEF ExpireIfUnchanged, SubRows
<1> QED
  BY <1>1, <1>2, <1>3, SubWriters

\* An order that is open after a step has seen no period move in it.
LEMMA PeriodWriters ==
  ASSUME TypeOK, JobOK, OneOpenOrder, [Next]_vars
  PROVE  sub'.periodEnd = sub.periodEnd \/ Open' = {}
  BY PeriodMoves, CompletionCloses

\* The orders that a step leaves open were open before it, or it claims them.
LEMMA OpenAfter ==
  ASSUME TypeOK, JobOK, [Next]_vars
  PROVE  /\ \A a \in PendingInitial' :
              \/ a \in PendingInitial /\ initial'[a].createdAt = initial[a].createdAt
              \/ initial'[a].createdAt = now /\ \E w \in Workers : ClaimInitial(w, a)
         /\ \A d \in PendingRenewal' :
              \/ d \in PendingRenewal
              \/ \E w \in Workers : ClaimRenewal(w) /\ job[w].order = d
<1>1. ASSUME NEW a \in PendingInitial'
      PROVE  \/ a \in PendingInitial /\ initial'[a].createdAt = initial[a].createdAt
             \/ initial'[a].createdAt = now /\ \E w \in Workers : ClaimInitial(w, a)
  <2>1. a \in Attempts /\ initial'[a].status = "PENDING"
    BY DEF PendingInitial
  <2>2. initial[a].status = "PENDING" => a \in PendingInitial
    BY <2>1 DEF PendingInitial
  <2> QED
    BY <2>1, <2>2, InitialRow, RowWrites
<1>2. ASSUME NEW d \in PendingRenewal'
      PROVE  \/ d \in PendingRenewal
             \/ \E w \in Workers : ClaimRenewal(w) /\ job[w].order = d
  <2>1. d \in DueTimes /\ renewal'[d].status = "PENDING"
    BY DEF PendingRenewal
  <2>2. renewal[d].status = "PENDING" => d \in PendingRenewal
    BY <2>1 DEF PendingRenewal
  <2> QED
    BY <2>1, <2>2, RenewalRow, RowWrites
<1> QED
  BY <1>1, <1>2

\* A renewal is claimed for the period that ends at its due date, when it is over.
LEMMA ClaimedPeriod ==
  ASSUME TypeOK, JobOK, DueAtPeriodEnd, NEW w \in Workers, ClaimRenewal(w)
  PROVE  sub.periodEnd = job[w].order /\ job[w].order <= now /\ UNCHANGED <<now, sub>>
  BY DEF ClaimRenewal, Claimable, SnapshotCurrent, DueAtPeriodEnd, JobOK, At

\* What a worker remembers of a period: it was over, and a renewal is due at its end.
LEMMA EndWriters ==
  ASSUME TypeOK, JobOK, DueAtPeriodEnd, PeriodOK, [Next]_vars, NEW w \in Workers
  PROVE  /\ job'[w].task = "expire" => job'[w].end # None /\ job'[w].end <= now
         /\ job'[w].task \in {"charge", "renewal"} => job'[w].end = job'[w].order
<1> DEFINE Goal ==
      /\ job'[w].task = "expire" => job'[w].end # None /\ job'[w].end <= now
      /\ job'[w].task \in {"charge", "renewal"} => job'[w].end = job'[w].order
<1>0. /\ job[w].task = "expire" => job[w].end # None /\ job[w].end <= now
      /\ job[w].task \in {"charge", "renewal"} => job[w].end = job[w].order
  BY DEF PeriodOK
<1>1. CASE job'[w] = job[w]
  BY <1>0, <1>1
<1>2. CASE job'[w] = Idle
  BY <1>2, IdleTyped
<1>3. CASE StartExpire(w)
  <2>1. job'[w].task = "expire" /\ job'[w].end = sub.periodEnd
    BY <1>3, MovedJob DEF Is
  <2>2. sub.periodEnd # None /\ sub.periodEnd <= now
    BY <1>3 DEF StartExpire
  <2> QED
    BY <2>1, <2>2
<1>4. CASE FindDue(w)
  <2>1. job'[w].task = "charge" /\ job'[w].end = sub.periodEnd
        /\ job'[w].order = sub.nextBillingAt
    BY <1>4, MovedJob DEF Is
  <2>2. sub.periodEnd = sub.nextBillingAt
    BY <1>4 DEF FindDue, DueForRenewal, DueAtPeriodEnd
  <2> QED
    BY <2>1, <2>2
<1>5. ASSUME NEW a \in Attempts, ClaimInitial(w, a) \/ ReadAttempt(w, a) PROVE Goal
  <2>1. job'[w].task \in {"confirm", "initial"}
    BY <1>5, MovedJob DEF Is
  <2> QED
    BY <2>1
<1>6. ASSUME NEW d \in DueTimes, LeaseRenewal(w, d) PROVE Goal
  <2>1. job'[w].task = "renewal" /\ job'[w].order = d /\ job'[w].end = renewal[d].periodEnd
    BY <1>6, MovedJob DEF Is
  <2>2. renewal[d].periodEnd = d
    BY <1>6 DEF LeaseRenewal, PeriodOK
  <2> QED
    BY <2>1, <2>2
<1>7. CASE \/ IssueBillingKey(w) \/ PostCharge(w) \/ ReceiveCharge(w)
           \/ LookupAnswers(w) \/ LookupFails(w) \/ ClaimRenewal(w)
  <2>1. job'[w].task = job[w].task /\ job'[w].order = job[w].order
        /\ job'[w].end = job[w].end
    BY <1>7, MovedJob DEF Goes, Is
  <2> QED
    BY <1>0, <2>1
<1> QED
  BY <1>1, <1>2, <1>3, <1>4, <1>5, <1>6, <1>7, JobMoves DEF Moves

\* An open order keeps following a period that is over.
LEMMA PeriodStep ==
  ASSUME TypeOK, JobOK, OneOpenOrder, DueAtPeriodEnd, PeriodOK, [Next]_vars
  PROVE  PeriodOK'
<1>0. /\ now \in Nat /\ now' \in Nat /\ now' >= now
      /\ sub \in SubRows /\ sub.periodEnd \in Time
  BY RestWriters DEF TypeOK, Tick, SubRows
<1>1. ASSUME sub'.plan = "FREE", sub'.periodEnd # None PROVE sub'.periodEnd <= now
  <2>1. CASE UNCHANGED sub
    BY <1>1, <2>1 DEF PeriodOK
  <2>2. CASE Cancel \/ Resume
    BY <1>0, <1>1, <2>2 DEF Cancel, Resume, CanResume, PaidNow, SubRows
  <2>3. ASSUME NEW k \in CustomerKeys, FinishBillingAuth(k) PROVE sub'.periodEnd <= now
    BY <1>0, <1>1, <2>3 DEF FinishBillingAuth, SubRows, PeriodOK
  <2>4. ASSUME NEW w \in Workers, ExpireIfUnchanged(w) PROVE sub'.periodEnd <= now
    <3>1. job[w].end <= now
      BY <2>4 DEF ExpireIfUnchanged, At, PeriodOK
    <3>2. CASE StillExpired(job[w].end)
      BY <1>0, <2>4, <3>1, <3>2 DEF ExpireIfUnchanged, StillExpired, SubRows
    <3>3. CASE ~StillExpired(job[w].end)
      BY <1>1, <2>4, <3>3 DEF ExpireIfUnchanged, PeriodOK
    <3> QED
      BY <3>2, <3>3
  <2>5. ASSUME NEW w \in Workers, CompleteInitial(w) PROVE FALSE
    BY <1>1, <2>5 DEF CompleteInitial
  <2>6. ASSUME NEW w \in Workers, CompleteRenewal(w) PROVE FALSE
    BY <1>0, <1>1, <2>6 DEF CompleteRenewal, Renewed, SubRows
  <2> QED
    BY <2>1, <2>2, <2>3, <2>4, <2>5, <2>6, SubWriters
<1>2. ASSUME NEW a \in PendingInitial'
      PROVE  /\ initial'[a].createdAt <= now
             /\ sub'.periodEnd # None => sub'.periodEnd <= initial'[a].createdAt
  <2>1. sub'.periodEnd = sub.periodEnd
    BY PeriodWriters DEF Open
  <2>2. CASE a \in PendingInitial /\ initial'[a].createdAt = initial[a].createdAt
    BY <2>1, <2>2 DEF PeriodOK
  <2>3. ASSUME NEW w \in Workers, ClaimInitial(w, a), initial'[a].createdAt = now
        PROVE  sub.periodEnd # None => sub.periodEnd <= now
    <3>1. sub.plan \in {"FREE", "PRO"} /\ ~PaidNow
      BY <1>0, <2>3 DEF ClaimInitial, CanPurchase, SubRows
    <3> QED
      BY <1>0, <3>1 DEF PaidNow, PeriodOK, Time
  <2> QED
    BY <1>0, <2>1, <2>2, <2>3, OpenAfter
<1>3. ASSUME NEW d \in DueTimes, renewal'[d].status # "NONE"
      PROVE  d <= now /\ renewal'[d].periodEnd = d
  <2>1. CASE renewal'[d].status = renewal[d].status
             /\ renewal'[d].periodEnd = renewal[d].periodEnd
    BY <1>3, <2>1 DEF PeriodOK
  <2>2. ASSUME NEW w \in Workers, ClaimRenewal(w), job[w].order = d
        PROVE  d <= now /\ renewal'[d].periodEnd = d
    BY <2>2, RowWrites, ClaimedPeriod
  <2>3. ASSUME NEW w \in Workers, CompleteRenewal(w), job[w].order = d
        PROVE  d <= now /\ renewal'[d].periodEnd = d
    <3>1. renewal[d].status = "PENDING" /\ renewal'[d].periodEnd = renewal[d].periodEnd
      BY <2>3, RowWrites
    <3> QED
      BY <3>1 DEF PeriodOK
  <2> QED
    BY <2>1, <2>2, <2>3, RenewalRow
<1>4. ASSUME NEW d \in PendingRenewal' PROVE sub'.periodEnd = d
  <2>1. sub'.periodEnd = sub.periodEnd
    BY PeriodWriters DEF Open
  <2>2. CASE d \in PendingRenewal
    BY <2>1, <2>2 DEF PeriodOK
  <2>3. ASSUME NEW w \in Workers, ClaimRenewal(w), job[w].order = d
        PROVE  sub.periodEnd = d
    BY <2>3, ClaimedPeriod
  <2> QED
    BY <2>1, <2>2, <2>3, OpenAfter
<1>5. ASSUME NEW w \in Workers
      PROVE  /\ job'[w].task = "expire" => job'[w].end # None /\ job'[w].end <= now'
             /\ job'[w].task \in {"charge", "renewal"} => job'[w].end = job'[w].order
  <2>1. job'[w].end \in Time
    BY JobStep DEF Jobs
  <2> QED
    BY <1>0, <2>1, EndWriters DEF Time
<1>6. ASSUME NEW t \in Time, t # None, t <= now PROVE t <= now'
  BY <1>0, <1>6 DEF Time
<1>7. sub'.periodEnd \in Time
  BY SubStep DEF SubRows
<1>8. sub'.plan = "FREE" /\ sub'.periodEnd # None => sub'.periodEnd <= now'
  BY <1>1, <1>6, <1>7
<1>9. \A a \in PendingInitial' :
        /\ initial'[a].createdAt <= now'
        /\ sub'.periodEnd # None => sub'.periodEnd <= initial'[a].createdAt
  <2>1. \A a \in PendingInitial' : initial'[a].createdAt \in Nat
    BY InitialStep DEF PendingInitial, InitialRows
  <2> QED
    BY <1>0, <1>2, <2>1
<1>10. \A d \in DueTimes : renewal'[d].status # "NONE" => d <= now' /\ renewal'[d].periodEnd = d
  BY <1>0, <1>3 DEF DueTimes
<1> QED
  BY <1>4, <1>5, <1>8, <1>9, <1>10 DEF PeriodOK

\* A completed purchase buys a month from its approval, past whatever was paid before.
LEMMA PurchaseBuys ==
  ASSUME TypeOK, JobOK, AnswerOK, PeriodOK, NEW w \in Workers, CompleteInitial(w)
  PROVE  LET a == job[w].order IN
         /\ sub'.plan = "PRO" /\ sub'.status \in {"ACTIVE", "CANCELED"}
         /\ sub'.periodEnd = approvedAt[a] + Period
         /\ approvedAt[a] \in Nat /\ approvedAt[a] <= now + Skew
         /\ sub.periodEnd # None => sub.periodEnd < sub'.periodEnd
<1> DEFINE a == job[w].order
<1>0. /\ now \in Nat /\ Window \in Nat /\ Period \in Nat /\ Period > Window
      /\ sub.periodEnd \in Time
  BY BillingAssumption DEF TypeOK, SubRows
<1>1. a \in Attempts /\ initial[a].status = "PENDING" /\ a \in Orders
  BY RowWrites DEF Orders
<1>2. approvedAt[a] \in Nat /\ initial[a].createdAt \in Nat
  BY <1>1 DEF TypeOK, InitialRows
<1>3. job[w].response = "DONE" /\ approvedAt[a] >= initial[a].createdAt - Window
  BY DEF CompleteInitial, Completes, InWindow
<1>4. approvedAt[a] <= now + Skew
  BY <1>1, <1>3 DEF AnswerOK
<1>5. sub.periodEnd # None => sub.periodEnd <= initial[a].createdAt
  BY <1>1 DEF PeriodOK, PendingInitial
<1>6. /\ sub'.plan = "PRO" /\ sub'.status \in {"ACTIVE", "CANCELED"}
      /\ sub'.periodEnd = BoughtPeriod(a)
  BY DEF CompleteInitial
<1>7. BoughtPeriod(a) = approvedAt[a] + Period
  BY DEF BoughtPeriod, NextPeriodEnd
<1>8. sub.periodEnd # None => sub.periodEnd < approvedAt[a] + Period
  BY <1>0, <1>2, <1>3, <1>5 DEF Time
<1> QED
  BY <1>2, <1>4, <1>6, <1>7, <1>8

\* A completed renewal buys a month from its due date or its approval, the later one.
LEMMA RenewalBuys ==
  ASSUME TypeOK, JobOK, AnswerOK, PeriodOK, NEW w \in Workers, CompleteRenewal(w)
  PROVE  LET d == job[w].order IN
         /\ sub'.plan = "PRO" /\ sub'.status \in {"ACTIVE", "CANCELED"}
         /\ approvedAt[d] \in Nat /\ sub'.periodEnd \in Nat
         /\ sub'.periodEnd >= approvedAt[d] + Period
         /\ sub'.periodEnd <= now + Skew + Period
         /\ sub.periodEnd \in Nat /\ sub.periodEnd < sub'.periodEnd
<1> DEFINE d == job[w].order
           paid == NextPeriodEnd(job[w].end, approvedAt[d])
<1>0. /\ now \in Nat /\ Skew \in Nat /\ Period \in Nat /\ Period > 0 /\ sub \in SubRows
      /\ None \notin Int
  BY BillingAssumption DEF TypeOK
<1>1. d \in DueTimes /\ d \in Nat /\ renewal[d].status = "PENDING" /\ d \in Orders
  BY RowWrites DEF Orders, DueTimes
<1>2. approvedAt[d] \in Nat
  BY <1>1 DEF TypeOK
<1>3. job[w].response = "DONE" /\ job[w].task \in {"charge", "renewal"}
  BY DEF CompleteRenewal, CompletesRenewal, Verified, At
<1>4. approvedAt[d] <= now + Skew
  BY <1>1, <1>3 DEF AnswerOK
<1>5. d <= now /\ sub.periodEnd = d /\ job[w].end = d
  BY <1>1, <1>3 DEF PeriodOK, PendingRenewal
<1>6. /\ paid \in Nat /\ paid > d /\ paid >= approvedAt[d] + Period
      /\ paid <= now + Skew + Period
  BY <1>0, <1>1, <1>2, <1>4, <1>5 DEF NextPeriodEnd
<1>7. sub' = Renewed(paid)
  <2> HIDE DEF paid
  <2>1. sub' = Renewed(IF sub.periodEnd # None /\ sub.periodEnd > paid
                       THEN sub.periodEnd ELSE paid)
    BY DEF CompleteRenewal, paid
  <2>2. ~(sub.periodEnd > paid)
    BY <1>1, <1>5, <1>6
  <2> QED
    BY <2>1, <2>2
<1>8. /\ sub'.plan = "PRO" /\ sub'.status \in {"ACTIVE", "CANCELED"}
      /\ sub'.periodEnd = paid
  BY <1>0, <1>7 DEF Renewed, SubRows
<1> QED
  BY <1>1, <1>2, <1>5, <1>6, <1>8

\* A recorded payment keeps its period: a purchase only completes when the paid
\* time is over, a renewal extends it, and a stale expiry meets another period.
LEMMA PaidPeriodStep ==
  ASSUME TypeOK, JobOK, OneOpenOrder, AnswerOK, PeriodOK, OutcomeTrue, PaidPeriodKept,
         [Next]_vars
  PROVE  PaidPeriodKept'
<1> DEFINE Kept(t) ==
      /\ sub'.periodEnd # None /\ t + Period <= sub'.periodEnd
      /\ now' < t + Period => sub'.plan = "PRO" /\ sub'.status \in {"ACTIVE", "CANCELED"}
<1>0. /\ now \in Nat /\ now' \in Nat /\ now' >= now /\ Period \in Nat
      /\ sub \in SubRows /\ sub.periodEnd \in Time /\ None \notin Int
  BY BillingAssumption, RestWriters DEF TypeOK, Tick, SubRows
<1>1. ASSUME NEW o \in Paid' PROVE Kept(approvedAt[o])
  <2>0. o \in Orders
    BY DEF Paid, Orders
  <2>1. approvedAt[o] \in Nat
    BY <2>0 DEF TypeOK
  <2>2. CASE o \in Paid
    <3>1. /\ sub.periodEnd # None /\ sub.periodEnd \in Nat
          /\ approvedAt[o] + Period <= sub.periodEnd
          /\ now < approvedAt[o] + Period =>
               sub.plan = "PRO" /\ sub.status \in {"ACTIVE", "CANCELED"}
      BY <1>0, <2>2 DEF PaidPeriodKept, Time
    <3>2. CASE UNCHANGED sub
      BY <1>0, <2>1, <3>1, <3>2
    <3>3. CASE Cancel \/ Resume
      BY <1>0, <2>1, <3>1, <3>3 DEF Cancel, Resume, CanResume, PaidNow, SubRows
    <3>4. ASSUME NEW k \in CustomerKeys, FinishBillingAuth(k) PROVE Kept(approvedAt[o])
      BY <1>0, <2>1, <3>1, <3>4 DEF FinishBillingAuth, SubRows
    <3>5. ASSUME NEW w \in Workers, ExpireIfUnchanged(w) PROVE Kept(approvedAt[o])
      <4>1. job[w].end <= now
        BY <3>5 DEF ExpireIfUnchanged, At, PeriodOK
      <4>2. CASE StillExpired(job[w].end)
        <5>1. sub'.periodEnd = sub.periodEnd /\ sub.periodEnd <= now
          BY <1>0, <3>5, <4>1, <4>2 DEF ExpireIfUnchanged, StillExpired, SubRows
        <5> QED
          BY <1>0, <2>1, <3>1, <5>1
      <4>3. CASE ~StillExpired(job[w].end)
        BY <3>2, <3>5, <4>3 DEF ExpireIfUnchanged
      <4> QED
        BY <4>2, <4>3
    <3>6. ASSUME NEW w \in Workers, CompleteInitial(w) PROVE Kept(approvedAt[o])
      <4>1. /\ sub'.plan = "PRO" /\ sub'.status \in {"ACTIVE", "CANCELED"}
            /\ sub'.periodEnd \in Nat /\ sub.periodEnd < sub'.periodEnd
        BY <1>0, <3>1, <3>6, PurchaseBuys
      <4> QED
        BY <1>0, <2>1, <3>1, <4>1
    <3>7. ASSUME NEW w \in Workers, CompleteRenewal(w) PROVE Kept(approvedAt[o])
      <4>1. /\ sub'.plan = "PRO" /\ sub'.status \in {"ACTIVE", "CANCELED"}
            /\ sub'.periodEnd \in Nat /\ sub.periodEnd < sub'.periodEnd
        BY <3>7, RenewalBuys
      <4> QED
        BY <1>0, <2>1, <3>1, <4>1
    <3> QED
      BY <3>2, <3>3, <3>4, <3>5, <3>6, <3>7, SubWriters
  <2>3. CASE o \notin Paid
    <3>1. PICK w \in Workers : /\ CompleteInitial(w) \/ CompleteRenewal(w)
                               /\ job[w].order = o
      BY <2>0, <2>3, PaidWriters
    <3>2. CASE CompleteInitial(w)
      <4>1. /\ sub'.plan = "PRO" /\ sub'.status \in {"ACTIVE", "CANCELED"}
            /\ sub'.periodEnd = approvedAt[o] + Period
        BY <3>1, <3>2, PurchaseBuys
      <4> QED
        BY <1>0, <2>1, <4>1
    <3>3. CASE CompleteRenewal(w)
      <4>1. /\ sub'.plan = "PRO" /\ sub'.status \in {"ACTIVE", "CANCELED"}
            /\ sub'.periodEnd \in Nat /\ sub'.periodEnd >= approvedAt[o] + Period
        BY <3>1, <3>3, RenewalBuys
      <4> QED
        BY <1>0, <2>1, <4>1
    <3> QED
      BY <3>1, <3>2, <3>3
  <2> QED
    BY <2>2, <2>3
<1>2. ASSUME NEW o \in Paid' PROVE approvedAt'[o] = approvedAt[o]
  <2>0. o \in Orders
    BY DEF Paid, Orders
  <2>1. order[o] \in {"DONE", "CANCELED"}
    BY <2>0, PaidWriters DEF OutcomeTrue, AnswerOK
  <2> QED
    BY <2>0, <2>1, OrderStep
<1> QED
  BY <1>1, <1>2 DEF PaidPeriodKept

----------------------------------------------------------------------------
\* The theorems.

\* The inductive invariant holds when the subscription is created.
LEMMA InitInv == Init => IInv
<1> SUFFICES ASSUME Init PROVE IInv
  OBVIOUS
<1>1. CoreInv
  BY InitCore
<1>2. PendingInitial = {} /\ PendingRenewal = {} /\ Paid = {}
  BY DEF Init, PendingInitial, PendingRenewal, Paid, NoAttempt, NoRenewal
<1>3. ChargeOK /\ ChargedOnce
  BY IdleTyped DEF Init, ChargeOK, ChargedOnce, Charging, At
<1>4. AnswerOK
  BY DEF Init, AnswerOK, Idle
<1>5. PeriodOK
  BY <1>2, IdleTyped DEF Init, PeriodOK, NoRenewal
<1>6. OutcomeTrue /\ PaidPeriodKept
  BY <1>2 DEF Init, OutcomeTrue, PaidPeriodKept, NoAttempt
<1> QED
  BY <1>1, <1>3, <1>4, <1>5, <1>6 DEF IInv

\* The inductive invariant holds in every reachable state, for any number of
\* purchases, workers, customer keys and lookups, and any length of a period.
THEOREM Invariance == Spec => []IInv
<1>1. CoreInv /\ [Next]_vars => CoreInv'
  BY TypedStep, OneOpenStep, DueStep, NoDoublePayStep, IntentStep, CancellationStep,
     LeaseStep
  DEF CoreInv
<1>2. IInv /\ [Next]_vars => IInv'
  <2> SUFFICES ASSUME IInv, [Next]_vars PROVE IInv'
    OBVIOUS
  <2> USE DEF IInv, CoreInv
  <2>1. ChargeOK' /\ ChargedOnce'
    BY ChargeStep
  <2>2. AnswerOK' /\ OutcomeTrue'
    BY AnswerStep, OutcomeStep
  <2>3. PeriodOK'
    BY PeriodStep
  <2>4. PaidPeriodKept'
    BY PaidPeriodStep
  <2> QED
    BY <1>1, <2>1, <2>2, <2>3, <2>4
<1> QED
  BY <1>2, InitInv, PTL DEF Spec

\* However confirmations, batches, reconciliations and crashes interleave, an order
\* is charged at most once (the claim, and "Never charge again" of the reconcilers).
THEOREM ChargedOnceAlways == Spec => []ChargedOnce
<1>1. IInv => ChargedOnce
  BY DEF IInv
<1> QED
  BY <1>1, Invariance, PTL

\* What the database says of an order is what the gateway did with it, however old
\* the answer is on which a worker settles it.
THEOREM OutcomeAlwaysTrue == Spec => []OutcomeTrue
<1>1. IInv => OutcomeTrue
  BY DEF IInv
<1> QED
  BY <1>1, Invariance, PTL

\* A period that was paid for is never cut short.
THEOREM PaidPeriodAlwaysKept == Spec => []PaidPeriodKept
<1>1. IInv => PaidPeriodKept
  BY DEF IInv
<1> QED
  BY <1>1, Invariance, PTL

----------------------------------------------------------------------------
\* The ledger.

\* A claim, a completion and a failure change the status of their own order only, and
\* no other step changes any.
LEMMA StatusWriters ==
  ASSUME TypeOK, JobOK, [Next]_vars, NEW w \in Workers
  PROVE  /\ \A a \in Attempts : ClaimInitial(w, a) =>
              \A p \in Orders \ {a} : Status(p)' = Status(p)
         /\ CompleteInitial(w) \/ FailInitial(w) \/ ClaimRenewal(w) \/ CompleteRenewal(w) =>
              \A p \in Orders \ {job[w].order} : Status(p)' = Status(p)
<1> USE DEF Status
<1>0. initial \in [Attempts -> InitialRows] /\ renewal \in [DueTimes -> RenewalRows]
  BY DEF TypeOK
<1>1. ASSUME NEW a \in Attempts, ClaimInitial(w, a), NEW p \in Orders \ {a}
      PROVE  Status(p)' = Status(p)
  BY <1>0, <1>1 DEF ClaimInitial
<1>2. ASSUME CompleteInitial(w) \/ FailInitial(w), NEW p \in Orders \ {job[w].order}
      PROVE  Status(p)' = Status(p)
  BY <1>0, <1>2 DEF CompleteInitial, FailInitial
<1>3. ASSUME ClaimRenewal(w) \/ CompleteRenewal(w), NEW p \in Orders \ {job[w].order}
      PROVE  Status(p)' = Status(p)
  <2>1. initial' = initial
    BY <1>3 DEF ClaimRenewal, CompleteRenewal
  <2>2. p \notin Attempts => p \in DueTimes
    BY DEF Orders
  <2>3. CASE ClaimRenewal(w)
    BY <1>0, <1>3, <2>1, <2>2, <2>3 DEF ClaimRenewal
  <2>4. CASE CompleteRenewal(w)
    BY <1>0, <1>3, <2>1, <2>2, <2>4 DEF CompleteRenewal, RenewalRows
  <2> QED
    BY <1>3, <2>3, <2>4
<1> QED
  BY <1>1, <1>2, <1>3

\* A step that changes the status of an order settles or claims one.
LEMMA StatusChanges ==
  ASSUME TypeOK, JobOK, [Next]_vars, NEW o \in Orders, Status(o)' # Status(o)
  PROVE  \E w \in Workers :
           \/ \E a \in Attempts : ClaimInitial(w, a)
           \/ ClaimRenewal(w) \/ CompleteInitial(w) \/ FailInitial(w) \/ CompleteRenewal(w)
<1>1. CASE o \in Attempts
  <2>1. initial'[o].status # initial[o].status
    BY <1>1 DEF Status
  <2>2. PICK w \in Workers : ClaimInitial(w, o) \/ CompleteInitial(w) \/ FailInitial(w)
    BY <1>1, <2>1, InitialRow
  <2> QED
    <3>1. CASE ClaimInitial(w, o)
      BY <1>1, <3>1
    <3>2. CASE CompleteInitial(w) \/ FailInitial(w)
      BY <3>2
    <3> QED
      BY <2>2, <3>1, <3>2
<1>2. CASE o \notin Attempts
  <2>1. o \in DueTimes /\ renewal'[o].status # renewal[o].status
    BY <1>2 DEF Status, Orders
  <2> QED
    BY <2>1, RenewalRow
<1> QED
  BY <1>1, <1>2

\* The ledger's view of an order.
View(status) ==
  CASE status = "NONE" -> "new"
    [] status = "PENDING" -> "open"
    [] status = "DONE" -> "paid"
    [] OTHER -> "void"

LEMMA StateView == OrderState = [o \in Orders |-> View(Status(o))]
  BY DEF OrderState, View

\* When one order changes its status, the ledger changes at that order.
LEMMA StateMoves ==
  ASSUME NEW o \in Orders, NEW status, Status(o)' = status,
         \A p \in Orders \ {o} : Status(p)' = Status(p)
  PROVE  OrderState' = [OrderState EXCEPT ![o] = View(status)]
<1>1. OrderState' = [p \in Orders |-> View(Status(p)')]
  BY DEF OrderState, View
<1>2. OrderState = [p \in Orders |-> View(Status(p))]
  BY StateView
<1> QED
  BY <1>1, <1>2

\* The ledger's open orders are the open orders.
LEMMA LedgerOpen == Ledger!OpenOrders = Open
<1>1. \A o \in Orders : OrderState[o] = "open" <=> Status(o) = "PENDING"
  BY StateView DEF View
<1>2. \A o : o \in Open <=> o \in Orders /\ Status(o) = "PENDING"
  BY StatusOf DEF Open, PendingInitial, PendingRenewal, Orders
<1> QED
  BY <1>1, <1>2 DEF Ledger!OpenOrders

\* A claim opens its order in the ledger.
LEMMA LedgerClaims ==
  ASSUME IInv, NEW o \in Orders, Status(o) = "NONE", Status(o)' = "PENDING",
         \A p \in Orders \ {o} : Status(p)' = Status(p),
         Open = {}, UNCHANGED <<now, sub>>,
         sub.periodEnd # None => sub.periodEnd <= now
  PROVE  Ledger!Open(o)
<1>1. OrderState[o] = "new"
  BY StateView DEF View
<1>2. OrderState' = [OrderState EXCEPT ![o] = "open"]
  BY StateMoves DEF View
<1>3. (IF sub.periodEnd = None THEN 0 ELSE sub.periodEnd) <= now
  BY DEF IInv, CoreInv, TypeOK
<1> QED
  BY <1>1, <1>2, <1>3, LedgerOpen DEF Ledger!Open

\* A completion pays its order in the ledger.
LEMMA LedgerPays ==
  ASSUME IInv, NEW o \in Orders, Status(o) = "PENDING", Status(o)' = "DONE",
         \A p \in Orders \ {o} : Status(p)' = Status(p),
         UNCHANGED now, sub'.periodEnd \in Nat, sub'.periodEnd > 0,
         sub'.periodEnd <= now + Skew + Period,
         sub.periodEnd # None => sub.periodEnd < sub'.periodEnd
  PROVE  Ledger!Pay(o)
<1>1. OrderState[o] = "open"
  BY StateView DEF View
<1>2. OrderState' = [OrderState EXCEPT ![o] = "paid"]
  BY StateMoves DEF View
<1>3. sub'.periodEnd # None
  BY BillingAssumption
<1> QED
  BY <1>1, <1>2, <1>3 DEF Ledger!Pay

\* A failure voids its order in the ledger.
LEMMA LedgerVoids ==
  ASSUME NEW o \in Orders, Status(o) = "PENDING", Status(o)' \in {"FAILED", "CANCELED"},
         \A p \in Orders \ {o} : Status(p)' = Status(p), UNCHANGED <<now, sub>>
  PROVE  Ledger!Void(o)
<1>1. OrderState[o] = "open"
  BY StateView DEF View
<1>2. OrderState' = [OrderState EXCEPT ![o] = "void"]
  BY StateMoves DEF View
<1> QED
  BY <1>1, <1>2 DEF Ledger!Void

\* Every step is a step of the ledger or leaves it as it is.
LEMMA LedgerStep ==
  ASSUME IInv, [Next]_vars
  PROVE  [Ledger!Next]_(Ledger!ledger)
<1> USE DEF IInv, CoreInv
<1>0. /\ now \in Nat /\ Skew \in Nat /\ Period \in Nat /\ Period > 0 /\ None \notin Int
      /\ sub \in SubRows /\ sub.periodEnd \in Time
  BY BillingAssumption DEF TypeOK, SubRows
<1>1. ASSUME NEW w \in Workers, NEW a \in Attempts, ClaimInitial(w, a) PROVE Ledger!Open(a)
  <2>1. Status(a) = "NONE" /\ Status(a)' = "PENDING" /\ a \in Orders
    BY <1>1, RowWrites DEF Status, Orders
  <2>2. Open = {} /\ UNCHANGED <<now, sub>> /\ ~PaidNow
    BY <1>1, ClaimInitialOpens DEF ClaimInitial, CanPurchase
  <2>3. sub.periodEnd # None => sub.periodEnd <= now
    BY <1>0, <2>2 DEF PaidNow, PeriodOK, SubRows, Time
  <2> QED
    BY <1>1, <2>1, <2>2, <2>3, StatusWriters, LedgerClaims
<1>2. ASSUME NEW w \in Workers, ClaimRenewal(w) PROVE \E o \in Orders : Ledger!Open(o)
  <2>1. PICK d \in DueTimes : d = job[w].order /\ d \notin Attempts
    BY <1>2, RowWrites, StatusOf
  <2>2. renewal[d].status = "NONE" /\ renewal'[d].status = "PENDING"
    BY <1>2, <2>1, RowWrites
  <2>3. Status(d) = "NONE" /\ Status(d)' = "PENDING" /\ d \in Orders
    BY <2>1, <2>2 DEF Status, Orders
  <2>4. Open = {}
    BY <1>2, ClaimRenewalOpens
  <2>5. UNCHANGED <<now, sub>> /\ sub.periodEnd <= now
    BY <1>2, ClaimedPeriod
  <2>6. \A p \in Orders \ {d} : Status(p)' = Status(p)
    BY <1>2, <2>1, StatusWriters
  <2>7. Ledger!Open(d)
    BY <2>3, <2>4, <2>5, <2>6, LedgerClaims
  <2> QED
    BY <2>3, <2>7
<1>3. ASSUME NEW w \in Workers, CompleteInitial(w) PROVE \E o \in Orders : Ledger!Pay(o)
  <2>1. PICK a \in Attempts : a = job[w].order
    BY <1>3, RowWrites
  <2>2. initial[a].status = "PENDING" /\ initial'[a].status = "DONE"
    BY <1>3, <2>1, RowWrites
  <2>3. Status(a) = "PENDING" /\ Status(a)' = "DONE" /\ a \in Orders
    BY <2>2 DEF Status, Orders
  <2>4. \A p \in Orders \ {a} : Status(p)' = Status(p)
    BY <1>3, <2>1, StatusWriters
  <2>5. /\ sub'.periodEnd = approvedAt[a] + Period
        /\ approvedAt[a] \in Nat /\ approvedAt[a] <= now + Skew
        /\ sub.periodEnd # None => sub.periodEnd < sub'.periodEnd
    BY <1>3, <2>1, PurchaseBuys
  <2>6. /\ sub'.periodEnd \in Nat /\ sub'.periodEnd > 0
        /\ sub'.periodEnd <= now + Skew + Period
    BY <1>0, <2>5
  <2>7. UNCHANGED now
    BY <1>3 DEF CompleteInitial
  <2>8. Ledger!Pay(a)
    BY <2>3, <2>4, <2>5, <2>6, <2>7, LedgerPays
  <2> QED
    BY <2>3, <2>8
<1>4. ASSUME NEW w \in Workers, CompleteRenewal(w) PROVE \E o \in Orders : Ledger!Pay(o)
  <2>1. PICK d \in DueTimes : d = job[w].order /\ d \notin Attempts
    BY <1>4, RowWrites, StatusOf
  <2>2. renewal[d].status = "PENDING" /\ renewal'[d].status = "DONE"
    BY <1>4, <2>1, RowWrites
  <2>3. Status(d) = "PENDING" /\ Status(d)' = "DONE" /\ d \in Orders
    BY <2>1, <2>2 DEF Status, Orders
  <2>4. \A p \in Orders \ {d} : Status(p)' = Status(p)
    BY <1>4, <2>1, StatusWriters
  <2>5. /\ sub'.periodEnd \in Nat /\ sub'.periodEnd <= now + Skew + Period
        /\ sub.periodEnd \in Nat /\ sub.periodEnd < sub'.periodEnd
    BY <1>4, RenewalBuys
  <2>6. sub'.periodEnd > 0
    BY <2>5
  <2>7. UNCHANGED now
    BY <1>4 DEF CompleteRenewal
  <2>8. Ledger!Pay(d)
    BY <2>3, <2>4, <2>5, <2>6, <2>7, LedgerPays
  <2> QED
    BY <2>3, <2>8
<1>5. ASSUME NEW w \in Workers, FailInitial(w) PROVE \E o \in Orders : Ledger!Void(o)
  <2>1. PICK a \in Attempts : a = job[w].order
    BY <1>5, RowWrites
  <2>2. initial[a].status = "PENDING" /\ initial'[a].status \in {"FAILED", "CANCELED"}
    BY <1>5, <2>1, RowWrites
  <2>3. Status(a) = "PENDING" /\ Status(a)' \in {"FAILED", "CANCELED"} /\ a \in Orders
    BY <2>2 DEF Status, Orders
  <2>4. \A p \in Orders \ {a} : Status(p)' = Status(p)
    BY <1>5, <2>1, StatusWriters
  <2>5. UNCHANGED <<now, sub>>
    BY <1>5 DEF FailInitial
  <2>6. Ledger!Void(a)
    BY <2>3, <2>4, <2>5, LedgerVoids
  <2> QED
    BY <2>3, <2>6
<1>6. CASE ~\E w \in Workers :
             \/ \E a \in Attempts : ClaimInitial(w, a)
             \/ ClaimRenewal(w) \/ CompleteInitial(w) \/ FailInitial(w) \/ CompleteRenewal(w)
  <2>1. OrderState' = OrderState
    <3>1. \A o \in Orders : Status(o)' = Status(o)
      BY <1>6, StatusChanges
    <3>2. OrderState' = [o \in Orders |-> View(Status(o)')]
      BY DEF OrderState, View
    <3> QED
      BY <3>1, <3>2, StateView
  <2>2. sub'.periodEnd = sub.periodEnd
    BY <1>6, PeriodMoves
  <2>3. CASE UNCHANGED now
    BY <2>1, <2>2, <2>3 DEF Ledger!ledger
  <2>4. CASE Tick
    <3>1. Ledger!Tick
      BY <2>1, <2>2, <2>4 DEF Tick, Ledger!Tick
    <3> QED
      BY <3>1 DEF Ledger!Next
  <2> QED
    BY <2>3, <2>4, RestWriters
<1>7. (\E o \in Orders : Ledger!Open(o) \/ Ledger!Pay(o) \/ Ledger!Void(o)) =>
        [Ledger!Next]_(Ledger!ledger)
  BY DEF Ledger!Next
<1> QED
  BY <1>1, <1>2, <1>3, <1>4, <1>5, <1>6, <1>7 DEF Orders

\* The payments implement the ledger: whatever interleaves, orders open one at a time
\* when nothing is paid for, settle once, and the paid period only moves forward.
THEOREM ImplementsLedger == Spec => LedgerKept
<1>1. Init => Ledger!Init
  <2> SUFFICES ASSUME Init PROVE Ledger!Init
    OBVIOUS
  <2>1. \A o \in Orders : Status(o) = "NONE"
    BY DEF Init, Status, Orders, NoAttempt, NoRenewal
  <2>2. OrderState = [o \in Orders |-> "new"]
    BY <2>1, StateView DEF View
  <2> QED
    BY <2>2 DEF Init, Ledger!Init
<1>2. IInv /\ [Next]_vars => [Ledger!Next]_(Ledger!ledger)
  BY LedgerStep
<1> QED
  BY <1>1, <1>2, Invariance, PTL DEF Spec, LedgerKept, Ledger!Spec

=============================================================================
