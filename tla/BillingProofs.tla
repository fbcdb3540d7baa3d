---------------------------- MODULE BillingProofs ----------------------------
(***************************************************************************)
(* Theorems about Billing, for every value of its constants.               *)
(***************************************************************************)
EXTENDS Billing, TLAPS

\* The row of a subscription that was just created, of an idle worker and of a
\* payment that does not exist are well typed.
LEMMA InitTyped == Init => TypeOK /\ JobOK
<1> SUFFICES ASSUME Init PROVE TypeOK /\ JobOK
  OBVIOUS
<1> USE BillingAssumption
<1>1. Idle \in Jobs
  BY DEF Idle, Jobs, Orders, Time, KeyOrNone, CustomerOrNone
<1>2. NoAttempt \in InitialRows
  BY DEF NoAttempt, InitialRows, KeyOrNone, CustomerOrNone, Queue
<1>3. NoRenewal \in RenewalRows
  BY DEF NoRenewal, RenewalRows, Time, Queue
<1>4. sub \in SubRows
  BY DEF Init, SubRows, Time, KeyOrNone, CustomerOrNone
<1>5. now \in 1..MaxNow /\ failures \in 0..MaxFailures
  BY DEF Init
<1>6. initial \in [Attempts -> InitialRows] /\ renewal \in [DueTimes -> RenewalRows]
      /\ job \in [Workers -> Jobs]
  BY <1>1, <1>2, <1>3 DEF Init
<1>7. TypeOK
  BY <1>4, <1>5, <1>6 DEF Init, TypeOK
<1>8. JobOK
  BY DEF Init, JobOK, Idle, At
<1> QED
  BY <1>7, <1>8

\* An idle worker is well typed and bound to no order.
LEMMA IdleTyped == Idle \in Jobs /\ Idle.task = "idle" /\ Idle.step = "none"
  BY BillingAssumption DEF Idle, Jobs, Orders, Time, KeyOrNone, CustomerOrNone

----------------------------------------------------------------------------
\* Which actions write which variable; every other step leaves it alone.

\* Only the user's requests, expiry and the completions write the subscription row.
LEMMA SubWriters ==
  ASSUME [Next]_vars
  PROVE  \/ UNCHANGED sub
         \/ Cancel \/ Resume
         \/ \E k \in CustomerKeys : FinishBillingAuth(k)
         \/ \E w \in Workers :
              ExpireIfUnchanged(w) \/ CompleteInitial(w) \/ CompleteRenewal(w)
<1>1. ASSUME NEW w \in Workers, Begin(w) PROVE UNCHANGED sub \/ Resume
  BY <1>1 DEF Begin, Confirm, StartExpire, FindDue, ClaimInitial, ReadAttempt, LeaseRenewal
<1>2. ASSUME NEW w \in Workers, Continue(w)
      PROVE  \/ UNCHANGED sub
             \/ ExpireIfUnchanged(w) \/ CompleteInitial(w) \/ CompleteRenewal(w)
  BY <1>2 DEF Continue, IssueBillingKey, IssueFails, PostCharge, ReceiveCharge, ChargeFails,
      LookupAnswers, LookupFails, FailInitial, LeaveInitial, ClaimRenewal, SkipRenewal,
      LeaveCharge, DeferRenewal, SkipSettled
<1>3. CASE User \/ Gateway \/ Timers \/ UNCHANGED vars
  BY <1>3 DEF User, StartBillingAuth, Gateway, Process, Refund, Timers, Tick,
      InitialBecomesDue, RenewalBecomesDue, vars
<1> QED
  BY <1>1, <1>2, <1>3 DEF Next, Stop

\* Only purchases, their reconciliation and a cancellation write the attempts.
LEMMA InitialWriters ==
  ASSUME [Next]_vars
  PROVE  \/ UNCHANGED initial
         \/ Cancel
         \/ \E w \in Workers : IssueBillingKey(w) \/ CompleteInitial(w) \/ FailInitial(w)
         \/ \E a \in Attempts :
              \/ InitialBecomesDue(a)
              \/ \E w \in Workers : ClaimInitial(w, a) \/ ReadAttempt(w, a)
  BY DEF Next, Begin, Continue, User, Gateway, Timers, vars, gateway, StartBillingAuth,
      FinishBillingAuth, Cancel, Resume, StartExpire, ExpireIfUnchanged, ClaimInitial,
      IssueBillingKey, PostCharge, ReceiveCharge, ChargeFails, ReadAttempt, Confirm,
      IssueFails, SaveBillingKey,
      InitialBecomesDue, LookupAnswers, LookupFails, CompleteInitial, FailInitial,
      LeaveInitial, FindDue, ClaimRenewal, SkipRenewal, CompleteRenewal, LeaveCharge,
      RenewalBecomesDue, LeaseRenewal, DeferRenewal, SkipSettled, Process, Refund, Tick,
      Stop

\* Only renewal claims, leases, deferrals and completions write the payments.
LEMMA RenewalWriters ==
  ASSUME [Next]_vars
  PROVE  \/ UNCHANGED renewal
         \/ \E w \in Workers : ClaimRenewal(w) \/ CompleteRenewal(w) \/ DeferRenewal(w)
         \/ \E d \in DueTimes :
              RenewalBecomesDue(d) \/ \E w \in Workers : LeaseRenewal(w, d)
  BY DEF Next, Begin, Continue, User, Gateway, Timers, vars, gateway, StartBillingAuth,
      FinishBillingAuth, Cancel, Resume, StartExpire, ExpireIfUnchanged, ClaimInitial,
      IssueBillingKey, PostCharge, ReceiveCharge, ChargeFails, ReadAttempt, Confirm,
      IssueFails, SaveBillingKey,
      InitialBecomesDue, LookupAnswers, LookupFails, CompleteInitial, FailInitial,
      LeaveInitial, FindDue, ClaimRenewal, SkipRenewal, CompleteRenewal, LeaveCharge,
      RenewalBecomesDue, LeaseRenewal, DeferRenewal, SkipSettled, Process, Refund, Tick,
      Stop

\* Each of the other variables is written by a few actions only.
LEMMA RestWriters ==
  ASSUME [Next]_vars
  PROVE  /\ UNCHANGED now \/ Tick
         /\ UNCHANGED gateway \/ Gateway \/ \E w \in Workers : PostCharge(w)
         /\ \/ UNCHANGED authRequests
            \/ \E k \in CustomerKeys : StartBillingAuth(k) \/ FinishBillingAuth(k)
         /\ UNCHANGED failures \/ \E w \in Workers : Stop(w)
         /\ \/ UNCHANGED wants
            \/ Cancel \/ Resume
            \/ \E w \in Workers, a \in Attempts : ClaimInitial(w, a)
  BY DEF Next, Begin, Continue, User, Gateway, Timers, vars, gateway, StartBillingAuth,
      FinishBillingAuth, Cancel, Resume, StartExpire, ExpireIfUnchanged, ClaimInitial,
      IssueBillingKey, PostCharge, ReceiveCharge, ChargeFails, ReadAttempt, Confirm,
      IssueFails, SaveBillingKey,
      InitialBecomesDue, LookupAnswers, LookupFails, CompleteInitial, FailInitial,
      LeaveInitial, FindDue, ClaimRenewal, SkipRenewal, CompleteRenewal, LeaveCharge,
      RenewalBecomesDue, LeaseRenewal, DeferRenewal, SkipSettled, Process, Refund, Tick,
      Stop

----------------------------------------------------------------------------
\* Jobs.

\* What JobOK asks of one job.
Consistent(j) ==
  /\ j.task \in {"confirm", "initial"} => j.order \in Attempts
  /\ j.task \in {"charge", "renewal"} => j.order \in DueTimes
  /\ j.task = "charge" /\ j.step = "claim" => j.order <= now

\* Every action that changes jobs gives one worker another consistent job.
LEMMA BecomeTyped ==
  ASSUME TypeOK, JobOK, UNCHANGED now, NEW w \in Workers, NEW j \in Jobs,
         Consistent(j), Become(w, j)
  PROVE  job' \in [Workers -> Jobs] /\ JobOK'
  BY DEF TypeOK, JobOK, Become, Consistent, At

\* A worker that finishes leaves the jobs well typed and consistent.
LEMMA FinishTyped ==
  ASSUME TypeOK, JobOK, UNCHANGED now, NEW w \in Workers, Finish(w)
  PROVE  job' \in [Workers -> Jobs] /\ JobOK'
<1>1. Consistent(Idle)
  BY IdleTyped DEF Consistent
<1> QED
  BY <1>1, IdleTyped, BecomeTyped DEF Finish

\* A job that only moves on to a later step stays consistent.
LEMMA MoveTyped ==
  ASSUME TypeOK, JobOK, UNCHANGED now, NEW w \in Workers,
         NEW j \in Jobs, Become(w, j), j.step # "claim",
         j.task = job[w].task, j.order = job[w].order
  PROVE  job' \in [Workers -> Jobs] /\ JobOK'
<1>1. Consistent(j)
  BY DEF Consistent, JobOK
<1> QED
  BY <1>1, BecomeTyped

\* A worker that starts a purchase, a lookup or a renewal gets a consistent job.
LEMMA BeginTyped ==
  ASSUME TypeOK, JobOK, NEW w \in Workers, Begin(w)
  PROVE  job' \in [Workers -> Jobs] /\ JobOK'
<1> USE BillingAssumption, BecomeTyped DEF Start
<1>1. CASE StartExpire(w)
  <2> DEFINE j == [Idle EXCEPT !.task = "expire", !.step = "settle", !.end = sub.periodEnd]
  <2>1. j \in Jobs /\ Consistent(j)
    BY <1>1, IdleTyped DEF Jobs, TypeOK, SubRows, Consistent
  <2> QED
    BY <1>1, <2>1 DEF StartExpire
<1>2. CASE FindDue(w)
  <2> DEFINE j == [Idle EXCEPT !.task = "charge", !.step = "claim",
                               !.order = sub.nextBillingAt, !.end = sub.periodEnd,
                               !.billingKey = sub.billingKey,
                               !.customerKey = sub.customerKey]
  <2>1. sub.nextBillingAt \in DueTimes /\ sub.nextBillingAt <= now
    BY <1>2 DEF FindDue, DueForRenewal, TypeOK, SubRows, Time, DueTimes
  <2>2. j \in Jobs /\ Consistent(j)
    BY <2>1, IdleTyped DEF Jobs, TypeOK, SubRows, Orders, Consistent
  <2> QED
    BY <1>2, <2>2 DEF FindDue
<1>3. ASSUME NEW a \in Attempts, ClaimInitial(w, a)
      PROVE  job' \in [Workers -> Jobs] /\ JobOK'
  <2> DEFINE j == [Idle EXCEPT !.task = "confirm", !.step = "issue", !.order = a,
                               !.customerKey = sub.customerKey]
  <2>1. j \in Jobs /\ Consistent(j)
    BY IdleTyped DEF Jobs, TypeOK, SubRows, Orders, Consistent
  <2> QED
    BY <1>3, <2>1 DEF ClaimInitial
<1>4. ASSUME NEW a \in Attempts, ReadAttempt(w, a)
      PROVE  job' \in [Workers -> Jobs] /\ JobOK'
  <2>1. Reconciling(a) \in Jobs /\ Consistent(Reconciling(a))
    BY IdleTyped DEF Reconciling, Jobs, TypeOK, InitialRows, Orders, Consistent
  <2> QED
    BY <1>4, <2>1 DEF ReadAttempt
<1>5. ASSUME NEW d \in DueTimes, LeaseRenewal(w, d)
      PROVE  job' \in [Workers -> Jobs] /\ JobOK'
  <2> DEFINE attempt == NextLease(renewal[d])
             j == [Idle EXCEPT !.task = "renewal", !.order = d,
                     !.step = IF attempt > MaxLookups THEN "settle" ELSE "lookup",
                     !.end = renewal[d].periodEnd, !.attempt = attempt]
  <2>1. attempt \in Nat /\ renewal[d].periodEnd \in Time
    BY DEF TypeOK, RenewalRows, NextLease
  <2>2. j \in Jobs /\ Consistent(j)
    BY <2>1, IdleTyped DEF Jobs, Orders, Consistent
  <2> QED
    BY <1>5, <2>2 DEF LeaseRenewal
<1>6. CASE Resume
  BY <1>6 DEF Resume, TypeOK, JobOK, At
<1> QED
  BY <1>1, <1>2, <1>3, <1>4, <1>5, <1>6 DEF Begin, Confirm

\* A worker that goes on keeps its order, or finishes.
LEMMA ContinueTyped ==
  ASSUME TypeOK, JobOK, NEW w \in Workers, Continue(w)
  PROVE  job' \in [Workers -> Jobs] /\ JobOK'
<1> USE MoveTyped
<1>0. job[w] \in Jobs
  BY DEF TypeOK
<1>1. CASE IssueBillingKey(w)
  <2> DEFINE j == [job[w] EXCEPT !.step = "charge", !.billingKey = job[w].order]
  <2>1. job[w].order \in Attempts
    BY <1>1 DEF IssueBillingKey, SaveBillingKey, IssuedKey, At, JobOK
  <2>2. j \in Jobs
    BY <1>0, <2>1 DEF Jobs, KeyOrNone
  <2> QED
    BY <1>1, <2>2, <1>0 DEF IssueBillingKey, SaveBillingKey, IssuedKey, Jobs
<1>2. CASE PostCharge(w)
  BY <1>2, <1>0 DEF PostCharge, Goto, Jobs
<1>3. CASE ReceiveCharge(w)
  BY <1>3, <1>0 DEF ReceiveCharge, Jobs
<1>4. CASE LookupAnswers(w)
  <2>1. Seen(job[w].order) \in Answers \cup {"NOT_FOUND"}
    BY DEF Seen
  <2>2. [job[w] EXCEPT !.step = "settle", !.response = Seen(job[w].order)] \in Jobs
    BY <1>0, <2>1 DEF Jobs
  <2> QED
    BY <1>4, <2>2, <1>0 DEF LookupAnswers, Jobs
<1>5. CASE LookupFails(w)
  BY <1>5, <1>0 DEF LookupFails, Jobs
<1>6. CASE ClaimRenewal(w)
  BY <1>6, <1>0 DEF ClaimRenewal, Goto, Jobs
<1>7. CASE UNCHANGED now /\ Finish(w)
  BY <1>7, FinishTyped
<1> QED
  BY <1>1, <1>2, <1>3, <1>4, <1>5, <1>6, <1>7
  DEF Continue, ExpireIfUnchanged, IssueFails, ChargeFails, CompleteInitial, FailInitial,
      LeaveInitial, SkipRenewal, CompleteRenewal, LeaveCharge, DeferRenewal, SkipSettled

\* Jobs stay well typed and consistent in every step.
LEMMA JobStep ==
  ASSUME TypeOK, JobOK, [Next]_vars
  PROVE  job' \in [Workers -> Jobs] /\ JobOK'
<1>1. ASSUME UNCHANGED job, now' \in Int, now' >= now
      PROVE  job' \in [Workers -> Jobs] /\ JobOK'
  BY <1>1 DEF TypeOK, JobOK, At, DueTimes
<1>2. now \in Int
  BY DEF TypeOK
<1>3. ASSUME NEW w \in Workers, Stop(w)
      PROVE  job' \in [Workers -> Jobs] /\ JobOK'
  BY <1>3, FinishTyped DEF Stop
<1>4. CASE User \/ Gateway \/ Timers \/ UNCHANGED vars
  <2>1. UNCHANGED job /\ now' \in Int /\ now' >= now
    BY <1>4, <1>2
    DEF User, Gateway, Timers, vars, Cancel, Resume, StartBillingAuth, FinishBillingAuth,
        Process, Refund, Tick, InitialBecomesDue, RenewalBecomesDue
  <2> QED
    BY <2>1, <1>1
<1> QED
  BY <1>3, <1>4, BeginTyped, ContinueTyped DEF Next

----------------------------------------------------------------------------
\* Rows.

\* The end of a period that a payment buys is a point in time after zero.
LEMMA NextPeriodTyped ==
  ASSUME NEW end \in Time, NEW paidAt \in Nat
  PROVE  /\ NextPeriodEnd(end, paidAt) \in Nat \ {0}
         /\ NextPeriodEnd(end, paidAt) >= paidAt + Period
         /\ end # None => NextPeriodEnd(end, paidAt) >= end + Period
  BY BillingAssumption DEF NextPeriodEnd, Time

\* What a completed purchase writes.
LEMMA CompleteInitialTyped ==
  ASSUME TypeOK, JobOK, NEW w \in Workers, CompleteInitial(w)
  PROVE  sub' \in SubRows /\ initial' \in [Attempts -> InitialRows]
<1>1. job[w].order \in Attempts
  BY DEF CompleteInitial, At, JobOK
<1>2. BoughtPeriod(job[w].order) \in Time
  BY <1>1, NextPeriodTyped DEF BoughtPeriod, TypeOK, Orders, Time
<1>3. job[w].billingKey \in KeyOrNone /\ initial[job[w].order].customerKey \in CustomerOrNone
  BY <1>1 DEF TypeOK, Jobs, InitialRows
<1>4. sub' \in SubRows
  BY <1>2, <1>3 DEF CompleteInitial, SubRows, Time
<1>5. initial' \in [Attempts -> InitialRows]
  BY <1>1 DEF CompleteInitial, TypeOK, InitialRows
<1> QED
  BY <1>4, <1>5

\* What a completed renewal writes.
LEMMA CompleteRenewalTyped ==
  ASSUME TypeOK, JobOK, NEW w \in Workers, CompleteRenewal(w)
  PROVE  sub' \in SubRows /\ renewal' \in [DueTimes -> RenewalRows]
<1> DEFINE d == job[w].order
           paid == NextPeriodEnd(job[w].end, approvedAt[d])
           end == IF sub.periodEnd # None /\ sub.periodEnd > paid
                  THEN sub.periodEnd ELSE paid
<1>1. d \in DueTimes
  BY DEF CompleteRenewal, At, JobOK
<1>2. approvedAt[d] \in Nat /\ job[w].end \in Time
  BY <1>1 DEF TypeOK, Orders, Jobs
<1>3. end \in Time
  BY <1>2, NextPeriodTyped DEF TypeOK, SubRows, Time
<1>4. sub' = Renewed(end)
  BY DEF CompleteRenewal
<1>5. Renewed(end) \in SubRows
  BY <1>3 DEF Renewed, SubRows, TypeOK, Time
<1>6. renewal' \in [DueTimes -> RenewalRows]
  BY <1>1 DEF CompleteRenewal, TypeOK, RenewalRows, Queue
<1> QED
  BY <1>4, <1>5, <1>6

\* The subscription row stays well typed in every step.
LEMMA SubStep ==
  ASSUME TypeOK, JobOK, [Next]_vars
  PROVE  sub' \in SubRows
<1>0. sub \in SubRows
  BY DEF TypeOK
<1>1. CASE UNCHANGED sub
  BY <1>0, <1>1
<1>2. ASSUME NEW k \in CustomerKeys, FinishBillingAuth(k) PROVE sub' \in SubRows
  BY <1>0, <1>2 DEF FinishBillingAuth, SubRows, CustomerOrNone
<1>3. CASE Cancel
  BY <1>0, <1>3 DEF Cancel, SubRows, Time
<1>4. CASE Resume
  BY <1>0, <1>4 DEF Resume, SubRows
<1>5. ASSUME NEW w \in Workers, ExpireIfUnchanged(w) PROVE sub' \in SubRows
  BY <1>0, <1>5 DEF ExpireIfUnchanged, SubRows, Time
<1> QED
  BY <1>1, <1>2, <1>3, <1>4, <1>5, CompleteInitialTyped, CompleteRenewalTyped, SubWriters

\* The rows of purchases stay well typed in every step.
LEMMA InitialStep ==
  ASSUME TypeOK, JobOK, [Next]_vars
  PROVE  initial' \in [Attempts -> InitialRows]
<1>0. initial \in [Attempts -> InitialRows]
  BY DEF TypeOK
<1>1. CASE UNCHANGED initial
  BY <1>0, <1>1
<1>2. CASE Cancel
  BY <1>0, <1>2 DEF Cancel, MarkCancelled, InitialRows
<1>3. ASSUME NEW w \in Workers, NEW a \in Attempts, ClaimInitial(w, a)
      PROVE  initial' \in [Attempts -> InitialRows]
  <2>1. now \in Nat /\ sub.customerKey \in CustomerOrNone
    BY DEF TypeOK, SubRows
  <2> QED
    BY <1>0, <1>3, <2>1 DEF ClaimInitial, InitialRows, KeyOrNone, Queue
<1>4. ASSUME NEW w \in Workers, IssueBillingKey(w)
      PROVE  initial' \in [Attempts -> InitialRows]
  BY <1>0, <1>4
  DEF IssueBillingKey, SaveBillingKey, IssuedKey, At, JobOK, InitialRows, KeyOrNone
<1>5. ASSUME NEW w \in Workers, NEW a \in Attempts, ReadAttempt(w, a)
      PROVE  initial' \in [Attempts -> InitialRows]
  BY <1>0, <1>5 DEF ReadAttempt, Postponed, InitialRows, Queue
<1>6. ASSUME NEW a \in Attempts, InitialBecomesDue(a)
      PROVE  initial' \in [Attempts -> InitialRows]
  BY <1>0, <1>6 DEF InitialBecomesDue, InitialRows, Queue
<1>7. ASSUME NEW w \in Workers, FailInitial(w)
      PROVE  initial' \in [Attempts -> InitialRows]
  BY <1>0, <1>7 DEF FailInitial, At, JobOK, InitialRows
<1> QED
  BY <1>1, <1>2, <1>3, <1>4, <1>5, <1>6, <1>7, CompleteInitialTyped, InitialWriters

\* The rows of renewals stay well typed in every step.
LEMMA RenewalStep ==
  ASSUME TypeOK, JobOK, [Next]_vars
  PROVE  renewal' \in [DueTimes -> RenewalRows]
<1>0. renewal \in [DueTimes -> RenewalRows]
  BY DEF TypeOK
<1>1. CASE UNCHANGED renewal
  BY <1>0, <1>1
<1>2. ASSUME NEW w \in Workers, ClaimRenewal(w)
      PROVE  renewal' \in [DueTimes -> RenewalRows]
  <2>1. sub.periodEnd \in Time
    BY DEF TypeOK, SubRows
  <2> QED
    BY <1>0, <1>2, <2>1 DEF ClaimRenewal, At, JobOK, RenewalRows, Queue
<1>3. ASSUME NEW d \in DueTimes, RenewalBecomesDue(d)
      PROVE  renewal' \in [DueTimes -> RenewalRows]
  BY <1>0, <1>3 DEF RenewalBecomesDue, RenewalRows, Queue
<1>4. ASSUME NEW w \in Workers, NEW d \in DueTimes, LeaseRenewal(w, d)
      PROVE  renewal' \in [DueTimes -> RenewalRows]
  BY <1>0, <1>4 DEF LeaseRenewal, NextLease, RenewalRows, Queue
<1>5. ASSUME NEW w \in Workers, DeferRenewal(w)
      PROVE  renewal' \in [DueTimes -> RenewalRows]
  <2>1. NeedsReview(job[w]) \in BOOLEAN
    BY DEF NeedsReview
  <2>2. job[w].order \in DueTimes
    BY <1>5 DEF DeferRenewal, At, JobOK
  <2>3. Deferred(renewal[job[w].order], job[w]) \in RenewalRows
    BY <1>0, <2>1, <2>2 DEF Deferred, RenewalRows, Queue
  <2> QED
    BY <1>0, <1>5, <2>2, <2>3 DEF DeferRenewal
<1> QED
  BY <1>1, <1>2, <1>3, <1>4, <1>5, CompleteRenewalTyped, RenewalWriters

\* The clock, the gateway, the requests and the histories.
LEMMA RestStep ==
  ASSUME TypeOK, JobOK, [Next]_vars
  PROVE  /\ now' \in 1..MaxNow
         /\ order' \in [Orders -> Answers \cup {"NONE", "INFLIGHT"}]
         /\ approvedAt' \in [Orders -> Nat]
         /\ authRequests' \subseteq CustomerKeys
         /\ failures' \in 0..MaxFailures
         /\ posts' \in [Orders -> Nat]
         /\ wants' \in BOOLEAN
<1>1. now' \in 1..MaxNow
  BY BillingAssumption, RestWriters DEF Tick, TypeOK
<1>2. failures' \in 0..MaxFailures
  BY BillingAssumption, RestWriters DEF Stop, TypeOK
<1>3. authRequests' \subseteq CustomerKeys
  BY RestWriters DEF StartBillingAuth, FinishBillingAuth, TypeOK
<1>4. wants' \in BOOLEAN
  BY RestWriters DEF Cancel, Resume, ClaimInitial, TypeOK
<1>5. /\ order' \in [Orders -> Answers \cup {"NONE", "INFLIGHT"}]
      /\ approvedAt' \in [Orders -> Nat]
      /\ posts' \in [Orders -> Nat]
  <2>1. CASE UNCHANGED gateway
    BY <2>1 DEF gateway, TypeOK
  <2>2. ASSUME NEW w \in Workers, PostCharge(w)
        PROVE  /\ order' \in [Orders -> Answers \cup {"NONE", "INFLIGHT"}]
               /\ posts' \in [Orders -> Nat]
               /\ UNCHANGED approvedAt
    <3>1. order' \in [Orders -> Answers \cup {"NONE", "INFLIGHT"}]
      BY <2>2 DEF PostCharge, TypeOK
    <3>2. posts' \in [Orders -> Nat]
      <4>1. posts \in [Orders -> Nat]
        BY DEF TypeOK
      <4>2. posts' = [posts EXCEPT ![job[w].order] = @ + 1]
        BY <2>2 DEF PostCharge
      <4>3. job[w].order \in Orders
        BY <2>2 DEF PostCharge, At, JobOK, Orders
      <4>4. posts[job[w].order] + 1 \in Nat
        BY <4>1, <4>3
      <4> QED
        BY <4>1, <4>2, <4>3, <4>4
    <3> QED
      BY <2>2, <3>1, <3>2 DEF PostCharge
  <2>3. CASE Gateway
    <3>1. now \in Nat /\ GatewayTimes \subseteq Nat
      BY DEF GatewayTimes, TypeOK
    <3>2. ASSUME NEW o \in Orders, NEW t \in Nat,
                 NEW outcome \in {"DONE", "MISMATCH", "ABORTED", "NONE"},
                 Process(o, outcome, t)
          PROVE  /\ order' \in [Orders -> Answers \cup {"NONE", "INFLIGHT"}]
                 /\ approvedAt' \in [Orders -> Nat]
                 /\ UNCHANGED posts
      BY <3>2 DEF Process, Answers, TypeOK
    <3>3. ASSUME NEW o \in Orders, Refund(o)
          PROVE  /\ order' \in [Orders -> Answers \cup {"NONE", "INFLIGHT"}]
                 /\ UNCHANGED <<approvedAt, posts>>
      BY <3>3 DEF Refund, Answers, TypeOK
    <3>4. approvedAt \in [Orders -> Nat] /\ posts \in [Orders -> Nat]
      BY DEF TypeOK
    <3>5. PICK o \in Orders :
             \/ \E t \in GatewayTimes : Process(o, "DONE", t)
             \/ \E outcome \in {"MISMATCH", "ABORTED", "NONE"} : Process(o, outcome, now)
             \/ Refund(o)
      BY <2>3 DEF Gateway
    <3>6. CASE \E t \in GatewayTimes : Process(o, "DONE", t)
      <4>1. PICK t \in Nat : Process(o, "DONE", t)
        BY <3>1, <3>6
      <4> QED
        BY <3>2, <3>4, <4>1
    <3>7. CASE \E outcome \in {"MISMATCH", "ABORTED", "NONE"} : Process(o, outcome, now)
      <4>1. PICK outcome \in {"DONE", "MISMATCH", "ABORTED", "NONE"} : Process(o, outcome, now)
        BY <3>7
      <4> QED
        BY <3>1, <3>2, <3>4, <4>1
    <3> QED
      BY <3>3, <3>4, <3>5, <3>6, <3>7
  <2>4. approvedAt \in [Orders -> Nat]
    BY DEF TypeOK
  <2> QED
    BY <2>1, <2>2, <2>3, <2>4, RestWriters
<1> QED
  BY <1>1, <1>2, <1>3, <1>4, <1>5

----------------------------------------------------------------------------
\* Open orders.

\* Only the two claims open an order.
LEMMA OpenWriters ==
  ASSUME TypeOK, JobOK, [Next]_vars
  PROVE  \/ Open' \subseteq Open
         \/ \E w \in Workers, a \in Attempts : ClaimInitial(w, a)
         \/ \E w \in Workers : ClaimRenewal(w)
<1>1. \/ PendingInitial' \subseteq PendingInitial
      \/ \E w \in Workers, a \in Attempts : ClaimInitial(w, a)
  <2>1. CASE UNCHANGED initial
    BY <2>1 DEF PendingInitial
  <2>2. CASE Cancel
    BY <2>2 DEF Cancel, MarkCancelled, PendingInitial, TypeOK, InitialRows
  <2>3. ASSUME NEW w \in Workers, IssueBillingKey(w) \/ CompleteInitial(w) \/ FailInitial(w)
        PROVE  PendingInitial' \subseteq PendingInitial
    BY <2>3
    DEF IssueBillingKey, SaveBillingKey, IssuedKey, CompleteInitial, FailInitial,
        PendingInitial, TypeOK,
                InitialRows
  <2>4. ASSUME NEW a \in Attempts, InitialBecomesDue(a)
        PROVE  PendingInitial' \subseteq PendingInitial
    BY <2>4 DEF InitialBecomesDue, PendingInitial, TypeOK, InitialRows
  <2>5. ASSUME NEW w \in Workers, NEW a \in Attempts, ReadAttempt(w, a)
        PROVE  PendingInitial' \subseteq PendingInitial
    BY <2>5 DEF ReadAttempt, Postponed, PendingInitial, TypeOK, InitialRows
  <2> QED
    BY <2>1, <2>2, <2>3, <2>4, <2>5, InitialWriters
<1>2. PendingRenewal' \subseteq PendingRenewal \/ \E w \in Workers : ClaimRenewal(w)
  <2>1. CASE UNCHANGED renewal
    BY <2>1 DEF PendingRenewal
  <2>2. ASSUME NEW w \in Workers, CompleteRenewal(w)
        PROVE  PendingRenewal' \subseteq PendingRenewal
    BY <2>2 DEF CompleteRenewal, PendingRenewal, TypeOK, RenewalRows
  <2>3. ASSUME NEW w \in Workers, DeferRenewal(w)
        PROVE  PendingRenewal' \subseteq PendingRenewal
    BY <2>3 DEF DeferRenewal, Deferred, PendingRenewal, TypeOK, RenewalRows
  <2>4. ASSUME NEW d \in DueTimes, RenewalBecomesDue(d)
        PROVE  PendingRenewal' \subseteq PendingRenewal
    BY <2>4 DEF RenewalBecomesDue, PendingRenewal, TypeOK, RenewalRows
  <2>5. ASSUME NEW d \in DueTimes, NEW w \in Workers, LeaseRenewal(w, d)
        PROVE  PendingRenewal' \subseteq PendingRenewal
    BY <2>5 DEF LeaseRenewal, PendingRenewal, TypeOK, RenewalRows
  <2> QED
    BY <2>1, <2>2, <2>3, <2>4, <2>5, RenewalWriters
<1> QED
  BY <1>1, <1>2 DEF Open

\* A claim opens its order when no other is open.
LEMMA ClaimInitialOpens ==
  ASSUME TypeOK, NEW w \in Workers, NEW a \in Attempts, ClaimInitial(w, a)
  PROVE  Open = {} /\ Open' = {a}
<1>1. PendingInitial = {} /\ PendingRenewal = {}
  BY DEF ClaimInitial, CanPurchase, NoOpenOrder
<1>2. PendingRenewal' = PendingRenewal
  BY DEF ClaimInitial, PendingRenewal
<1>3. PendingInitial' = {a}
  BY <1>1 DEF ClaimInitial, PendingInitial, TypeOK
<1> QED
  BY <1>1, <1>2, <1>3 DEF Open

\* A renewal claim opens its order when no other is open.
LEMMA ClaimRenewalOpens ==
  ASSUME TypeOK, JobOK, NEW w \in Workers, ClaimRenewal(w)
  PROVE  Open = {} /\ Open' = {job[w].order}
<1>1. PendingInitial = {} /\ PendingRenewal = {}
  BY DEF ClaimRenewal, Claimable, NoOpenOrder
<1>2. PendingInitial' = PendingInitial
  BY DEF ClaimRenewal, PendingInitial
<1>3. job[w].order \in DueTimes
  BY DEF ClaimRenewal, At, JobOK
<1>4. PendingRenewal' = {job[w].order}
  BY <1>1, <1>3 DEF ClaimRenewal, PendingRenewal, TypeOK
<1> QED
  BY <1>1, <1>2, <1>4 DEF Open

\* A completion closes the only open order.
LEMMA CompletionCloses ==
  ASSUME TypeOK, JobOK, OneOpenOrder, NEW w \in Workers,
         CompleteInitial(w) \/ CompleteRenewal(w)
  PROVE  Open' = {}
<1>1. CASE CompleteInitial(w)
  <2>1. job[w].order \in Attempts /\ initial[job[w].order].status = "PENDING"
    BY <1>1 DEF CompleteInitial, Completes, StillPending, At, JobOK
  <2>2. PendingInitial' = PendingInitial \ {job[w].order}
    BY <1>1, <2>1 DEF CompleteInitial, PendingInitial, TypeOK, InitialRows
  <2>3. PendingRenewal' = PendingRenewal
    BY <1>1 DEF CompleteInitial, PendingRenewal
  <2>4. \A o \in Open : o = job[w].order
    BY <2>1 DEF OneOpenOrder, Open, PendingInitial
  <2>5. job[w].order \notin PendingRenewal
    BY <2>1, BillingAssumption DEF PendingRenewal, DueTimes
  <2> QED
    BY <2>2, <2>3, <2>4, <2>5 DEF Open
<1>2. CASE CompleteRenewal(w)
  <2>1. job[w].order \in DueTimes /\ renewal[job[w].order].status = "PENDING"
    BY <1>2 DEF CompleteRenewal, CompletesRenewal, Verified, At, JobOK
  <2>2. PendingRenewal' = PendingRenewal \ {job[w].order}
    BY <1>2, <2>1 DEF CompleteRenewal, PendingRenewal, TypeOK, RenewalRows
  <2>3. PendingInitial' = PendingInitial
    BY <1>2 DEF CompleteRenewal, PendingInitial
  <2>4. \A o \in Open : o = job[w].order
    BY <2>1 DEF OneOpenOrder, Open, PendingRenewal
  <2>5. job[w].order \notin PendingInitial
    BY <2>1, BillingAssumption DEF PendingInitial, DueTimes
  <2> QED
    BY <2>2, <2>3, <2>4, <2>5 DEF Open
<1> QED
  BY <1>1, <1>2

\* No step opens a second order while one is open.
LEMMA OneOpenStep ==
  ASSUME TypeOK, JobOK, OneOpenOrder, [Next]_vars
  PROVE  OneOpenOrder'
<1>1. ASSUME NEW w \in Workers, NEW a \in Attempts, ClaimInitial(w, a) PROVE OneOpenOrder'
  BY <1>1, ClaimInitialOpens DEF OneOpenOrder
<1>2. ASSUME NEW w \in Workers, ClaimRenewal(w) PROVE OneOpenOrder'
  BY <1>2, ClaimRenewalOpens DEF OneOpenOrder
<1>3. CASE Open' \subseteq Open
  BY <1>3 DEF OneOpenOrder
<1> QED
  BY <1>1, <1>2, <1>3, OpenWriters

\* The due date follows the paid period through every write of the subscription.
LEMMA DueStep ==
  ASSUME TypeOK, JobOK, DueAtPeriodEnd, [Next]_vars
  PROVE  DueAtPeriodEnd'
<1> USE DEF DueAtPeriodEnd
<1>0. sub \in SubRows
  BY DEF TypeOK
<1>1. CASE UNCHANGED sub
  BY <1>1
<1>2. CASE Cancel
  BY <1>0, <1>2 DEF Cancel, SubRows
<1>3. CASE Resume
  BY <1>0, <1>3 DEF Resume, CanResume, PaidNow, SubRows
<1>4. ASSUME NEW k \in CustomerKeys, FinishBillingAuth(k) PROVE DueAtPeriodEnd'
  BY <1>0, <1>4 DEF FinishBillingAuth, SubRows
<1>5. ASSUME NEW w \in Workers, ExpireIfUnchanged(w) PROVE DueAtPeriodEnd'
  BY <1>0, <1>5 DEF ExpireIfUnchanged, StillExpired, SubRows
<1>6. ASSUME NEW w \in Workers, CompleteInitial(w) PROVE DueAtPeriodEnd'
  BY <1>6 DEF CompleteInitial
<1>7. ASSUME NEW w \in Workers, CompleteRenewal(w) PROVE DueAtPeriodEnd'
  BY <1>0, <1>7 DEF CompleteRenewal, Renewed, SubRows
<1> QED
  BY <1>1, <1>2, <1>3, <1>4, <1>5, <1>6, <1>7, SubWriters

\* A step that neither completes nor resumes lets no new paid time appear.
LEMMA PaidTimeWriters ==
  ASSUME TypeOK, JobOK, [Next]_vars, PaidNow'
  PROVE  \/ PaidNow
         \/ \E w \in Workers : CompleteInitial(w) \/ CompleteRenewal(w)
<1>0. now \in Int /\ now' \in Int /\ now' >= now /\ sub \in SubRows
  BY RestWriters DEF Tick, TypeOK
<1>1. CASE UNCHANGED sub
  BY <1>0, <1>1 DEF PaidNow, SubRows, Time
<1>2. CASE Cancel
  BY <1>0, <1>2 DEF Cancel, PaidNow, SubRows, Time
<1>3. CASE Resume
  BY <1>3 DEF Resume, CanResume
<1>4. ASSUME NEW k \in CustomerKeys, FinishBillingAuth(k) PROVE PaidNow
  BY <1>0, <1>4 DEF FinishBillingAuth, PaidNow, SubRows, Time
<1>5. ASSUME NEW w \in Workers, ExpireIfUnchanged(w) PROVE PaidNow
  BY <1>0, <1>5 DEF ExpireIfUnchanged, PaidNow, SubRows, Time
<1> QED
  BY <1>1, <1>2, <1>3, <1>4, <1>5, SubWriters

\* No step lets an order be open while paid time is left.
LEMMA NoDoublePayStep ==
  ASSUME TypeOK, JobOK, OneOpenOrder, DueAtPeriodEnd, NoDoublePay, [Next]_vars
  PROVE  NoDoublePay'
<1> SUFFICES ASSUME Open' # {}, PaidNow' PROVE FALSE
  BY DEF NoDoublePay
<1>1. PaidNow
  BY PaidTimeWriters, CompletionCloses
<1>2. Open = {}
  BY <1>1 DEF NoDoublePay
<1>3. ASSUME NEW w \in Workers, NEW a \in Attempts, ClaimInitial(w, a) PROVE FALSE
  BY <1>1, <1>3 DEF ClaimInitial, CanPurchase
<1>4. ASSUME NEW w \in Workers, ClaimRenewal(w) PROVE FALSE
  <2>1. sub.periodEnd = job[w].order /\ job[w].order <= now /\ job[w].order \in DueTimes
    BY <1>4 DEF ClaimRenewal, Claimable, SnapshotCurrent, DueAtPeriodEnd, At, JobOK
  <2> QED
    BY <1>1, <2>1 DEF PaidNow, TypeOK, DueTimes
<1> QED
  BY <1>2, <1>3, <1>4, OpenWriters

----------------------------------------------------------------------------
\* The user's word.

\* A pending purchase that is not cancelled is wanted: only its claim makes it
\* pending, and a cancellation marks every pending one.
LEMMA IntentStep ==
  ASSUME TypeOK, JobOK, IntentOK, [Next]_vars
  PROVE  IntentOK'
<1> USE DEF IntentOK, PendingInitial
<1>0. initial \in [Attempts -> InitialRows]
  BY DEF TypeOK
<1>1. CASE UNCHANGED initial /\ ~Cancel
  <2>1. wants => wants'
    BY <1>1, RestWriters DEF Resume, ClaimInitial
  <2> QED
    BY <1>1, <2>1
<1>2. CASE Cancel
  BY <1>0, <1>2 DEF Cancel, MarkCancelled, InitialRows
<1>3. ASSUME NEW w \in Workers, IssueBillingKey(w) \/ CompleteInitial(w) \/ FailInitial(w)
      PROVE  IntentOK'
  BY <1>0, <1>3
  DEF IssueBillingKey, SaveBillingKey, IssuedKey, CompleteInitial, FailInitial, InitialRows
<1>4. ASSUME NEW a \in Attempts, InitialBecomesDue(a) PROVE IntentOK'
  BY <1>0, <1>4 DEF InitialBecomesDue, InitialRows
<1>5. ASSUME NEW w \in Workers, NEW a \in Attempts, ClaimInitial(w, a) PROVE IntentOK'
  BY <1>5 DEF ClaimInitial
<1>6. ASSUME NEW w \in Workers, NEW a \in Attempts, ReadAttempt(w, a) PROVE IntentOK'
  BY <1>0, <1>6 DEF ReadAttempt, Postponed, InitialRows
<1> QED
  BY <1>1, <1>2, <1>3, <1>4, <1>5, <1>6, InitialWriters

\* No step turns renewal on against the user's last accepted word.
LEMMA CancellationStep ==
  ASSUME TypeOK, JobOK, IntentOK, CancellationKept, [Next]_vars
  PROVE  CancellationKept'
<1> USE DEF CancellationKept
<1>0. sub \in SubRows
  BY DEF TypeOK
<1>1. CASE Cancel
  BY <1>0, <1>1 DEF Cancel, SubRows
<1>2. CASE Resume
  BY <1>2 DEF Resume
<1>3. CASE ~Cancel /\ (sub'.autoRenew => sub.autoRenew)
  <2>1. wants => wants'
    BY <1>3, RestWriters DEF Resume, ClaimInitial
  <2> QED
    BY <1>3, <2>1
<1>4. ASSUME NEW k \in CustomerKeys, FinishBillingAuth(k) PROVE UNCHANGED sub.autoRenew
  BY <1>0, <1>4 DEF FinishBillingAuth, SubRows
<1>5. ASSUME NEW w \in Workers, ExpireIfUnchanged(w) PROVE UNCHANGED sub.autoRenew
  BY <1>0, <1>5 DEF ExpireIfUnchanged, SubRows
<1>6. ASSUME NEW w \in Workers, CompleteRenewal(w) PROVE UNCHANGED sub.autoRenew
  BY <1>0, <1>6 DEF CompleteRenewal, Renewed, SubRows
<1>7. ASSUME NEW w \in Workers, CompleteInitial(w) PROVE CancellationKept'
  <2>1. job[w].order \in PendingInitial
    BY <1>7 DEF CompleteInitial, Completes, StillPending, PendingInitial, At, JobOK
  <2>2. sub'.autoRenew = ~initial[job[w].order].cancelRequested /\ UNCHANGED wants
    BY <1>7 DEF CompleteInitial
  <2> QED
    BY <2>1, <2>2 DEF IntentOK
<1> QED
  BY <1>1, <1>2, <1>3, <1>4, <1>5, <1>6, <1>7, SubWriters

----------------------------------------------------------------------------
\* Leases.

\* LeaseOK for the reconciliation of one payment by one worker.
Leased(w) ==
  LET row == renewal[job[w].order] IN
  job[w].task = "renewal" =>
    /\ row.status # "NONE"
    /\ job[w].attempt <= row.attempts
    /\ row.review => job[w].attempt # row.attempts
    /\ \A v \in Workers \ {w} :
         job[v].task = "renewal" /\ job[v].order = job[w].order =>
           job[v].attempt # job[w].attempt

\* The lease invariant, split into its part about payments and its parts about holders.
LEMMA LeaseParts ==
  LeaseOK <=> /\ \A d \in DueTimes : renewal[d].review => renewal[d].status = "PENDING"
              /\ \A w \in Workers : Leased(w)
  BY DEF LeaseOK, Leased

\* Nothing but the reconciliation itself touches leases: a step that leaves the
\* payments alone and gives no worker a new lease keeps LeaseOK.
LEMMA LeaseFrame ==
  ASSUME TypeOK, JobOK, LeaseOK, UNCHANGED renewal,
         \A w \in Workers : job'[w].task = "renewal" =>
           /\ job[w].task = "renewal"
           /\ job'[w].order = job[w].order
           /\ job'[w].attempt = job[w].attempt
  PROVE  LeaseOK'
  BY DEF LeaseOK

\* Which actions hand out a lease.
LEMMA LeaseHolders ==
  ASSUME TypeOK, [Next]_vars
  PROVE  \/ \E w \in Workers, d \in DueTimes : LeaseRenewal(w, d)
         \/ \A w \in Workers : job'[w].task = "renewal" =>
              /\ job[w].task = "renewal"
              /\ job'[w].order = job[w].order
              /\ job'[w].attempt = job[w].attempt
<1> DEFINE Kept == \A w \in Workers : job'[w].task = "renewal" =>
                     /\ job[w].task = "renewal"
                     /\ job'[w].order = job[w].order
                     /\ job'[w].attempt = job[w].attempt
<1>0. job \in [Workers -> Jobs]
  BY DEF TypeOK
<1>1. ASSUME NEW w \in Workers, NEW j, Become(w, j), j.task # "renewal" PROVE Kept
  BY <1>0, <1>1 DEF Become
<1>2. ASSUME NEW w \in Workers, NEW j, Become(w, j), j.task = job[w].task,
             j.order = job[w].order, j.attempt = job[w].attempt
      PROVE  Kept
  BY <1>0, <1>2 DEF Become
<1>3. CASE UNCHANGED job
  BY <1>3
<1>4. ASSUME NEW w \in Workers, Finish(w) PROVE Kept
  BY <1>1, <1>4, IdleTyped DEF Finish
<1>5. ASSUME NEW w \in Workers, Continue(w) PROVE Kept
  <2>0. job[w] \in Jobs
    BY <1>0
  <2>1. CASE IssueBillingKey(w)
    BY <1>2, <2>0, <2>1 DEF IssueBillingKey, SaveBillingKey, IssuedKey, Jobs
  <2>2. CASE PostCharge(w) \/ ClaimRenewal(w)
    BY <1>2, <2>0, <2>2 DEF PostCharge, ClaimRenewal, Goto, Jobs
  <2>3. CASE ReceiveCharge(w) \/ LookupAnswers(w) \/ LookupFails(w)
    BY <1>2, <2>0, <2>3 DEF ReceiveCharge, LookupAnswers, LookupFails, Jobs
  <2> QED
    BY <1>4, <1>5, <2>1, <2>2, <2>3
    DEF Continue, ExpireIfUnchanged, IssueFails, ChargeFails, CompleteInitial, FailInitial,
        LeaveInitial, SkipRenewal, CompleteRenewal, LeaveCharge, DeferRenewal, SkipSettled
<1>6. ASSUME NEW w \in Workers, StartExpire(w) \/ FindDue(w) PROVE Kept
  BY <1>1, <1>6, IdleTyped DEF StartExpire, FindDue, Start, Jobs
<1>7. ASSUME NEW w \in Workers, NEW a \in Attempts, ClaimInitial(w, a) \/ ReadAttempt(w, a)
      PROVE  Kept
  BY <1>1, <1>7, IdleTyped DEF ClaimInitial, ReadAttempt, Reconciling, Start, Jobs
<1>8. CASE User \/ Gateway \/ Timers \/ UNCHANGED vars
  BY <1>3, <1>8
  DEF User, Gateway, Timers, vars, Cancel, Resume, StartBillingAuth, FinishBillingAuth,
      Process, Refund, Tick, InitialBecomesDue, RenewalBecomesDue
<1> QED
  BY <1>4, <1>5, <1>6, <1>7, <1>8 DEF Next, Begin, Confirm, User, Stop

\* Every step keeps the lease invariant: a new lease has a new number.
LEMMA LeaseStep ==
  ASSUME TypeOK, JobOK, LeaseOK, [Next]_vars
  PROVE  LeaseOK'
<1> DEFINE Kept == \A w \in Workers : job'[w].task = "renewal" =>
                     /\ job[w].task = "renewal"
                     /\ job'[w].order = job[w].order
                     /\ job'[w].attempt = job[w].attempt
<1>0. job \in [Workers -> Jobs] /\ renewal \in [DueTimes -> RenewalRows]
  BY DEF TypeOK
<1>1. ASSUME NEW w \in Workers, NEW d \in DueTimes, LeaseRenewal(w, d) PROVE LeaseOK'
  <2> DEFINE n == renewal[d].attempts + 1
  <2>1. /\ renewal' = [renewal EXCEPT ![d].next = "waiting", ![d].attempts = n]
        /\ renewal[d].status = "PENDING" /\ ~renewal[d].review
        /\ n \in Nat /\ n > renewal[d].attempts
    BY <1>0, <1>1 DEF LeaseRenewal, NextLease, RenewalRows
  <2>2. /\ job'[w].task = "renewal" /\ job'[w].order = d /\ job'[w].attempt = n
        /\ \A v \in Workers \ {w} : job'[v] = job[v]
    BY <1>0, <1>1, IdleTyped DEF LeaseRenewal, NextLease, Start, Become, Jobs
  <2>3. \A e \in DueTimes :
          /\ renewal'[e].status = renewal[e].status
          /\ renewal'[e].review <=> renewal[e].review
          /\ renewal'[e].attempts = IF e = d THEN n ELSE renewal[e].attempts
    BY <1>0, <2>1 DEF RenewalRows
  <2>4. \A v \in Workers : job[v].task = "renewal" =>
          /\ job[v].order \in DueTimes /\ job[v].attempt \in Nat
          /\ renewal[job[v].order].attempts \in Nat
    BY <1>0 DEF JobOK, Jobs, RenewalRows
  <2>5. \A v \in Workers : job[v].task = "renewal" /\ job[v].order = d =>
          job[v].attempt # n
    BY <2>1, <2>4, LeaseParts DEF Leased
  <2>6. Leased(w)'
    <3>1. renewal'[d].attempts = n /\ renewal'[d].status = "PENDING" /\ ~renewal'[d].review
      BY <2>1, <2>3
    <3>2. \A v \in Workers \ {w} :
            job'[v].task = "renewal" /\ job'[v].order = d => job'[v].attempt # n
      BY <2>2, <2>5
    <3> QED
      BY <2>1, <2>2, <3>1, <3>2 DEF Leased
  <2>7. ASSUME NEW v \in Workers \ {w}, job[v].task = "renewal" PROVE Leased(v)'
    <3> DEFINE e == job[v].order
    <3>1. job'[v] = job[v] /\ e \in DueTimes /\ job[v].attempt \in Nat
          /\ renewal[e].attempts \in Nat
      BY <2>2, <2>4, <2>7
    <3>2. /\ renewal[e].status # "NONE"
          /\ job[v].attempt <= renewal[e].attempts
          /\ renewal[e].review => job[v].attempt # renewal[e].attempts
          /\ \A u \in Workers \ {v} :
               job[u].task = "renewal" /\ job[u].order = e => job[u].attempt # job[v].attempt
      BY <2>7, LeaseParts DEF Leased
    <3>3. /\ renewal'[e].status # "NONE"
          /\ job[v].attempt <= renewal'[e].attempts
          /\ renewal'[e].review => job[v].attempt # renewal'[e].attempts
      <4>1. CASE e = d
        <5>1. /\ renewal'[d].status = "PENDING" /\ ~renewal'[d].review
              /\ renewal'[d].attempts = n
          BY <2>1, <2>3
        <5> QED
          BY <2>1, <3>1, <3>2, <4>1, <5>1
      <4>2. CASE e # d
        BY <2>3, <3>1, <3>2, <4>2
      <4> QED
        BY <4>1, <4>2
    <3>4. ASSUME NEW u \in Workers \ {v}, job'[u].task = "renewal", job'[u].order = e
          PROVE  job'[u].attempt # job[v].attempt
      <4>1. CASE u = w
        BY <2>2, <2>5, <2>7, <3>4, <4>1
      <4>2. CASE u # w
        BY <2>2, <3>2, <3>4, <4>2
      <4> QED
        BY <4>1, <4>2
    <3> QED
      BY <3>1, <3>3, <3>4 DEF Leased
  <2>8. \A e \in DueTimes : renewal'[e].review => renewal'[e].status = "PENDING"
    BY <2>3 DEF LeaseOK
  <2>9. LeaseOK' <=> /\ \A e \in DueTimes : renewal'[e].review => renewal'[e].status = "PENDING"
                     /\ \A v \in Workers : Leased(v)'
    BY DEF LeaseOK, Leased
  <2>10. \A v \in Workers \ {w} : Leased(v)'
    BY <2>2, <2>7 DEF Leased
  <2> QED
    BY <2>6, <2>8, <2>9, <2>10
<1>2. ASSUME Kept, NEW w \in Workers, ClaimRenewal(w) PROVE LeaseOK'
  <2>1. job[w].order \in DueTimes /\ renewal[job[w].order].status = "NONE"
    BY <1>2 DEF ClaimRenewal, Claimable, At, JobOK
  <2>2. \A d \in DueTimes :
          IF d = job[w].order THEN ~renewal'[d].review ELSE renewal'[d] = renewal[d]
    BY <1>0, <1>2, <2>1 DEF ClaimRenewal
  <2>3. \A v \in Workers : job[v].task = "renewal" =>
          job[v].order \in DueTimes \ {job[w].order}
    BY <2>1 DEF LeaseOK, JobOK
  <2> QED
    BY <1>2, <2>2, <2>3 DEF LeaseOK
<1>3. ASSUME Kept, NEW w \in Workers, CompleteRenewal(w) PROVE LeaseOK'
  <2>1. \A d \in DueTimes :
          \/ renewal'[d] = renewal[d]
          \/ /\ renewal'[d].status = "DONE" /\ ~renewal'[d].review
             /\ renewal'[d].attempts = renewal[d].attempts
    BY <1>0, <1>3 DEF CompleteRenewal, RenewalRows
  <2>2. \A v \in Workers : job[v].task = "renewal" => job[v].order \in DueTimes
    BY DEF JobOK
  <2> QED
    BY <1>3, <2>1, <2>2 DEF LeaseOK
<1>4. ASSUME Kept, NEW w \in Workers, DeferRenewal(w) PROVE LeaseOK'
  <2>1. job[w].task = "renewal" /\ job[w].order \in DueTimes /\ job'[w].task = "idle"
    BY <1>0, <1>4, IdleTyped DEF DeferRenewal, At, JobOK, Finish, Become
  <2>2. \A d \in DueTimes :
          \/ renewal'[d] = renewal[d]
          \/ /\ d = job[w].order /\ renewal[d].status = "PENDING"
             /\ renewal[d].attempts = job[w].attempt
             /\ renewal'[d].status = "PENDING"
             /\ renewal'[d].attempts = renewal[d].attempts
    BY <1>0, <1>4, <2>1 DEF DeferRenewal, HoldsLease, Deferred, RenewalRows
  <2>3. \A v \in Workers : job[v].task = "renewal" => job[v].order \in DueTimes
    BY DEF JobOK
  <2> QED
    BY <1>4, <2>1, <2>2, <2>3 DEF LeaseOK
<1>5. ASSUME Kept, NEW d \in DueTimes, RenewalBecomesDue(d) PROVE LeaseOK'
  <2>1. \A e \in DueTimes :
          /\ renewal'[e].status = renewal[e].status
          /\ renewal'[e].review <=> renewal[e].review
          /\ renewal'[e].attempts = renewal[e].attempts
    BY <1>0, <1>5 DEF RenewalBecomesDue, RenewalRows
  <2>2. \A v \in Workers : job[v].task = "renewal" => job[v].order \in DueTimes
    BY DEF JobOK
  <2> QED
    BY <1>5, <2>1, <2>2 DEF LeaseOK
<1>6. CASE Kept /\ UNCHANGED renewal
  BY <1>6, LeaseFrame
<1> QED
  BY <1>1, <1>2, <1>3, <1>4, <1>5, <1>6, LeaseHolders, RenewalWriters

\* Only a holder of the current lease writes a deferral, and a payment that is
\* with the operators has no holder.
LEMMA ReviewStep ==
  ASSUME TypeOK, JobOK, LeaseOK, [Next]_vars, NEW d \in DueTimes, renewal[d].review
  PROVE  renewal'[d].review \/ renewal'[d].status = "DONE"
<1>0. renewal \in [DueTimes -> RenewalRows] /\ renewal[d].status = "PENDING"
  BY DEF TypeOK, LeaseOK
<1>1. ASSUME NEW w \in Workers, ClaimRenewal(w) PROVE renewal'[d].review
  BY <1>0, <1>1 DEF ClaimRenewal, Claimable, NoOpenOrder, PendingRenewal
<1>2. ASSUME NEW w \in Workers, CompleteRenewal(w)
      PROVE  renewal'[d].review \/ renewal'[d].status = "DONE"
  BY <1>0, <1>2 DEF CompleteRenewal, RenewalRows
<1>3. ASSUME NEW w \in Workers, DeferRenewal(w) PROVE renewal'[d].review
  <2>1. job[w].task = "renewal"
    BY <1>3 DEF DeferRenewal, At
  <2>2. ~HoldsLease(w) \/ job[w].order # d
    BY <2>1 DEF HoldsLease, LeaseOK
  <2> QED
    BY <1>0, <1>3, <2>2 DEF DeferRenewal
<1>4. ASSUME NEW e \in DueTimes, RenewalBecomesDue(e) PROVE renewal'[d].review
  BY <1>0, <1>4 DEF RenewalBecomesDue, RenewalRows
<1>5. ASSUME NEW w \in Workers, NEW e \in DueTimes, LeaseRenewal(w, e)
      PROVE  renewal'[d].review
  BY <1>0, <1>5 DEF LeaseRenewal, RenewalRows
<1> QED
  BY <1>1, <1>2, <1>3, <1>4, <1>5, RenewalWriters

----------------------------------------------------------------------------
\* The theorems.

\* The core of the inductive invariant holds initially.
LEMMA InitCore == Init => CoreInv
<1> SUFFICES ASSUME Init PROVE CoreInv
  OBVIOUS
<1>1. TypeOK /\ JobOK
  BY InitTyped
<1>2. PendingInitial = {} /\ PendingRenewal = {}
  BY DEF Init, PendingInitial, PendingRenewal, NoAttempt, NoRenewal
<1>3. LeaseOK
  BY IdleTyped DEF Init, LeaseOK, NoRenewal
<1>4. IntentOK /\ OneOpenOrder /\ NoDoublePay
  BY <1>2 DEF IntentOK, OneOpenOrder, NoDoublePay, Open
<1>5. DueAtPeriodEnd /\ CancellationKept
  BY DEF Init, DueAtPeriodEnd, CancellationKept
<1> QED
  BY <1>1, <1>3, <1>4, <1>5 DEF CoreInv

\* Types and the consistency of jobs are kept by every step.
LEMMA TypedStep ==
  ASSUME TypeOK, JobOK, [Next]_vars
  PROVE  TypeOK' /\ JobOK'
  BY JobStep, SubStep, InitialStep, RenewalStep, RestStep DEF TypeOK

\* The core of the inductive invariant holds in every reachable state, for any number of
\* purchases, workers, customer keys and lookups.
THEOREM CoreInvariance == Spec => []CoreInv
<1>1. CoreInv /\ [Next]_vars => CoreInv'
  BY TypedStep, OneOpenStep, DueStep, NoDoublePayStep, IntentStep, CancellationStep,
     LeaseStep
  DEF CoreInv
<1> QED
  BY <1>1, InitCore, PTL DEF Spec

\* Every variable of the billing system keeps its type.
THEOREM TypeCorrect == Spec => []TypeOK
<1>1. CoreInv => TypeOK
  BY DEF CoreInv
<1> QED
  BY <1>1, CoreInvariance, PTL

\* At most one order of a subscription is ever open (the guards of
\* claimInitialPayment and claimAutoRenewalPayment under the row lock).
THEOREM OneOpenOrderAlways == Spec => []OneOpenOrder
<1>1. CoreInv => OneOpenOrder
  BY DEF CoreInv
<1> QED
  BY <1>1, CoreInvariance, PTL

\* No order is open while paid time is left: neither a stale batch snapshot nor a
\* resumption or a second purchase makes anyone pay for the same time twice.
THEOREM NoDoublePayAlways == Spec => []NoDoublePay
<1>1. CoreInv => NoDoublePay
  BY DEF CoreInv
<1> QED
  BY <1>1, CoreInvariance, PTL

\* Renewal is never on against the user's last word, however late a completion
\* arrives (cancelRequested, and the latest intent in completeAutoRenewalPayment).
THEOREM CancellationAlwaysKept == Spec => []CancellationKept
<1>1. CoreInv => CancellationKept
  BY DEF CoreInv
<1> QED
  BY <1>1, CoreInvariance, PTL

\* A renewing subscription is due exactly when its paid period ends.
THEOREM DueAtPeriodEndAlways == Spec => []DueAtPeriodEnd
<1>1. CoreInv => DueAtPeriodEnd
  BY DEF CoreInv
<1> QED
  BY <1>1, CoreInvariance, PTL

\* A payment that was handed to the operators leaves their list only by success,
\* whatever workers with overtaken leases still write.
THEOREM ReviewAlwaysKept == Spec => ReviewKept
<1>1. CoreInv /\ [Next]_vars =>
        [\A d \in DueTimes :
           renewal[d].review => renewal'[d].review \/ renewal'[d].status = "DONE"]_vars
  BY ReviewStep DEF CoreInv
<1> QED
  BY <1>1, CoreInvariance, PTL DEF Spec, ReviewKept

=============================================================================
