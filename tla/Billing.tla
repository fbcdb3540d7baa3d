------------------------------- MODULE Billing -------------------------------
(***************************************************************************)
(* Paying for one personal subscription: the purchase (billing-auth        *)
(* confirmation), the monthly automatic renewal, the reconciliation of     *)
(* both against the payment gateway, and cancel / resume / expiry.         *)
(*                                                                         *)
(* One Subscription row is modelled.  Every transaction of the repository  *)
(* locks that row (SELECT ... FOR UPDATE), so two subscriptions interact   *)
(* only through the batch that walks over them, which is not part of this  *)
(* module.  A transaction is one action; an HTTP request handler or a      *)
(* batch item is a worker that performs several transactions and gateway   *)
(* calls, keeps in `job' what it read, and may stop between any two.       *)
(*                                                                         *)
(* Time is counted in ticks of the billing calendar.  The five-minute      *)
(* reconciliation timer is far shorter than a tick, so it is a flag that   *)
(* becomes due at any moment after it was set.                             *)
(***************************************************************************)
EXTENDS Integers

CONSTANTS
  Attempts,      \* idempotency keys of purchases; each has an order of that name
  CustomerKeys,  \* customer keys that billing-auth requests generate
  Workers,       \* request handlers and batch items running at the same time
  None,          \* SQL NULL
  Period,        \* length of a paid period (one month)
  Window,        \* tolerated clock difference of an approval (60 seconds)
  Skew,          \* how far the gateway's clock may be off
  MaxLookups,    \* MAX_RECONCILIATION_ATTEMPTS
  MaxNow,        \* bound on the clock
  MaxLeases,     \* bound on how often a payment is leased for reconciliation
  MaxFailures    \* bound on the number of workers that stop half-way

DueTimes == 1..MaxNow            \* a renewal order is named by its due date
Orders == Attempts \cup DueTimes

ASSUME BillingAssumption ==
  /\ MaxNow \in Nat \ {0}
  /\ Window \in Nat
  /\ Period \in Nat /\ Period > Window
  /\ Skew \in Nat
  /\ MaxLookups \in Nat \ {0}
  /\ MaxFailures \in Nat
  /\ MaxLeases \in Nat
  /\ None \notin Int /\ None \notin Attempts /\ None \notin CustomerKeys
  /\ Attempts \cap Int = {}

VARIABLES
  now,          \* the clock
  sub,          \* the Subscription row
  initial,      \* InitialSubscriptionPayment rows, by idempotency key
  renewal,      \* SubscriptionPayment rows of renewals, by due date
  order,        \* the gateway's orders (external)
  approvedAt,   \* when the gateway approved them (external)
  authRequests, \* keys of billing-auth requests that read a NULL customer key
  job,          \* what each worker is doing
  failures,     \* workers stopped half-way so far
  posts,        \* history: charge requests sent, by order
  wants         \* history: the user's last accepted word, TRUE for "keep renewing"

vars == <<now, sub, initial, renewal, order, approvedAt, authRequests, job,
          failures, posts, wants>>

Idle == [task |-> "idle", step |-> "none", order |-> None, end |-> None,
         billingKey |-> None, customerKey |-> None, attempt |-> 0,
         response |-> "none"]

NoAttempt == [status |-> "NONE", customerKey |-> None, billingKey |-> None,
              cancelRequested |-> FALSE, createdAt |-> 0, next |-> "none"]

NoRenewal == [status |-> "NONE", periodEnd |-> None, attempts |-> 0,
              next |-> "none", review |-> FALSE]

Init ==
  /\ now = 1
  /\ sub = [plan |-> "FREE", status |-> "ACTIVE", autoRenew |-> FALSE,
            periodEnd |-> None, nextBillingAt |-> None,
            billingKey |-> None, customerKey |-> None]
  /\ initial = [a \in Attempts |-> NoAttempt]
  /\ renewal = [d \in DueTimes |-> NoRenewal]
  /\ order = [o \in Orders |-> "NONE"]
  /\ approvedAt = [o \in Orders |-> 0]
  /\ authRequests = {}
  /\ job = [w \in Workers |-> Idle]
  /\ failures = 0
  /\ posts = [o \in Orders |-> 0]
  /\ wants = FALSE

----------------------------------------------------------------------------
\* Helpers shared by the transactions.

PendingInitial == {a \in Attempts : initial[a].status = "PENDING"}
PendingRenewal == {d \in DueTimes : renewal[d].status = "PENDING"}

\* The paid period of a Pro subscription still runs.
PaidNow ==
  /\ sub.plan = "PRO"
  /\ sub.periodEnd # None
  /\ sub.periodEnd > now

\* resolveNextPeriod: a month from the later of the period's end and the payment.
NextPeriodEnd(end, paidAt) ==
  (IF end # None /\ end > paidAt THEN end ELSE paidAt) + Period

\* What a caller sees of an order; an unprocessed one is not found (404).
Answers == {"DONE", "MISMATCH", "ABORTED", "CANCELED"}

Seen(o) == IF order[o] \in Answers THEN order[o] ELSE "NOT_FOUND"

Become(w, j) == job' = [job EXCEPT ![w] = j]
Start(w, j) == job[w] = Idle /\ Become(w, j)
Goto(w, step) == Become(w, [job[w] EXCEPT !.step = step])
Finish(w) == Become(w, Idle)
At(w, tasks, step) == job[w].task \in tasks /\ job[w].step = step

gateway == <<order, approvedAt, posts>>

----------------------------------------------------------------------------
\* The user: customer key, cancel, resume, expiry on read.

\* CreateBillingAuthRequest reads the row; a NULL key makes it generate one ...
StartBillingAuth(k) ==
  /\ sub.customerKey = None
  /\ k \notin authRequests
  /\ authRequests' = authRequests \cup {k}
  /\ UNCHANGED <<now, sub, initial, renewal, gateway, job, failures, wants>>

\* ... which it writes later, whatever the row holds by then.
FinishBillingAuth(k) ==
  /\ k \in authRequests
  /\ authRequests' = authRequests \ {k}
  /\ sub' = [sub EXCEPT !.customerKey = k]
  /\ UNCHANGED <<now, initial, renewal, gateway, job, failures, wants>>

\* Mutant: cancelling leaves a pending purchase alone.
MarkNothing(rows) == rows

\* cancelAutoRenewal: a purchase still pending is marked as cancelled too.
MarkCancelled(rows) ==
  [a \in Attempts |-> IF rows[a].status = "PENDING"
                       THEN [rows[a] EXCEPT !.cancelRequested = TRUE]
                       ELSE rows[a]]

Cancel ==
  /\ sub.plan = "PRO"
  /\ sub.status \in {"ACTIVE", "CANCELED"}
  /\ initial' = MarkCancelled(initial)
  /\ sub' = [sub EXCEPT !.status = "CANCELED", !.autoRenew = FALSE,
                        !.nextBillingAt = None]
  /\ wants' = FALSE
  /\ UNCHANGED <<now, renewal, gateway, authRequests, job, failures>>

\* resumeAutoRenewal, from the resume request or from a repeated billing-auth
\* confirmation while the cancelled period still runs.
CanResume ==
  /\ PaidNow
  /\ sub.status = "CANCELED"
  /\ sub.billingKey # None /\ sub.customerKey # None

Resume ==
  /\ CanResume
  /\ sub' = [sub EXCEPT !.status = "ACTIVE", !.autoRenew = TRUE,
                        !.nextBillingAt = sub.periodEnd]
  /\ wants' = TRUE
  /\ UNCHANGED <<now, initial, renewal, gateway, authRequests, job, failures>>

\* normalizeExpiredSubscription: a reader that saw an ended, non-renewing
\* period ...
StartExpire(w) ==
  /\ sub.plan = "PRO" /\ ~sub.autoRenew
  /\ sub.periodEnd # None /\ sub.periodEnd <= now
  /\ Start(w, [Idle EXCEPT !.task = "expire", !.step = "settle",
                           !.end = sub.periodEnd])
  /\ UNCHANGED <<now, sub, initial, renewal, gateway, authRequests, failures, wants>>

\* Mutant: the period is not compared with the one that was read.
ExpiredAnyPeriod(end) == sub.plan = "PRO" /\ ~sub.autoRenew

\* ... expires the row only if it still shows that period.
StillExpired(end) ==
  /\ sub.plan = "PRO" /\ ~sub.autoRenew
  /\ sub.periodEnd = end

ExpireIfUnchanged(w) ==
  /\ At(w, {"expire"}, "settle")
  /\ sub' = IF StillExpired(job[w].end)
            THEN [sub EXCEPT !.plan = "FREE", !.status = "EXPIRED",
                             !.nextBillingAt = None]
            ELSE sub
  /\ Finish(w)
  /\ UNCHANGED <<now, initial, renewal, gateway, authRequests, failures, wants>>

----------------------------------------------------------------------------
\* Purchase: claim the attempt, issue and store a billing key, charge, settle.

\* Mutant: pending renewals are forgotten.
NoOpenPurchase == PendingInitial = {}

\* No order of this subscription has an unknown outcome.
NoOpenOrder == PendingInitial = {} /\ PendingRenewal = {}

CanPurchase == sub.customerKey # None /\ ~PaidNow /\ NoOpenOrder

\* findInitialPayment: the idempotency key was used before.
Claimed(a) == initial[a].status # "NONE"

ClaimInitial(w, a) ==
  /\ ~Claimed(a)
  /\ CanPurchase
  /\ initial' = [initial EXCEPT ![a] =
       [status |-> "PENDING", customerKey |-> sub.customerKey, billingKey |-> None,
        cancelRequested |-> FALSE, createdAt |-> now, next |-> "due"]]
  /\ Start(w, [Idle EXCEPT !.task = "confirm", !.step = "issue", !.order = a,
                           !.customerKey = sub.customerKey])
  /\ wants' = TRUE
  /\ UNCHANGED <<now, sub, renewal, gateway, authRequests, failures>>

\* issueBillingKey: the key issued for attempt a is called a, however often it is
\* asked for.
IssuedKey(a) == a

\* saveInitialBillingKey writes it whatever has become of the attempt meanwhile.
SaveBillingKey(a) == initial' = [initial EXCEPT ![a].billingKey = IssuedKey(a)]

IssueBillingKey(w) ==
  LET a == job[w].order IN
  /\ At(w, {"confirm"}, "issue")
  /\ SaveBillingKey(a)
  /\ Become(w, [job[w] EXCEPT !.step = "charge", !.billingKey = IssuedKey(a)])
  /\ UNCHANGED <<now, sub, renewal, gateway, authRequests, failures, wants>>

\* The gateway issues no key, or the call fails: the attempt stays without one.
IssueFails(w) ==
  /\ At(w, {"confirm"}, "issue")
  /\ Finish(w)
  /\ UNCHANGED <<now, sub, initial, renewal, gateway, authRequests, failures, wants>>

\* chargeBilling: the request leaves the server.
PostCharge(w) ==
  LET o == job[w].order IN
  /\ At(w, {"confirm", "charge"}, "charge")
  /\ order' = [order EXCEPT ![o] = IF @ = "NONE" THEN "INFLIGHT" ELSE @]
  /\ posts' = [posts EXCEPT ![o] = @ + 1]
  /\ Goto(w, "await")
  /\ UNCHANGED <<now, sub, initial, renewal, approvedAt, authRequests, failures, wants>>

\* The response arrives within the ten seconds ...
ReceiveCharge(w) ==
  /\ At(w, {"confirm", "charge"}, "await")
  /\ order[job[w].order] \in Answers
  /\ Become(w, [job[w] EXCEPT !.step = "settle", !.response = order[job[w].order]])
  /\ UNCHANGED <<now, sub, initial, renewal, gateway, authRequests, failures, wants>>

\* ... or it does not, or the gateway refuses: the order stays open.
ChargeFails(w) ==
  /\ At(w, {"confirm", "charge"}, "await")
  /\ Finish(w)
  /\ UNCHANGED <<now, sub, initial, renewal, gateway, authRequests, failures, wants>>

\* Mutant: no next time is written.
PostponedForever(row) == [row EXCEPT !.next = "none"]

Postponed(row) == [row EXCEPT !.next = "waiting"]

\* Mutant: an attempt with a billing key is charged again instead of looked up.
Recharging(a) ==
  [Idle EXCEPT !.task = "confirm", !.order = a, !.billingKey = initial[a].billingKey,
               !.step = IF initial[a].billingKey = None THEN "issue" ELSE "charge"]

Reconciling(a) ==
  [Idle EXCEPT !.task = "initial", !.order = a, !.billingKey = initial[a].billingKey,
               !.step = "lookup"]

\* reconcile: the attempt is read (its billing key as of now) and deferred; the
\* user's request comes at any time, the batch only when the attempt is due.
ReadAttempt(w, a) ==
  /\ initial[a].status = "PENDING"
  /\ initial' = [initial EXCEPT ![a] = Postponed(@)]
  /\ Start(w, Reconciling(a))
  /\ UNCHANGED <<now, sub, renewal, gateway, authRequests, failures, wants>>

\* ConfirmBillingAuth: a known attempt is reconciled and never charged again, a
\* cancelled period that still runs is resumed, anything else is a purchase.
Confirm(w, a) ==
  \/ ReadAttempt(w, a)
  \/ ~Claimed(a) /\ Resume
  \/ ClaimInitial(w, a)

ReconcileInitialBatch(w, a) == initial[a].next = "due" /\ ReadAttempt(w, a)

InitialBecomesDue(a) ==
  /\ initial[a].status = "PENDING" /\ initial[a].next = "waiting"
  /\ initial' = [initial EXCEPT ![a].next = "due"]
  /\ UNCHANGED <<now, sub, renewal, gateway, authRequests, job, failures, wants>>

\* findPaymentByOrderId, for either kind of order ...
LookupAnswers(w) ==
  /\ At(w, {"initial", "renewal"}, "lookup")
  /\ Become(w, [job[w] EXCEPT !.step = "settle", !.response = Seen(job[w].order)])
  /\ UNCHANGED <<now, sub, initial, renewal, gateway, authRequests, failures, wants>>

\* ... an error of which counts as not found.
LookupFails(w) ==
  /\ At(w, {"initial", "renewal"}, "lookup")
  /\ Become(w, [job[w] EXCEPT !.step = "settle", !.response = "NOT_FOUND"])
  /\ UNCHANGED <<now, sub, initial, renewal, gateway, authRequests, failures, wants>>

\* The approval time is plausible for this attempt.
InWindow(a) ==
  /\ approvedAt[a] >= initial[a].createdAt - Window
  /\ approvedAt[a] <= now + Window

\* Mutant: the update is not conditional.
AnyStatus(a) == TRUE

\* The conditional update in completeInitialPayment and failInitialPayment.
StillPending(a) == initial[a].status = "PENDING"

Completes(w) ==
  LET a == job[w].order IN
  /\ job[w].response = "DONE"
  /\ InWindow(a)
  /\ job[w].billingKey # None
  /\ StillPending(a)

\* Mutant: an order that the gateway does not know is taken for a failed one.
FailsUnknown(w) ==
  /\ job[w].response \in {"ABORTED", "CANCELED", "NOT_FOUND"}
  /\ StillPending(job[w].order)

Fails(w) ==
  /\ job[w].response \in {"ABORTED", "CANCELED"}
  /\ StillPending(job[w].order)

\* A purchase buys a month from its approval, whatever the row says of a period.
BoughtPeriod(a) == NextPeriodEnd(None, approvedAt[a])

CompleteInitial(w) ==
  LET a == job[w].order
      renews == ~initial[a].cancelRequested
      end == BoughtPeriod(a)
  IN
  /\ At(w, {"confirm", "initial"}, "settle")
  /\ Completes(w)
  /\ initial' = [initial EXCEPT ![a].status = "DONE"]
  /\ sub' = [plan |-> "PRO",
             status |-> IF renews THEN "ACTIVE" ELSE "CANCELED",
             autoRenew |-> renews,
             periodEnd |-> end,
             nextBillingAt |-> IF renews THEN end ELSE None,
             billingKey |-> job[w].billingKey,
             customerKey |-> initial[a].customerKey]
  /\ Finish(w)
  /\ UNCHANGED <<now, renewal, gateway, authRequests, failures, wants>>

FailInitial(w) ==
  /\ At(w, {"confirm", "initial"}, "settle")
  /\ Fails(w)
  /\ initial' = [initial EXCEPT ![job[w].order].status =
       IF job[w].response = "CANCELED" THEN "CANCELED" ELSE "FAILED"]
  /\ Finish(w)
  /\ UNCHANGED <<now, sub, renewal, gateway, authRequests, failures, wants>>

\* Any other answer, or a row settled meanwhile, leaves the attempt as it is.
LeaveInitial(w) ==
  /\ At(w, {"confirm", "initial"}, "settle")
  /\ ~Completes(w) /\ ~Fails(w)
  /\ Finish(w)
  /\ UNCHANGED <<now, sub, initial, renewal, gateway, authRequests, failures, wants>>

----------------------------------------------------------------------------
\* Renewal batch: find a due subscription, claim its order, charge, complete.

\* Mutant: the batch looks one tick ahead.
DueEarly ==
  /\ sub.plan = "PRO" /\ sub.status = "ACTIVE" /\ sub.autoRenew
  /\ sub.billingKey # None /\ sub.customerKey # None
  /\ sub.nextBillingAt # None
  /\ sub.nextBillingAt <= now + 1 /\ sub.nextBillingAt <= MaxNow

\* findDueAutoRenewalSubscriptions, for this row.
DueForRenewal ==
  /\ sub.plan = "PRO" /\ sub.status = "ACTIVE" /\ sub.autoRenew
  /\ sub.billingKey # None /\ sub.customerKey # None
  /\ sub.nextBillingAt # None /\ sub.nextBillingAt <= now

FindDue(w) ==
  /\ DueForRenewal
  /\ PendingRenewal = {}
  /\ renewal[sub.nextBillingAt].status = "NONE"
  /\ Start(w, [Idle EXCEPT !.task = "charge", !.step = "claim",
                           !.order = sub.nextBillingAt, !.end = sub.periodEnd,
                           !.billingKey = sub.billingKey,
                           !.customerKey = sub.customerKey])
  /\ UNCHANGED <<now, sub, initial, renewal, gateway, authRequests, failures, wants>>

\* The claim compares the locked row with what the batch read.
SnapshotCurrent(j) ==
  /\ sub.plan = "PRO" /\ sub.status = "ACTIVE" /\ sub.autoRenew
  /\ sub.billingKey = j.billingKey /\ sub.customerKey = j.customerKey
  /\ sub.nextBillingAt = j.order /\ sub.periodEnd = j.end

\* The order name is unique, so an order that exists refuses the claim.
Claimable(w) ==
  /\ SnapshotCurrent(job[w])
  /\ NoOpenOrder
  /\ renewal[job[w].order].status = "NONE"

ClaimRenewal(w) ==
  /\ At(w, {"charge"}, "claim")
  /\ Claimable(w)
  /\ renewal' = [renewal EXCEPT ![job[w].order] =
       [status |-> "PENDING", periodEnd |-> sub.periodEnd, attempts |-> 0,
        next |-> "waiting", review |-> FALSE]]
  /\ Goto(w, "charge")
  /\ UNCHANGED <<now, sub, initial, gateway, authRequests, failures, wants>>

SkipRenewal(w) ==
  /\ At(w, {"charge"}, "claim")
  /\ ~Claimable(w)
  /\ Finish(w)
  /\ UNCHANGED <<now, sub, initial, renewal, gateway, authRequests, failures, wants>>

\* isVerifiedPayment: approved, and for what was asked.
Verified(response) == response = "DONE"

CompletesRenewal(w) ==
  /\ Verified(job[w].response)
  /\ renewal[job[w].order].status = "PENDING"

\* Mutants: a cancelled subscription is due again; the due date is not moved.
RenewedAlwaysDue(end) ==
  [sub EXCEPT !.plan = "PRO", !.periodEnd = end, !.nextBillingAt = end]
RenewedNotMoved(end) == [sub EXCEPT !.periodEnd = end]

\* The subscription keeps its latest renewal intent.
Renewed(end) ==
  [sub EXCEPT !.plan = "PRO",
              !.status = IF sub.autoRenew THEN "ACTIVE" ELSE "CANCELED",
              !.periodEnd = end,
              !.nextBillingAt = IF sub.autoRenew THEN end ELSE None]

\* completeAutoRenewalPayment: settled once, and the period never shrinks.
CompleteRenewal(w) ==
  LET d == job[w].order
      paid == NextPeriodEnd(job[w].end, approvedAt[d])
      end == IF sub.periodEnd # None /\ sub.periodEnd > paid
             THEN sub.periodEnd ELSE paid
  IN
  /\ At(w, {"charge", "renewal"}, "settle")
  /\ CompletesRenewal(w)
  /\ renewal' = [renewal EXCEPT ![d].status = "DONE", ![d].next = "none",
                                ![d].review = FALSE]
  /\ sub' = Renewed(end)
  /\ Finish(w)
  /\ UNCHANGED <<now, initial, gateway, authRequests, failures, wants>>

\* A charge whose response is not a verified success stays open for reconciliation.
LeaveCharge(w) ==
  /\ At(w, {"charge"}, "settle")
  /\ ~CompletesRenewal(w)
  /\ Finish(w)
  /\ UNCHANGED <<now, sub, initial, renewal, gateway, authRequests, failures, wants>>

----------------------------------------------------------------------------
\* Renewal reconciliation: lease the payment, look the order up, settle or defer.

RenewalBecomesDue(d) ==
  /\ renewal[d].status = "PENDING" /\ renewal[d].next = "waiting"
  /\ renewal' = [renewal EXCEPT ![d].next = "due"]
  /\ UNCHANGED <<now, sub, initial, gateway, authRequests, job, failures, wants>>

\* Mutant: a lease is not counted.
SameLease(row) == row.attempts

NextLease(row) == row.attempts + 1

\* Past the last attempt (a worker stopped with it) there is no further lookup.
LeaseRenewal(w, d) ==
  LET attempt == NextLease(renewal[d]) IN
  /\ renewal[d].status = "PENDING" /\ renewal[d].next = "due" /\ ~renewal[d].review
  /\ attempt <= MaxLeases
  /\ renewal' = [renewal EXCEPT ![d].next = "waiting", ![d].attempts = attempt]
  /\ Start(w, [Idle EXCEPT !.task = "renewal", !.order = d,
                           !.step = IF attempt > MaxLookups THEN "settle" ELSE "lookup",
                           !.end = renewal[d].periodEnd, !.attempt = attempt])
  /\ UNCHANGED <<now, sub, initial, gateway, authRequests, failures, wants>>

NeedsReview(j) ==
  \/ j.response \in {"MISMATCH", "ABORTED", "CANCELED"}
  \/ j.attempt >= MaxLookups

\* Mutant: the attempt number is not compared.
StillOpen(w) == renewal[job[w].order].status = "PENDING"

\* deferAutoRenewalReconciliation writes only under the lease it was given.
HoldsLease(w) ==
  LET d == job[w].order IN
  /\ renewal[d].status = "PENDING"
  /\ renewal[d].attempts = job[w].attempt

\* Mutant: the last attempt schedules nothing and tells nobody.
DeferredSilently(row, j) ==
  [row EXCEPT !.next = IF NeedsReview(j) THEN "none" ELSE "waiting"]

Deferred(row, j) ==
  [row EXCEPT !.next = IF NeedsReview(j) THEN "none" ELSE "waiting",
              !.review = NeedsReview(j)]

DeferRenewal(w) ==
  LET d == job[w].order IN
  /\ At(w, {"renewal"}, "settle")
  /\ ~Verified(job[w].response)
  /\ renewal' = IF HoldsLease(w)
                THEN [renewal EXCEPT ![d] = Deferred(renewal[d], job[w])]
                ELSE renewal
  /\ Finish(w)
  /\ UNCHANGED <<now, sub, initial, gateway, authRequests, failures, wants>>

\* A success that another worker already recorded is skipped.
SkipSettled(w) ==
  /\ At(w, {"renewal"}, "settle")
  /\ Verified(job[w].response) /\ ~CompletesRenewal(w)
  /\ Finish(w)
  /\ UNCHANGED <<now, sub, initial, renewal, gateway, authRequests, failures, wants>>

----------------------------------------------------------------------------
\* The gateway (external), the clock and failures.

\* A request in flight is approved (as asked, or in a way that the code does not
\* accept), declined, or lost; an approved payment may be cancelled later.
Process(o, outcome, t) ==
  /\ order[o] = "INFLIGHT"
  /\ order' = [order EXCEPT ![o] = outcome]
  /\ approvedAt' = [approvedAt EXCEPT ![o] = IF outcome = "DONE" THEN t ELSE @]
  /\ UNCHANGED <<now, sub, initial, renewal, posts, authRequests, job, failures, wants>>

GatewayTimes == {t \in (now - Skew)..(now + Skew) : t >= 1}

Refund(o) ==
  /\ order[o] = "DONE"
  /\ order' = [order EXCEPT ![o] = "CANCELED"]
  /\ UNCHANGED <<now, sub, initial, renewal, approvedAt, posts, authRequests, job,
                 failures, wants>>

Tick ==
  /\ now < MaxNow
  /\ now' = now + 1
  /\ UNCHANGED <<sub, initial, renewal, gateway, authRequests, job, failures, wants>>

\* A worker is killed, or one of its database calls throws: what it had not
\* committed is lost.
Stop(w) ==
  /\ job[w] # Idle
  /\ failures < MaxFailures
  /\ failures' = failures + 1
  /\ Finish(w)
  /\ UNCHANGED <<now, sub, initial, renewal, gateway, authRequests, wants>>

----------------------------------------------------------------------------
\* A step of a worker that is already under way.
Continue(w) ==
  \/ ExpireIfUnchanged(w)
  \/ IssueBillingKey(w) \/ IssueFails(w)
  \/ PostCharge(w) \/ ReceiveCharge(w) \/ ChargeFails(w)
  \/ LookupAnswers(w) \/ LookupFails(w)
  \/ CompleteInitial(w) \/ FailInitial(w) \/ LeaveInitial(w)
  \/ ClaimRenewal(w) \/ SkipRenewal(w)
  \/ CompleteRenewal(w) \/ LeaveCharge(w) \/ DeferRenewal(w) \/ SkipSettled(w)

Begin(w) ==
  \/ StartExpire(w)
  \/ FindDue(w)
  \/ \E a \in Attempts : Confirm(w, a)
  \/ \E d \in DueTimes : LeaseRenewal(w, d)

User == Cancel \/ Resume \/ \E k \in CustomerKeys : StartBillingAuth(k) \/ FinishBillingAuth(k)

Gateway ==
  \E o \in Orders :
    \/ \E t \in GatewayTimes : Process(o, "DONE", t)
    \/ \E outcome \in {"MISMATCH", "ABORTED", "NONE"} : Process(o, outcome, now)
    \/ Refund(o)

Timers ==
  \/ Tick
  \/ \E a \in Attempts : InitialBecomesDue(a)
  \/ \E d \in DueTimes : RenewalBecomesDue(d)

Next ==
  \/ \E w \in Workers : Begin(w) \/ Continue(w) \/ Stop(w)
  \/ User \/ Gateway \/ Timers

Spec == Init /\ [][Next]_vars

\* What keeps happening: a started handler goes on (every call has a timeout), the
\* scheduler calls the batch again and again, the timers run, and the gateway does
\* not fail every lookup.  Strong fairness is for the batch, because the small set
\* of workers may be busy, and for the lookup, because it may fail in between.
\* Nobody has to purchase, cancel, resume or confirm; the gateway need not
\* process a charge.
Fairness ==
  /\ \A w \in Workers : WF_vars(Continue(w)) /\ SF_vars(LookupAnswers(w))
  /\ SF_vars(\E w \in Workers : FindDue(w))
  /\ \A a \in Attempts :
       /\ WF_vars(InitialBecomesDue(a))
       /\ SF_vars(\E w \in Workers : ReconcileInitialBatch(w, a))
  /\ \A d \in DueTimes :
       /\ WF_vars(RenewalBecomesDue(d))
       /\ SF_vars(\E w \in Workers : LeaseRenewal(w, d))

LiveSpec == Spec /\ Fairness

----------------------------------------------------------------------------
\* Properties.

Time == (Nat \ {0}) \cup {None}
Queue == {"none", "waiting", "due"}     \* no next look, one later, one now
KeyOrNone == Attempts \cup {None}       \* a billing key is named after its attempt
CustomerOrNone == CustomerKeys \cup {None}

SubRows == [plan : {"FREE", "PRO"}, status : {"ACTIVE", "CANCELED", "EXPIRED"},
            autoRenew : BOOLEAN, periodEnd : Time, nextBillingAt : Time,
            billingKey : KeyOrNone, customerKey : CustomerOrNone]
InitialRows == [status : {"NONE", "PENDING", "DONE", "FAILED", "CANCELED"},
                customerKey : CustomerOrNone, billingKey : KeyOrNone,
                cancelRequested : BOOLEAN, createdAt : Nat, next : Queue]
RenewalRows == [status : {"NONE", "PENDING", "DONE"}, periodEnd : Time,
                attempts : Nat, next : Queue, review : BOOLEAN]
Jobs == [task : {"idle", "confirm", "initial", "charge", "renewal", "expire"},
         step : {"none", "issue", "lookup", "claim", "charge", "await", "settle"},
         order : Orders \cup {None}, end : Time,
         billingKey : KeyOrNone, customerKey : CustomerOrNone,
         attempt : Nat, response : Answers \cup {"none", "NOT_FOUND"}]

\* Every variable keeps its type: a row, a job and an order only ever hold the
\* values the schema and the use cases give them.
TypeOK ==
  /\ now \in 1..MaxNow
  /\ sub \in SubRows
  /\ initial \in [Attempts -> InitialRows]
  /\ renewal \in [DueTimes -> RenewalRows]
  /\ order \in [Orders -> Answers \cup {"NONE", "INFLIGHT"}]
  /\ approvedAt \in [Orders -> Nat]
  /\ authRequests \subseteq CustomerKeys
  /\ job \in [Workers -> Jobs]
  /\ failures \in 0..MaxFailures
  /\ posts \in [Orders -> Nat]
  /\ wants \in BOOLEAN

Open == PendingInitial \cup PendingRenewal
Paid == {a \in Attempts : initial[a].status = "DONE"}
          \cup {d \in DueTimes : renewal[d].status = "DONE"}

\* At most one order of a subscription has an unknown outcome: a purchase and a
\* renewal, or two of either, are never both under way (claimInitialPayment,
\* claimAutoRenewalPayment).
OneOpenOrder == \A o, p \in Open : o = p

\* An order is open only while no paid period runs, so nobody is charged for
\* time that is already paid for (claims, resume, completion and expiry together).
NoDoublePay == Open # {} => ~PaidNow

\* However often confirmations, batches and reconciliations repeat, at most one
\* charge request is sent for an order ("Never charge again").
ChargedOnce == \A o \in Orders : posts[o] <= 1

\* Every recorded payment keeps the period it bought: no later completion,
\* cancellation or stale expiry takes it away while it runs.
PaidPeriodKept ==
  \A o \in Paid :
    /\ sub.periodEnd # None
    /\ approvedAt[o] + Period <= sub.periodEnd
    /\ now < approvedAt[o] + Period =>
         sub.plan = "PRO" /\ sub.status \in {"ACTIVE", "CANCELED"}

\* A payment is recorded as failed only when the gateway keeps no money for it,
\* and as done only when the gateway had approved it.
OutcomeTrue ==
  /\ \A o \in Paid : order[o] \in {"DONE", "CANCELED"} /\ approvedAt[o] > 0
  /\ \A a \in Attempts :
       initial[a].status \in {"FAILED", "CANCELED"} => order[a] \in {"ABORTED", "CANCELED"}

\* Automatic renewal is on only if that is the user's last accepted word: a late
\* answer, a reconciliation or a retry never undoes a cancellation.
CancellationKept == sub.autoRenew => wants

\* A renewing subscription is due exactly at the end of its paid period, and one
\* that does not renew is never due.
DueAtPeriodEnd ==
  IF sub.autoRenew THEN sub.nextBillingAt = sub.periodEnd /\ sub.plan = "PRO"
                   ELSE sub.nextBillingAt = None

\* docs/payment-architecture.md:179 - a subscription due for renewal has a valid
\* pair of billing key and customer key: the one belongs to the other.
RenewalKeysMatch ==
  DueForRenewal => initial[sub.billingKey].customerKey = sub.customerKey

\* A payment handed to the operators leaves their list only by succeeding: a
\* worker that lost its lease cannot put it back into the queue.
ReviewKept ==
  [][\A d \in DueTimes :
       renewal[d].review => renewal'[d].review \/ renewal'[d].status = "DONE"]_vars

\* What makes these invariants inductive.  A worker's order is of the kind its task
\* is about, and a claim is only tried for an order that has become due.
JobOK ==
  \A w \in Workers :
    /\ job[w].task \in {"confirm", "initial"} => job[w].order \in Attempts
    /\ job[w].task \in {"charge", "renewal"} => job[w].order \in DueTimes
    /\ At(w, {"charge"}, "claim") => job[w].order <= now

\* A pending purchase would turn renewal on only if the user still wants it.
IntentOK == \A a \in PendingInitial : ~initial[a].cancelRequested => wants

\* Lease numbers of a payment are never handed out twice, and nobody holds the
\* lease of a payment that is with the operators.
LeaseOK ==
  /\ \A d \in DueTimes : renewal[d].review => renewal[d].status = "PENDING"
  /\ \A w \in Workers : job[w].task = "renewal" =>
       LET row == renewal[job[w].order] IN
       /\ row.status # "NONE"
       /\ job[w].attempt <= row.attempts
       /\ row.review => job[w].attempt # row.attempts
       /\ \A v \in Workers \ {w} :
            job[v].task = "renewal" /\ job[v].order = job[w].order =>
              job[v].attempt # job[w].attempt

\* One open order, no double payment, renewal only as the user last said, the due
\* date, and the leases hold together.
CoreInv ==
  /\ TypeOK /\ JobOK /\ IntentOK /\ LeaseOK
  /\ OneOpenOrder /\ NoDoublePay /\ DueAtPeriodEnd /\ CancellationKept

\* A charge request leaves only the worker that claimed the order, once.
Status(o) == IF o \in Attempts THEN initial[o].status ELSE renewal[o].status
Charging(w) == At(w, {"confirm", "charge"}, "issue") \/ At(w, {"confirm", "charge"}, "charge")

ChargeOK ==
  /\ \A o \in Orders : Status(o) = "NONE" => posts[o] = 0
  /\ \A w \in Workers : Charging(w) =>
       /\ Status(job[w].order) # "NONE" /\ posts[job[w].order] = 0
       /\ \A v \in Workers \ {w} : Charging(v) => job[v].order # job[w].order

\* An answer that a worker has got is still true, but for a refund.
AnswerOK ==
  /\ \A o \in Orders :
       order[o] \in {"DONE", "CANCELED"} => approvedAt[o] >= 1 /\ approvedAt[o] <= now + Skew
  /\ \A w \in Workers :
       /\ job[w].response # "none" => job[w].order \in Orders
       /\ job[w].response = "DONE" => order[job[w].order] \in {"DONE", "CANCELED"}
       /\ job[w].response \in {"ABORTED", "CANCELED"} =>
            order[job[w].order] = job[w].response

\* While an order is open, the period it follows stays as it was and is over.
PeriodOK ==
  /\ sub.plan = "FREE" /\ sub.periodEnd # None => sub.periodEnd <= now
  /\ \A a \in PendingInitial :
       /\ initial[a].createdAt <= now
       /\ sub.periodEnd # None => sub.periodEnd <= initial[a].createdAt
  /\ \A d \in DueTimes : renewal[d].status # "NONE" => d <= now /\ renewal[d].periodEnd = d
  /\ \A d \in PendingRenewal : sub.periodEnd = d
  /\ \A w \in Workers :
       /\ job[w].task = "expire" => job[w].end # None /\ job[w].end <= now
       /\ job[w].task \in {"charge", "renewal"} => job[w].end = job[w].order

\* The inductive invariant: with the core, what is charged, answered and paid for.
IInv ==
  /\ CoreInv /\ ChargeOK /\ AnswerOK /\ PeriodOK
  /\ ChargedOnce /\ OutcomeTrue /\ PaidPeriodKept

\* Every renewal that was claimed is settled or handed to the operators, whatever
\* the gateway answers and wherever workers stop.
RenewalResolved ==
  \A d \in DueTimes :
    renewal[d].status = "PENDING" ~> renewal[d].status = "DONE" \/ renewal[d].review

\* A purchase that the gateway approved at a plausible time is settled, even when
\* the confirmation that charged it was lost.
ApprovedPurchaseSettled ==
  \A a \in Attempts :
    (/\ initial[a].status = "PENDING" /\ initial[a].billingKey # None
     /\ order[a] = "DONE" /\ InWindow(a))
      ~> initial[a].status # "PENDING"

\* A due subscription with no open order gets its next order, or is no longer due:
\* no order name of an earlier renewal stands in its way.
DueIsBilled ==
  (DueForRenewal /\ Open = {}) ~> (~DueForRenewal \/ Open # {})

----------------------------------------------------------------------------
\* The payments as a ledger.

OrderState ==
  [o \in Orders |->
    CASE Status(o) = "NONE" -> "new"
      [] Status(o) = "PENDING" -> "open"
      [] Status(o) = "DONE" -> "paid"
      [] OTHER -> "void"]

Ledger == INSTANCE PaymentLedger WITH
  clock <- now,
  state <- OrderState,
  paidUntil <- IF sub.periodEnd = None THEN 0 ELSE sub.periodEnd

\* Purchases, renewals, their reconciliations and everything that interleaves with
\* them keep the promises of PaymentLedger: one open order at a time, opened when
\* nothing is paid for, settled once, and the paid period never moves back.
LedgerKept == Ledger!Spec

=============================================================================
