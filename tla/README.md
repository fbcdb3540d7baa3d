# Verification of the easy-clip backend

TLA+ models, TLC runs and TLAPS proofs about the NestJS/Prisma backend in this
repository. Paths are relative to the repository root.

## 1. The system

A user owns one personal workspace; it holds folders, folders hold clips, deleted
ones are kept in the trash for a while, and the workspace has one subscription (FREE
or PRO). All state is in PostgreSQL, behind Prisma; several processes may run the
same code. There are no queues: HTTP requests, one protected batch endpoint that a
scheduler calls, and one daily cron do everything.

| Component | State | Operations | Interacts with |
|---|---|---|---|
| Subscription billing (`src/subscriptions`) | `Subscription`, `SubscriptionPayment`, `InitialSubscriptionPayment` | billing-auth request, confirmation (claim, issue key, charge, settle), reconcile, cancel, resume, expire on read, renewal batch | gateway over HTTP with timeouts; row lock on the subscription; mails after commit |
| Renewal batch | none of its own | renewal reconciliation, renewals, purchase reconciliation, in this order | pages through the subscriptions; several may overlap |
| Payment gateway client | none | issue key, charge, find by order id | Toss Payments |
| Plan entitlements, folder access, clip limit (`src/shared`) | none | resolve plan, check folder, check limit | locks the subscription row in other components' transactions |
| Folders (`src/folders`) | `Folder.order`, tags | create, rename, reorder, delete, tags | folder access |
| Clips (`src/clips`) | `Clip`, tags, image in R2 | create, update, delete, like, view, lists | folder access, clip limit, object storage, upload-rate guard (in memory) |
| Trash (`src/trash`) | `deletedAt` of folders and clips | list, restore, hard delete, daily purge | folder access, clip limit, row locks |
| Auth (`src/auth`) | `RefreshToken`, `AuthAccount`, OAuth state and nonce, the browser's cookies | start and callback of an OAuth flow, sign-in, link, switch, refresh, logout | users, gateway of the OAuth providers |
| Users (`src/users`) | `User`, `Workspace` | profile, delete account | cascades to everything |
| HTTP, mail, storage, metrics, deployment | none | - | - |

What is hard, and what makes each part correct:

- **Billing.** A charge may time out and still succeed; a process may die between
  any two steps; two batches, the user's own reconciliation and a late answer meet on
  the same order; the user cancels meanwhile; rows are read long before they are
  used. Correct means: at most one order with an unknown outcome, no order charged
  twice, nobody charged for time already paid, a recorded payment keeps its period,
  a recorded outcome is the gateway's, a cancellation is final until the user says
  otherwise, and everything that was started ends or reaches the operators.
- **Folder access and limits.** Plans end between two requests; the permitted folder
  of a free workspace is recomputed; creations and restorations race at the limit.
- **Folders.** Order numbers are read outside the lock under which they are written.
- **Clips.** An upload, a transaction and a deletion in storage have no common commit.
- **Trash.** Restore, hard delete and purge lock different rows.
- **Auth.** Handlers run their statements without a common transaction. Refreshes with
  one token race each other, a logout and a deletion; several callbacks carry one OAuth
  state; sign-in checks and then creates; a reply may be late or lost. Correct means:
  one successor of a refresh token, no way back for a session that was logged out, one
  callback of a state, a link only for the session that asked, no row without its owner.

`PROJECT.json` lists every hazard with its line and the properties that cover it.

## 2. Plan

1. `Billing`, the transactions and handlers of one subscription - done.
2. `PaymentLedger`, what billing promises; `Billing` refines it - done.
3. `BillingProofs`, the core of the inductive invariant and its consequences, and
   `BillingPayments`, the rest of it and the refinement - done.
4. `Workspace`: folder access, clip limit, trash and purge of one workspace - done.
5. `WorkspaceProofs`: the inductive invariants, access, choice, destruction and limit -
   done.
6. `AuthSession` and `AuthSessionProofs`: OAuth flows, sign-in, rotation, logout,
   deletion of a user; the inductive invariant and all its properties - done.
7. `ClipImages` and `ClipImagesProofs`: storage and rows, with failures between the
   steps; the inductive invariant and both properties - done.
8. `FolderOrder`, which implements `FolderList`: numbers that order folders, read
   without a lock; `FolderOrderProofs`: where folders are put when requests overlap, and
   the refinement - done.
9. `Paging`: the lists of clips, views and trash, and the scan of the renewal batch,
   read page by page while rows change; `PagingProofs`: its inductive invariant and all
   its properties - done.
10. `RowLocks` and `RowLocksProofs`: who waits for whose row lock, and what was read
   before one - done.
11. Left: the upload guard, the calendar.

| Module | Extends or instantiates | Run by |
|---|---|---|
| `Billing` | instantiates `PaymentLedger` | `MCBilling`, proofs in `BillingProofs` and `BillingPayments` |
| `Workspace` | - | `MCWorkspace`, proofs in `WorkspaceProofs` |
| `AuthSession` | - | `MCAuthSession`, proofs in `AuthSessionProofs` |
| `ClipImages` | - | `MCClipImages`, proofs in `ClipImagesProofs` |
| `FolderOrder` | instantiates `FolderList` | `MCFolderOrder`, proofs in `FolderOrderProofs` |
| `Paging` | - | `MCPaging`, proofs in `PagingProofs` |
| `RowLocks` | - | `MCRowLocks`, proofs in `RowLocksProofs` |

The components meet in the database, and each module keeps of the others what its own
properties can see of them. `Workspace` takes from `Billing` only that the paid period
moves forward. `ClipImages` takes from `Workspace` that the transactions of requests
hold the subscription row, those of the purge only rows, and that any of them may be
refused. `FolderOrder` and `Paging` take from it that rows come and go, by single
writes. `RowLocks` is the other way round: it keeps only the locks and what is decided
under them, of all transactions that touch the rows, and so justifies that `Workspace`
and `ClipImages` take all locks of a transaction in one step. `AuthSession` shares no state with the others: what a deletion cascades to is
not read there.

## 3. `Billing`: the model

**State.** `sub` is the `Subscription` row, `initial` the purchase attempts by
idempotency key, `renewal` the payment rows of renewals by due date, as in
`prisma/schema.prisma`. `order`, `approvedAt` are the gateway's. `authRequests` are
billing-auth requests between their read and their write. `job` holds, for each
running handler or batch item (a *worker*), its task, its next step and what it read.
`posts` and `wants` are history: charge requests sent for an order, and the user's
last accepted word on automatic renewal.

**Actions.** A database transaction is one action, since each of them takes the row
lock of the subscription (`SELECT ... FOR UPDATE`) before it decides; a gateway call
is two, the request that leaves and the answer that arrives.

| Code | Actions |
|---|---|
| `create-billing-auth-request.usecase.ts` | `StartBillingAuth`, `FinishBillingAuth` (the unconditional write) |
| `confirm-billing-auth.usecase.ts` | `ClaimInitial`, `IssueBillingKey`, `PostCharge`, `ReceiveCharge` / `ChargeFails`, then as below; `IssueFails` if no key is issued; `Confirm` chooses: a known attempt is `ReadAttempt`, a cancelled period that still runs is `Resume` |
| `reconcile-initial-payments.usecase.ts` | `ReadAttempt` (by the user at any time, by the batch when due), `LookupAnswers` / `LookupFails`, `CompleteInitial`, `FailInitial`, `LeaveInitial` |
| `update-my-subscription.usecase.ts` | `Cancel`, `Resume` |
| `subscription-expiration.helper.ts` | `StartExpire`, `ExpireIfUnchanged` |
| `process-due-auto-renewals.usecase.ts`, renewals | `FindDue`, `ClaimRenewal` / `SkipRenewal`, `PostCharge`, `ReceiveCharge` / `ChargeFails`, `CompleteRenewal` / `LeaveCharge` |
| the same, reconciliation | `LeaseRenewal`, `LookupAnswers` / `LookupFails`, `CompleteRenewal`, `SkipSettled`, `DeferRenewal` |
| a kill, or a database call that throws | `Stop` |
| gateway, clock (external) | `Process`, `Refund`, `Tick` |

**Abstractions.**

- Reads that precede a locked transaction and are checked again under its lock are
  part of the transaction's action. Reads whose result is used later (`FindDue`,
  `StartExpire`, `StartBillingAuth`, `Reconciling`, leases) are kept, with the
  result in `job`.
- Issuing and saving a billing key is one step: when the worker dies between them
  the attempt looks exactly as if it had died before. Reading an attempt and
  deferring it is one step: the deferral is conditional on PENDING.
- A gateway answer is `DONE` (approved as asked), `MISMATCH` (approved but failing
  verification, or partially cancelled), `ABORTED` (also EXPIRED), `CANCELED`, or
  `NOT_FOUND` (404, still in progress, any error of the lookup). Amount, currency and
  order id are compared in the code; an answer that fails the comparison is `MISMATCH`.
- Time is counted in ticks of the billing calendar; five minutes are far less than a
  tick, so the reconciliation timers are flags (`waiting`, `due`).
- `Idle` jobs cost nothing, and the number of workers bounds what runs at the same
  time, not how many requests there are.
- Prices, history rows and mails are left out. A renewal's approval time is not
  checked by the code; that the gateway's clock is off by at most `Skew` is an
  assumption of the environment.
- `Cancel` does not first expire an ended subscription: `normalizeExpiredSubscription`
  reads the clock before the cancellation takes its lock.
- The operators may settle a payment by hand (`docs/auto-renewal-batch-progress.md`);
  that is outside the code and outside the model.

## 3a. `Workspace`: the model

**State.** `folder` and `clip` are the rows (`new`: not created yet, `gone`: destroyed),
`selection` the three `freeAccess...` columns of the workspace, `paidUntil` the end of
the subscription's period. `job` is, for each running request (a *worker*), what its
transaction locked and will write; `purge` is the run of the daily purge. `opened` is
history: the folders whose contents were reachable in the current free period.

**Actions.** Transactions of the user's requests lock the subscription row first
(`lockClipQuota`), so one is open at a time; the purge does not take that lock, and
may run between any two of their steps. A transaction is therefore two actions:
`Begin...`, up to its last statement, and `Commit` or `Rollback`. The purge is four:
find folders, destroy those that are still expired, find clips, destroy them; a
destruction waits for the row locks of the open transaction.

| Code | Actions |
|---|---|
| folder, clip and trash lists (`lockWorkspaceAccess`) | `BeginRead`, which may store a new choice |
| `withFolderAccess`, `withClipAccess` for names, tags, contents, likes, views | `BeginUse` |
| `createFolder`, `softDeleteFolder` | `BeginCreateFolder`, `BeginTrashFolder` |
| `createClip`; `softDeleteClip`, `softDeleteClips`, `softDeleteAllClipsInFolder` | `BeginCreateClip`; `BeginTrashClips` |
| `restoreItems` | `BeginRestore`, its checks in `Restorations` |
| `delete-trash-items.usecase.ts` | `CheckDestroy` (its reads), `BeginDestroy` |
| `hardDeleteAllTrashItemsForUser` | `BeginEmptyTrash` |
| `purge-expired-trash-items.usecase.ts`, `trash-cleanup.scheduler.ts` | `ScanFolders`, `DestroyFolders`, `ScanClips`, `DestroyClips`, `PurgeFails` |
| a settled payment, seen from here | `Pay` |

**Abstractions.**

- Checks before a transaction that are repeated under its lock are part of the
  transaction; the check of `DeleteTrashItems` that is not repeated is an action.
- Which active folder is first (`order`, then `id`) is nondeterministic: the properties
  must hold for every order, and reordering need not be modelled.
- The choice of a FREE workspace is stored by any transaction that commits; one that
  is refused is rolled back with it and changes nothing, so refusals are no actions.
- `restoreItems` counts under the limit only clips it restores by name; a folder that
  comes back brings its clips without a check, as `docs/clip-plan-limits.md` says.
- The purge works on all workspaces; the model has one, so the limit of a run can be
  spent only on its own items. One run at a time (`waitForCompletion`); a run may fail
  anywhere (`PurgeFails`).
- `gone` rows lose their columns: nothing refers to a destroyed row but the choice in
  the workspace, which is kept (it has no foreign key).
- Images of destroyed clips are deleted afterwards, best effort: `ClipImages`.
- Plan and status of the subscription follow from the period: expiry needs an ended
  period, a cancellation keeps it, and both leave `currentPeriodEnd` alone.

## 3b. `AuthSession`: the model

**State.** `user`, `account` and `session` are the `User`, `AuthAccount` and
`RefreshToken` rows (`new`: not created yet, `gone`: deleted), `nonces` the
`OAuthStateNonce` rows, `flow` the signed state of each OAuth flow, `jar` the cookies of
each browser: access token, refresh token, flow. `job` is, for each running request (a
*worker*), its next statement and what it has read or will reply. `exchanged` and
`accepted` are history: which refresh token was exchanged for which, and how many
callbacks a flow had.

**Actions.** The handlers have no common transaction, so each database statement is an
action. Two are transactions: the creation of a user is one action; the deletion of
one is `BeginDelete`, up to the deletion of the sessions, whose rows it then holds
locked, and `Delete`, the statement on the user and the commit.

| Code | Actions |
|---|---|
| `oauth-state.guard.ts`, start of a login or link | `StartFlow` |
| the same, callback; `prisma-oauth-state.store.ts` | `Callback` (its checks), `Consume` |
| `sign-in.usecase.ts` | `FindAccount`, `FindEmail`, `Create`, `Issue` |
| `link-account.usecase.ts` | `FindAccount`, `Create`, `Issue` |
| `switch-user.usecase.ts` | `Switch`, `Issue` |
| `refresh-access-token.usecase.ts` | `ReadSession`, `Rotate` or `Touch` |
| `logout.usecase.ts` | `Logout`, `ReplyClear` |
| `delete-me.usecase.ts`, `deleteUserAndOwnedPersonalWorkspaces` | `BeginDelete`, `Delete` |
| `auth-cookie.helper.ts`, every reply | `Reply` |
| a kill, a statement that throws, a lost reply | `Stop` |
| clock, `maxAge` of cookies | `Tick` |

**Abstractions.**

- A token is its session and the second it was signed in: that is all in which two
  tokens of one session differ. A hash tells exactly these apart. A token is valid for
  its life; nobody forges one, so signatures are left out, and so are CSRF checks.
- The platform and metadata of requests (no guard reads them) and the bearer header
  (the same token as in the cookie) are left out. The cookie of an OAuth flow has one
  name per provider in the code; the model has one provider at a time in a browser,
  so a new flow replaces the browser's previous one.
- `Shared` identities report one address. Accounts without an address are refused
  before anything is read.
- Refusals that change nothing and set no cookie are no actions.
- `RefreshToken` refers to the user and the account without a cascade (Prisma's
  default for required relations is to restrict), so a session that appears after
  `BeginDelete` makes the deletion fail and roll back: `Deletable`.
- The workspace of a user is deleted in the same transaction; no statement here reads it.
- Identifiers are used once, as `cuid` and `randomUUID` make them.

## 3c. `ClipImages`: the model

**State.** `object` is what the storage holds under each URL, `row` the `Clip` rows of
one user with the image they refer to, `job` what each running request (a *worker*) is
doing, `tx` its transaction in the database, `alive` whether the account exists.
`lost` is history: images that a failure left for the operators.

**Actions.** A transaction is not the request that opened it. The code cannot know
what has become of a COMMIT whose answer is lost, so `tx` may stay open, with its
locks, when the request has already seen an error (`AnswerLost`, `Crash`), and ends
either way.

| Code | Actions |
|---|---|
| `create-clip.usecase.ts`, `update-clip.usecase.ts` | `StartCreate` or `StartUpdate`, `Upload` / `UploadFails`, `OpenCreate` or `OpenUpdate` / `Refuse`, then `Commit`, `Abort` or `AnswerLost` |
| the same, after an error: `isCreatedImageReferenced`, `isClipImageReferenced` | `CheckReference` / `CheckFails`, `Delete` |
| the same, after the commit: `deletePreviousImageIfReplaced` | `Delete` |
| `delete-trash-items`, `delete-all-trash-items`, `purge-expired-trash-items` | `DeleteTrashItems`, `DeleteAllTrashItems`, `PurgeExpired`, then `Delete` for each image |
| `softDelete...`, `restoreItems` | `Move` |
| deletion of the account | `DeleteAccount`: rows go by cascade, images stay |
| a killed process | `Crash` |

**Abstractions.** Folders, plans and limits only decide whether a transaction is
refused (`Refuse`). A clip whose folder is in the trash is in the trash. `Move` and
`DeleteAccount`, which touch no image, are one step. A text never names an image of
the storage: contents are resolved again on every update, and an upload's URL has a
random name (`docs/clip-content-update-policy.md:30`). A deletion in the storage
either happens or fails; a failure is logged and leaves the object (`lost`).

## 3d. `FolderOrder`: the model

**State.** `folder` holds the state and the number `order` of each `Folder` row, `req`
the creation or move each worker is in the middle of and what it has read, `edits`
counts writes. `spoilt` and, of a request, `stale` (a folder was written since it began to
read), `written` (those written since it read their number) and `gap` (what it found next to
its reference) are history.

**Actions.** Numbers are read by statements of their own, before the transaction that
writes: `ReadLast` and `Create` (`create-folder.usecase.ts`); `ReadTarget`,
`ReadReference`, `ReadNeighbour` and `Move` (`reorder-folder.usecase.ts` and its
helper). `SoftDelete` and `Restore` are other requests; `Stop` is a refusal or an error.

**Abstractions.** `order` is a floating-point number. The model counts in steps, of
which `Unit` make 1; numbers less than two steps apart have none between them, and a
middle that has to be rounded falls to either side, which is what happens to doubles
after some fifty halvings.

**Abstract specification.** `FolderList` is the list the user sees: new folders come last,
a dragged folder goes right before or after its reference, or nothing happens. The list
is kept as the order of its folders, the set of pairs of which the first comes before the
second: so it needs no recursion over sequences, and the refinement can be proved.
`FolderOrder` maps the rows, as `findFoldersByWorkspaceId` sorts them (`Shown`), and the
requests (`Asked`) to it. The promise ends (`spoilt`) when a request writes a number it computed
from rows that were written meanwhile, when a folder is restored with its old number,
and when the `Gap` it found is not open: there is no number between its neighbours, or its
neighbour has the number 0. `PlacedAsAsked` says what holds beyond that end, of requests
that overlap, after a restoration and next to a 0. That 0 is an exception because the helper tests numbers
for truth (`reorder-folder.helper.ts:38`): a neighbour at 0, which a move before the
folder at 1 produces, is taken for no neighbour, and the moved folder gets a number one
away from the reference, beyond the neighbour or equal to another one. Without
the exception TLC finds the list out of order after three creations and two moves.
No document or test of the repository says what should happen there, so it is
described here and not listed as a finding.

## 3e. `Paging`: the model

**State.** `list` is the list that is read (its kind, whether it searches, the size of a
page), `reader` the client or batch run that reads it (its cursor; `page`, ids for a
second query; `due`, the page of the batch with the due dates it has read; `count`, the
renewals the batch has found), `row` what the list sees of each
row: the time it is sorted by and whether its conditions hold. `touched`, `shown`,
`doubt` are history: rows written since the reading began, how often each was shown,
and why the reading may have gone astray.

**Actions.** Each use case is a disjunct of `Reading`, made of its statements: which
columns the search looks at (`ResolveTarget`), whether the cursor belongs to the
list (`Validate`, `IsLiked`, `MatchCursor`), the page itself (`FindClips`,
`FindRecentClips`, `FindDeletedItems`), the two reads of the recently viewed
(`FindViewedIds`, `FindClipsByIds`) and of the batch (`FindDue`, `TakeDue`). Any request
may write rows between two of them: `SoftDelete`, `Restore`, `DeleteFolder`,
`RestoreFolder`, `Like`, `Unlike`, `RecordView`, `UpdateClip`, `ReplaceTags`, `UpdateTag`,
`DeleteTag`, `Order`, `Renew`, and `Hide` and `Reveal` for conditions that change for
several rows at once.

**Abstractions.** A row is reduced to what `buildWhere` and `orderBy` compare; titles and
tags to whether the search finds them. Times may be equal, so the identifiers that
break ties matter. A due date is past (0, 1) or in the future (2). An order is named
after its due date, so the lookup of orders uses the dates of the page (`due`), which a
renewal may have moved meanwhile, and the batch takes its page in the order it was read. A
subscription that was renewed from one past date to another is found again, and counts
again. The batch's candidates are processed as they are found; what is done with them is
`Billing`.

## 3f. `RowLocks`: the model

**State.** `folder` and `clip` are the rows, `closed` the workspaces deleted with their
account, `holder` who holds the lock of each row. `tx` is, for each transaction, its
kind, how far it is (`at`), the rows that its statement still has to lock (`todo`), the
one it waits for (`next`), the items it works on (`fs`, `cs`) and the clips whose images
it has read (`found`).

**Actions.** Every transaction that locks a row of a workspace is a plan: the tables in
the order of its statements.

| Code | Kind |
|---|---|
| `withReadAccess`, lists, `createFolder` (`lockWorkspaceAccess`) | `list` |
| `withFolderAccess`: rename, move, tags, delete | `folder` |
| `withClipAccess`: save, delete, like, view, tags | `clip` |
| `createClip` | `create` |
| `softDeleteClips`; `softDeleteAllClipsInFolder` | `trashClips`; `emptyFolder` |
| `restoreItems` | `restore` |
| `hardDeleteItems`; `hardDeleteAllTrashItemsForUser` | `destroy`; `emptyTrash` |
| `hardDeleteExpiredFoldersWithClips`, `hardDeleteExpiredClips` | `purgeFolders`, `purgeClips` |
| `isClipImageReferenced` | `check` |
| transactions of billing, `isCreatedImageReferenced` | `bill` |
| `deleteUserAndOwnedPersonalWorkspaces` | `close` |

`Begin` is what the request names, or what a batch finds without a lock; `Lock` takes
one row, or passes over one that is gone; `Advance` is what the code reads before its
next statement (`ReadAgain`); `Prepare` its reads under all its locks; `Commit`,
`Refuse`, `Fail` its end; `Victim` PostgreSQL's answer to a deadlock.

**Abstractions.** Statements lock in the order of the ids, as they say (`ORDER BY`); the
rows of a cascade are reached in any order. Locks are exclusive: shared ones (an insert
locks the key of its parents) are taken on rows that the transaction holds anyway, or on
the workspace by one that holds the subscription. `resolveFolderAccess` writes the
workspace or does not. Rows of payments are written under the lock of their subscription
or by single statements, and close no circle. Plans, limits and retention only decide
whether a transaction is refused; "trashed" includes "for long enough". The insertion of
a missing subscription (accounts older than subscriptions) is left out: the row exists.
A clip never changes its folder.

## 4. Runs

| Run | Bounds | Shows |
|---|---|---|
| `orders` | 2 attempts, 2 workers, 1 key, period 1, skew 0, clock to 2, 2 leases, 2 lookups, 1 crash | everything an order can meet: another purchase, a refund, a stale expiry, renewals that follow, overtaken leases, the operators' list; implements `PaymentLedger`; the inductive invariant |
| `live` | 1 attempt, 1 worker, clock to 3, 4 leases, 2 lookups, 1 crash | liveness |
| `keys` | 2 customer keys, 1 worker | violated: finding 1 |
| `access` | 2 folders, 1 clip, 2 workers, limits 1 and 2, retention 2, clock to 3 | folder access and the choice of a free period, what may be destroyed, the inductive invariant |
| `limit` | 1 folder, 2 clips, 2 workers, limits 1 and 2, retention 1, 1 item a purge, clock to 2 | the clip limit under races and a change of plan; liveness of the purge |
| `lone` | 1 folder, 1 clip, 2 workers | violated: finding 2 |
| `auth` | 1 browser, 2 workers, 2 each of users, accounts, identities, sessions and flows; clock to 3, a token lives 2 ticks and is rotated in its last, access tokens and states live 1 | ownership of rows, one callback per state, links by the session that asked, rotation raced by refreshes, logout and deletion |
| `address` | 2 browsers, both identities with one address, clock to 2 | violated: finding 3 |
| `images` | 3 images, 2 clips, 2 workers | references and leaks of images; the inductive invariant |
| `folders` | 3 folders, 2 workers, 2 steps to 1, numbers from -1 to 3, 5 writes | implements `FolderList`; where folders are put when requests overlap |
| `locks` | 2 transactions of any kinds, 1 workspace, 2 folders, 1 clip | no deadlock but with the deletion of an account; what is destroyed is in the trash and known; every transaction ends; the inductive invariant |
| `paging` | 3 rows, 1 of them a folder, 10 forms of lists, pages of 1 and 2, batches of 1 to 3 in queries of up to 2, clock to 2, 2 rows written per reading | completeness, gaps and repetitions of lists; the batch ends |

Two attempts are what "another order" needs; the row lock makes a third one meet the
same guards. Two workers are what every race here needs (a holder and an overtaker, a
completion and a reconciliation); the proofs do not depend on either number. With the
clock at two a second renewal follows the first; in `live` it reaches three, and a third
one may be stopped and recovered. A gateway whose clock differs (`Skew`) makes `orders`
too long for a routine check; every property of that run is proved for any tolerance
and any number of leases, lookups and crashes. One crash per behaviour is enough to reach every point at which a
worker can be lost; a second one would lose the recovery from the first, which is
what the liveness run bounds with `MaxFailures`. It has one worker: in the model a lease may
run out at any moment, so two could overtake each other for ever, which leases of five
minutes do not allow. What concurrent copies of an attempt may do, one read before its
billing key was saved among them, is checked by `orders` (`OutcomeTrue`: it is never
recorded as failed while the money is kept). Deadlock checking is off: a
subscription on which nobody acts at the end of the clock rests.

For `Workspace`: two folders are what "another folder" needs. Two workers are one whose
transaction is open and one that checked before it; further ones wait for the same
lock. The limits differ by one so that a plan that ends leaves a folder over its limit,
and two clips are one more than the smaller one. Retention 2 with a clock to 3 lets an
item expire, be found, come back and be deleted again; clips and folders are created
once each. The purge's limit of one makes it leave items for the next run. `limit`, the run
with the liveness of the purge, has one folder: whether folders, which a run takes first,
could keep clips from their turn day after day is not seen there (users would have to
delete a run's limit of folders every day). The
proofs do not depend on any of these numbers.

For `AuthSession`: two workers are the two sides of every race (two refreshes with one
token, a refresh and a logout, a deletion and a sign-in, two callbacks). One browser
holds whatever cookies its last reply set, so it meets its own old flows and sessions;
`address` and the proofs have more. Two users are what "another user" needs. States that
live one tick expire between the checks of a callback and the consumption of its nonce.
Identifiers run out and the clock stops, so the model comes to rest: deadlock checking
is off. It states no liveness: a client may leave at any time, and nothing in the code
continues for it.

For `ClipImages`: two workers are a request and whoever overtakes it; the purge is a
worker too. Three images are one more than the clips, so that an image can be replaced,
removed and checked again while both clips have one. Nothing else is bounded, each
image is uploaded once (its name is random) and each clip created once.

For `FolderOrder`: three folders are a target, a reference and the neighbour between
which the target goes. Two steps to 1 leave one number between two created folders,
and none after one move into it. `MaxEdits` (5) is three creations and two moves, or a
move, a deletion and a restoration. Numbers outside
`Low` .. `High` are not taken: a folder is moved behind the last one while there are
two, and before the first one twice.

For `Paging`: three rows and pages of one are two page boundaries; pages of two make the
last page partial. Batches of three in queries of two have a full page, a partial one, and
a page of which the limit takes only a part; the batch keeps the time it was given, so the
clock stands still. `MaxWritten` leaves one row that nobody wrote, about which the
properties speak. For searches and the batch `MCPaging` starts with one order of the
times, with a tie, and with all orders otherwise: which clips a search finds, and which
renewals have their order, is arbitrary, so the positions are too. In these three modules requests may stop anywhere, so deadlock checking
is off, and of a client no liveness is stated: nothing in the code continues for it. The
batch does go on by itself (`BatchFairness`).

For `RowLocks`: a circle of waits may have any length, but two transactions that take two
rows in different orders already close one, and there are two folders to take and a
clip in one of them. Longer circles, and any number of rows, are `DeadlockFree`.
Nothing else is bounded: transactions follow each other for ever. When the workspace is
closed there is nothing left to name, and the model may rest: deadlock checking of
the tool is off, and deadlocks of the program are `NoDeadlock`.

`MaxLeases` bounds how often a payment is leased. In the code a lease after the last
lookup marks the payment for review, so the count can only grow further when the
worker that took it dies; the liveness run gives it room for its crash.

**Fairness** (`Fairness` in `Billing`). Every call a handler makes has a timeout or is
a database call, so a started worker goes on (weak fairness of `Continue`) unless it
is stopped. The scheduler calls the batch again and again; strong fairness of the
batch's actions, because the pool of workers is an artefact of the model and may be
busy each time. The lookup of an order succeeds if it is tried for ever. The timers
expire. Nothing is assumed of users, of the gateway's processing, or of the clock.

`Fairness` of `Workspace`: a transaction ends, the cron starts a run every day and a
run that found its items goes on (weak), and who waits for row locks gets them in the
end although others keep taking them (strong; PostgreSQL queues the waiters). A run may
fail at any time, but not every one: in the end runs succeed (`<>[](purge.step # "failed")`),
as if every run failed, nothing could be promised. The
clock stops at its bound, and nothing is assumed of users.

`BatchFairness` of `Paging`: the batch run goes from one query to the next (weak).

`LiveSpec` of `RowLocks`: a transaction that can go on again and again goes on (strong: while
it waits for a row that others take in between it can go on only now and then, and
PostgreSQL grants a row in the order of its queue). Of the deadlock detector only so much
is assumed that it ends the deletion of an account that waits in a circle: nobody else
needs it. Requests need not come, and `Fail` is never required.

**Properties of `Billing`.** `OneOpenOrder`, `NoDoublePay`, `ChargedOnce`, `PaidPeriodKept`,
`OutcomeTrue`, `CancellationKept`, `DueAtPeriodEnd` (invariants), `ReviewKept` (action
property), `LedgerKept` (refinement), `RenewalResolved`, `ApprovedPurchaseSettled`,
`DueIsBilled` (liveness); each is stated in words beside its definition. Each has
a mutant of the code that breaks it (`PROJECT.json`): a claim that forgets pending
renewals, a reconciliation that charges again, an expiry that does not compare the
period, a deferral that is not fenced, and so on.

**Properties of `Workspace`.** `OneFolderPerFreePeriod` (invariant), `ChoiceKept`,
`LimitKept`, `OnlyTrashDestroyed`, `PurgeKeepsRetention` (action properties),
`ExpiredPurged` (liveness). `ChoiceKept` is about what the user could do after a step, which
no row says: `Obtainable` asks of every folder whether it could be opened, or restored, with
the guards of those requests. Their mutants: an access check that
chooses anew when the chosen folder is deleted, a restoration that looks only at
active folders, a limit that forgets the other clips of the request, a purge that does
not look again under its locks or looks only whether items are in the trash, a strict
comparison that leaves items on the boundary for ever, a purge that does not
wait for row locks.

**Properties of `AuthSession`.** `RowsOwned`, `OneSuccessor`, `OneCallback`,
`LinkBySameSession` (invariants), `RevokedForever` (action property). Their mutants: a
deletion that does not mind new sessions, a rotation that does not compare the hash,
one that does not ask whether the session was revoked, a nonce that is not deleted, a
link that compares the user but not the session, a token that carries its expiry.

**Properties of `ClipImages`.** `ReferencedStored`, `NoLeak` (invariants). Their mutants: a
check after an error that does not wait for the transaction whose answer was lost, a
replaced image taken from the clip as it was read before the lock; for `IInv`, a
change of title that writes back the image it had read.

**Properties of `FolderOrder`.** `ListKept` (refinement), for requests that do not overlap;
`PlacedAsAsked` (action property), for those that do. The mutant of both is a new folder
numbered by the count of folders, which goes wrong only after moves and deletions.

**Properties of `RowLocks`.** `NoDeadlock` (invariant), `DestroyedKnown` (action property),
`ObservedEnds` (liveness: any one transaction ends, and nothing tells them apart). Without the exception of `close` TLC finds a circle: the deletion
of an account starts from the workspace and cascades to the subscription, everyone else
starts from the subscription and may write the workspace. PostgreSQL then aborts one of
them after `deadlock_timeout`, and nothing is lost. Mutants: folders
and clips locked in any order, after which some transactions wait for ever;
candidates that are not read again under the locks; for `IInv`, a transaction that goes on though the
subscription it wanted to lock is gone.

**Properties of `Paging`.** `Complete`, `NoGap`, `NoRepeat` (invariants), `BatchEnds`
(liveness: skipped rows fill pages without being counted). The first three say what a
reader may rely on, and name what he may not: `doubt` holds `moved` when the row a page
ended with was written before the next page (the list goes on from its new place and
may show rows again), `ended` when the trash no longer holds the item a page ended with
(the list ends there), `switched` when a search changed from titles to tags between two
pages. Clips, favourites and views refuse a cursor that has left the list instead.
The batch keeps the place in its cursor, not the row, and has none of these exceptions
but a changed row's own. Mutants: a page that is not read one row further, a cursor
that skips folders deleted at the time of a clip, a cursor of the batch that is
not passed over (it repeats a row, and may read one for ever), a search without the fallback to tags.

### Findings

1. **Two billing-auth requests can separate a subscription's two keys** (`keys`).
   The request reads NULL and later writes the key it generated without a condition.
   A purchase may be claimed and completed with the first key before the second
   write. Renewals then send a billing key with a customer key it was not issued for.
2. **A clip can be destroyed without its deleted folder** (`lone`).
   `DeleteTrashItems` refuses that, but reads before its transaction; the transaction
   repeats every other check under its locks, and `restoreItems` this one too. If the
   folder is deleted in between, the clip goes alone and the folder that is restored
   later has lost it.
3. **One address may get two users** (`address`). A sign-in is refused with CONFLICT when
   a user with the address exists (`sign-in.usecase.spec.ts:77`), but it looks first and
   creates afterwards, and `AuthAccount.email` is not unique. Two first sign-ins with
   different providers both create a user; neither can link the other's account later.

## 5. Proofs

`BillingProofs` proves for all values of the constants that satisfy
`BillingAssumption` (so for any number of attempts, workers and keys, any period
longer than the tolerance, any number of leases and crashes):

    CoreInv == TypeOK /\ JobOK /\ IntentOK /\ LeaseOK
               /\ OneOpenOrder /\ NoDoublePay /\ DueAtPeriodEnd /\ CancellationKept

- `NoDoublePay` needs `DueAtPeriodEnd` (an order is claimed at its due date, and the
  due date is the end of the period), `JobOK` (the worker's order has become due) and
  `OneOpenOrder` (a completion, which opens a new period, closes the only order).
- `CancellationKept` needs `IntentOK`: a pending purchase that would switch renewal on
  is wanted; a cancellation marks every pending purchase.
- `ReviewKept` needs `LeaseOK`: lease numbers of a payment are distinct, none exceeds the
  payment's count, and nobody holds the count of a payment that is with the operators.

The proof has one lemma per variable that says which actions write it, one per
conjunct that says why those actions keep it, and the temporal theorems combine them.
Theorems: `CoreInvariance`, `TypeCorrect`, `OneOpenOrderAlways`, `NoDoublePayAlways`,
`CancellationAlwaysKept`, `DueAtPeriodEndAlways`, `ReviewAlwaysKept`.

`BillingPayments` adds, under the same assumption, what happens to the money:

    IInv == CoreInv /\ ChargeOK /\ AnswerOK /\ PeriodOK
            /\ ChargedOnce /\ OutcomeTrue /\ PaidPeriodKept

- `ChargedOnce` needs `ChargeOK`: an order without a row was never charged, and a worker
  that is about to charge has claimed an order that nobody has charged and no other
  worker is about to charge. Claims are for orders without a row; nothing removes a row.
- `OutcomeTrue` needs `AnswerOK`: an answer that a worker holds is still what the gateway
  says when the worker acts on it, save that an approved payment may be cancelled.
- `PaidPeriodKept` needs `PeriodOK`: while an order is open, the period it follows stays
  as it was and is over. A purchase replaces the period, so that it must not have been
  approved too long before the attempt: here the proof uses that the tolerance is shorter
  than a period. A renewal extends the period from its due date. A stale expiry remembers
  the end of a period that is over, and so hits no later one.
- `ImplementsLedger`: claims map to `Open`, completions to `Pay`, failures to `Void`, the
  clock to `Tick`, and every other step to a stutter (`LedgerStep`). That a payment moves
  the end forward, and not too far, comes from `PurchaseBuys` and `RenewalBuys`.

Theorems: `Invariance`, `ChargedOnceAlways`, `OutcomeAlwaysTrue`, `PaidPeriodAlwaysKept`,
`ImplementsLedger`.

`WorkspaceProofs` proves for all values of the constants that satisfy
`WorkspaceAssumption` (any finite numbers of folders and clips, any workers, limits,
retention and clock):

    IInv == TypeOK /\ every opened folder that exists is the chosen one of this period
            /\ nothing is opened in paid time
            /\ the open transaction Held what it will write
            /\ the purge's cutoff is at least the retention ago

- `OneFolderPerFreePeriod` follows from the second part. It needs the choice to be
  kept while its folder exists, in the trash or not (`ResolveSettled`); a new choice by
  creation or restoration only when nothing opened is left (`BeginCreateFolderStep`,
  `PrepareSettled`); and no payment during a transaction (`PayStep`).
- `Held` says that a transaction writes rows that exist, that it locked, and that, if
  it destroys them, are in the trash. The purge keeps that because it destroys only
  rows nobody locked (`PurgeStep`). `OnlyTrashDestroyed` follows at the commit.
- `PurgeKeepsRetention` needs the second look of the purge and the cutoff.
- `LimitKept` needs `LimitHeld`, an invariant of its own, stated with the proofs: what a
  folder will have after the commit was within the limit at the beginning, and only the purge, which makes
  it less, can come in between. It rests on three lemmas on the cardinality of sets
  of clips.

- `ChoiceKept` needs `ChoiceInv`: a period that is recorded with a choice has begun
  (`Sound`), a stored choice was made in free time, and what the open transaction will write
  agrees with it (`Agrees`): it stores the same choice, or puts a new folder in the place
  of one that is destroyed (`Replaces`). `Obtained` says that where a choice is in force
  for a folder that exists, what the user may open or restore is that folder alone;
  `ResolveAgrees` that no request decides otherwise. Only commits, the clock, payments and
  the purge change what is stored, and there is a lemma for each.

One lemma per action shows that it keeps `IInv`; requests that write no folders share
`ContentStep`, destructions `DestroyLocked`, the purge `PurgeStep`. Theorems:
`Invariance`, `TypeCorrect`, `OneFolderAlways`, `ChoiceAlwaysKept`,
`OnlyTrashDestroyedAlways`, `PurgeKeepsRetentionAlways`, `LimitAlwaysKept`.

`AuthSessionProofs` proves for all values of the constants that satisfy
`AuthAssumption` (any numbers of users, browsers, requests and identifiers, any life
times with the threshold below the life of a refresh token):

    IInv == TypeOK /\ TokensReal /\ JobsSound /\ LinksSound
            /\ RowsOwned /\ ExchangesSound /\ NoncesSound

- `RowsOwned` needs `JobsSound` at `Issue`: the account a request is about to issue a
  session for either still belongs to the user it read, or is gone. At `Delete` it
  needs the reference of sessions to their user.
- `OneSuccessor` needs that an exchanged token is older than the current one
  (`ExchangesSound`), and at `Rotate` that the token read is older than now, which
  holds because the threshold is below the life (`JobsSound`).
- `OneCallback` follows from `NoncesSound`: a nonce in the table was never accepted.
- `LinkBySameSession` needs `LinksSound` from the callback's checks on, and
  `TokensReal`: no token names a session that does not exist yet, so the user of a
  token never changes.
- `RevokedForever` needs no more than the types.

`StepStable` says what no step undoes, from which `JobsStep` concludes that jobs no step
moves stay sound; `RowMoves` reduces a step to the five that write rows. Theorems:
`Invariance`, `TypeCorrect`, `RowsAlwaysOwned`, `OneSuccessorAlways`,
`OneCallbackAlways`, `LinkAlwaysBySameSession`, `RevokedStaysRevoked`.

`ClipImagesProofs` proves for all values of the constants that satisfy `ImagesAssumption`
(any numbers of images, clips and requests; the sets need not be finite):

    IInv == TypeOK /\ ReferencedStored /\ OneReference /\ NoLeak
            /\ \A w \in Workers : WorkerOK(w)

- `ReferencedStored` is threatened by `Delete` and by `Commit`. `Doomed` says that what is
  left to remove is neither referred to nor written by an open transaction, `Sound` that
  what an open transaction writes is stored.
- Doomed images come from a commit, whose `found` were the images of the rows it wrote
  and, by `OneReference`, of no others; or from `CheckReference`, which by `InHand` looks
  at the only rows that may refer to the upload, after the only transaction that may
  write it has ended.
- `NoLeak` needs that `found` is complete, that is, that the images of locked rows are
  those the transaction answers with or writes again (`Sound`).

One lemma per action shows that it keeps the invariant; `JobStep` covers those that
change only a job, `OpenStep` the beginnings of transactions, `CommitStep` the commit.
Theorems: `Invariance`, `TypeCorrect`, `ReferencedAlwaysStored`, `NeverLeaks`.

`FolderOrderProofs` proves for all values of the constants that satisfy
`OrderAssumption` (any folders and requests, any range of orders)

    IInv == TypeOK /\ \A w \in Workers : Placed(req[w])

- `Placed` says of a request on its way what it knows of folders that nobody wrote since it
  read them: the number of a new folder is above theirs; while nobody wrote its reference,
  the number it read is the reference's, the number it computed is on the asked side of it,
  and theirs are not in between (`Apart`). `PlacedAsAsked` speaks of the write alone and
  needs all of it; `Writer` says which steps write for a request.
- `NearestBeyond`: the neighbour is strictly beyond the reference, since the least or the
  greatest of a set of numbers belongs to the set (`OrderEnds`, from the well-founded order
  of the naturals; the range of orders is bounded on both sides).
- `ComputedOnSide`: halfway to such a neighbour, or one unit away when there is none, is
  on the asked side, unless the gap is closed; `ComputedIsFree`: where it is open, no folder
  is between the two.
- `GotoStep` and `WriteStep`: a request that goes on keeps the others placed; a write of a
  folder is noted in every request that has read its number.

That `FolderOrder` implements `FolderList` rests on more (`OrderInv`):

- A request that is not `stale` knows the rows as they are (`Fresh`): the number of a
  new folder is above all others (`LastIsBeyond`), and where the gap is open no
  folder has a number between the one computed and the reference's (`ComputedIsFree`, as
  the neighbour is the nearest, `NearestIsNearest`). Readings write no folder; a write
  makes everyone else stale (`FreshWrite`).
- Until the list is `spoilt`, active folders have distinct numbers. Without that, a folder
  with the number of the reference would be on either side of it.
- A number above those of the folders in front and below those of the others puts a folder
  into its place and leaves the rest (`Arranged`). So creations map to `Add`, moves to
  `Drag`, deletions to `Drop`, the first reading of a request to `Ask`, its end without a
  write to `Make` without a change, and other readings to stutters (`ListStep`).
- A new folder gets the least identifier that is left, and identifiers are natural
  numbers, so that there is one: it cannot be an old folder.

Theorems: `Invariance`, `PlacedAlwaysAsAsked`, `OrderKnown`, `ImplementsList`.

`PagingProofs` proves for all values of the constants that satisfy `PagingAssumption` (any
finite set of rows, any lists with pages of any size, any size of the batch's queries):

    IInv == TypeOK /\ Complete /\ NoGap /\ NoRepeat
            /\ DueReader, ViewedReader or ItemReader, by the kind of the list

- A row that is written moves towards the top of a list or stays, never down, since it gets
  the current time (`WriteStep`, `WritersRise`); in the batch its due date moves on or stays.
  What stayed up to the cursor was shown, and nothing behind it was: `ItemReader` for
  cursors that are rows, `DueReader` for the place that the batch keeps.
- A page is a beginning of what comes after the cursor (`First`), since the order of each
  list is strict and total; one row more than the page says whether there is another one.
  `MergedPage`: the first rows of two tables' first rows are the first rows of both;
  `TrashAfter`: the two conditions on the cursor together select what comes after it.
- The batch may hold a page of which rows are renewed while it looks for orders. The
  invariant therefore speaks of dates as they were read, and of written rows only that
  they are no longer untouched.

The first attempt failed for a reason: the model counted the distinct subscriptions that
the batch had found, while `subscriptions.length` counts those found again too, and it
looked for orders with the current due date instead of the one on the page. With queries
of one row, which the run then used, neither shows; with queries of two TLC finds a run
that ends before its limit of distinct rows. The model now counts and looks as the code
does, and the run's queries are of up to two rows.

One lemma per statement of a reader shows that it keeps the invariant; all writes of other
requests share one. Theorems: `Invariance`, `TypeCorrect`, `CompleteAlways`, `NoGapAlways`,
`NoRepeatAlways`.

`RowLocksProofs` proves for all values of the constants that satisfy `RowAssumption` (any
numbers of transactions, workspaces, folders and clips; one numbering of all rows, with
a highest one):

    OrderInv == TypeOK /\ \A t \in Transactions : Sound(t)
    IInv == OrderInv /\ a clip's folder exists
            /\ \A t : FoldersHeld(t, tx[t]) /\ ReadTrue(tx[t])

- `Sound` says that what a transaction holds comes, in the one order of subscriptions,
  folders and clips, before what it still has to lock. In a circle someone waits for the
  highest row that is waited for (`HighestRow`, from the well-founded order of the
  naturals), but its holder waits for a higher one.
- Workspaces do not fit that order: they are written after folders. Who holds or awaits
  one holds the lock of its subscription, of which there is one (`WorkspaceWaiter`,
  `WorkspaceHolder`).
- `DestroyedKnown` needs that what was read again stays true until the commit (`ReadTrue`).
  Whoever could change it writes a folder or a clip in it, and holds the lock of the
  folder (`FoldersHeld`, `Writes`).

One lemma per action shows that it keeps the order, and one that it keeps the rest.
Theorems: `OrderKept`, `DeadlockFree`, `Invariance`, `DestroyedKnownAlways`.

Only model-checked: the liveness properties (`RenewalResolved`, `ApprovedPurchaseSettled`,
`DueIsBilled`, `ExpiredPurged`, `BatchEnds`, `ObservedEnds`), since the proof system has no rules for
fairness that would carry them, and the violated properties of the findings. Every
invariant, action property and refinement that a passing run checks is a theorem.

## 6. Not modelled

- The upload-rate guard, a map in the memory of one process that no other part reads.
- The calendar: `setMonth` on the 31st moves into the month after the next; periods in
  the model have equal length.
- The order of the stages of a batch and the isolation of its items: in `Billing` every
  item of every batch may run, stop or fail at any time, which is more than the code does.
- In authentication, the login of the test administrator and the fallback of logout for
  access tokens without a session, which are no longer issued.
- Contents: titles, text types, names, prices, mails, metrics, log lines, HTTP routing and
  DTO validation. They have no state of their own that a property could speak about.
- `activateByPayment` and `recordPaymentFailure` have no caller.
