----------------------------- MODULE AuthSession -----------------------------
(***************************************************************************)
(* Signing in with an OAuth provider, linking a second provider account,   *)
(* switching between linked accounts, refreshing and rotating tokens,      *)
(* logging out and deleting the user.                                      *)
(*                                                                         *)
(* A request is a worker.  Every database statement of its handler is one  *)
(* action, since the handlers run theirs without a common transaction;     *)
(* only the deletion of a user is a transaction, and its two locking       *)
(* statements are two actions.  The reply is an action of its own: it sets *)
(* the cookies of the browser, after whatever other replies came first.    *)
(*                                                                         *)
(* A token is its session and the second it was signed in; its hash tells  *)
(* exactly these apart.  Signatures and the CSRF checks are not modelled.  *)
(***************************************************************************)
EXTENDS Integers, FiniteSets

CONSTANTS
  Users, Accounts, Sessions,  \* identifiers that rows may be created with
  Nonces,                     \* ... and OAuth flows started with
  Identities,                 \* (provider, providerUserId)
  Shared,                     \* identities that report one common address
  Browsers, Workers,          \* clients, and requests running at a time
  None,                       \* SQL NULL, an absent cookie
  Life,                       \* of a refresh token (14 days)
  Threshold,                  \* remaining life that makes it rotate (24 hours)
  AccessLife,                 \* of an access token (30 minutes)
  StateLife,                  \* of an OAuth state (10 minutes)
  MaxNow                      \* bound on the clock

ASSUME AuthAssumption ==
  /\ Life \in Nat /\ Threshold \in Nat /\ Threshold < Life
  /\ AccessLife \in Nat \ {0} /\ StateLife \in Nat \ {0} /\ MaxNow \in Nat \ {0}
  /\ Shared \subseteq Identities
  /\ None \notin Users \cup Accounts \cup Sessions \cup Nonces \cup Identities
  /\ None \notin Browsers \cup [session : Sessions, issued : Nat]

VARIABLES
  now,        \* the clock
  user,       \* User rows: "new" (not created yet), "row" or "gone"
  account,    \* AuthAccount rows
  session,    \* RefreshToken rows
  nonces,     \* OAuthStateNonce rows
  flow,       \* the signed state of each OAuth flow
  jar,        \* the cookies of each browser
  job,        \* the handler each worker is running
  exchanged,  \* history: refresh tokens and those they were exchanged for
  accepted    \* history: callbacks accepted for each flow

vars == <<now, user, account, session, nonces, flow, jar, job, exchanged, accepted>>
rows == <<user, account, session>>
oauth == <<nonces, flow, accepted>>

Times == 1..MaxNow
States == {"new", "row", "gone"}
Tokens == [session : Sessions, issued : Times]
Cookie == Tokens \cup {None}

AccountRows == [state : States, user : Users \cup {None},
                identity : Identities \cup {None}]
SessionRows == [state : States, user : Users \cup {None},
                account : Accounts \cup {None}, issued : Times, revoked : BOOLEAN]
Flows == [browser : Browsers, user : Users \cup {None},
          session : Sessions \cup {None}, expires : 1..(MaxNow + StateLife)]
Jars == [access : Cookie, refresh : Cookie, oauth : Nonces \cup {None}]
Steps == {"idle", "consume", "account", "email", "create", "switch", "issue",
          "rotate", "touch", "delete", "reply", "clear"}
Jobs == [step : Steps, browser : Browsers \cup {None}, nonce : Nonces \cup {None},
         user : Users \cup {None}, identity : Identities \cup {None},
         account : Accounts \cup {None}, token : Cookie, doomed : SUBSET Sessions,
         access : Cookie, refresh : Cookie]

Idle == [step |-> "idle", browser |-> None, nonce |-> None, user |-> None,
         identity |-> None, account |-> None, token |-> None, doomed |-> {},
         access |-> None, refresh |-> None]

Init ==
  /\ now = 1
  /\ user = [u \in Users |-> "new"]
  /\ account = [a \in Accounts |-> [state |-> "new", user |-> None, identity |-> None]]
  /\ session = [s \in Sessions |-> [state |-> "new", user |-> None, account |-> None,
                                    issued |-> 1, revoked |-> FALSE]]
  /\ nonces = {}
  /\ flow = [n \in Nonces |-> None]
  /\ jar = [b \in Browsers |-> [access |-> None, refresh |-> None, oauth |-> None]]
  /\ job = [w \in Workers |-> Idle]
  /\ exchanged = {}
  /\ accepted = [n \in Nonces |-> 0]

-----------------------------------------------------------------------------
(* What the statements read.                                               *)

LiveUsers == {u \in Users : user[u] = "row"}
LiveAccounts == {a \in Accounts : account[a].state = "row"}
LiveSessions == {s \in Sessions : session[s].state = "row"}
SessionsOf(u) == {s \in LiveSessions : session[s].user = u}
AccountsWith(i) == {a \in LiveAccounts : account[a].identity = i}

SameAddress(i, j) == i = j \/ {i, j} \subseteq Shared
AddressTaken(i) == \E a \in LiveAccounts : SameAddress(account[a].identity, i)

(* Rows an open deletion holds; statements on them wait for its end.       *)
Locked == UNION {job[w].doomed : w \in Workers}

(* The guards' verification of a signed token.                             *)
ValidAt(at, t, life) == t # None /\ at < t.issued + life
AccessValid(t) == ValidAt(now, t, AccessLife)
RefreshValid(t) == ValidAt(now, t, Life)

ExpiryToken(s) == [session |-> s, issued |-> now + Life]
Token(s) == [session |-> s, issued |-> now]
UserOf(t) == session[t.session].user

Goto(w, j) == job' = [job EXCEPT ![w] = j]
(* Done: only the reply is left, with the cookies it sets.                 *)
Answer(w, access, refresh) ==
  Goto(w, [Idle EXCEPT !.step = "reply", !.browser = job[w].browser,
                       !.nonce = job[w].nonce,
                       !.access = access, !.refresh = refresh])
Refuse(w) == Answer(w, None, None)

-----------------------------------------------------------------------------
(* OAuth: the flow, its state and its callback.                            *)

(* OAuthStateGuard, start: issue the nonce, drop expired ones, set the     *)
(* browser's cookie.  A link needs an access token.                        *)
StartFlow(b, n, link) ==
  /\ flow[n] = None
  /\ link => AccessValid(jar[b].access)
  /\ LET t == jar[b].access
         f == [browser |-> b, expires |-> now + StateLife,
               user |-> IF link THEN UserOf(t) ELSE None,
               session |-> IF link THEN t.session ELSE None]
     IN flow' = [flow EXCEPT ![n] = f]
  /\ nonces' = {m \in nonces : flow[m].expires > now} \cup {n}
  /\ jar' = [jar EXCEPT ![b].oauth = n]
  /\ UNCHANGED <<now, rows, job, exchanged, accepted>>

(* ... callback: the state belongs to this browser and, for a link, to the *)
(* user and session whose access token the browser sends.                  *)
SameUser(f, t) == AccessValid(t) /\ UserOf(t) = f.user
SameSession(f, t) ==
  AccessValid(t) /\ UserOf(t) = f.user /\ t.session = f.session

Callback(w, b, n) ==
  /\ job[w] = Idle
  /\ flow[n] # None /\ flow[n].expires > now
  /\ jar[b].oauth = n
  /\ flow[n].user # None => SameSession(flow[n], jar[b].access)
  /\ Goto(w, [Idle EXCEPT !.step = "consume", !.browser = b, !.nonce = n,
                          !.user = flow[n].user,
                          !.token = IF flow[n].user = None THEN None ELSE jar[b].access])
  /\ UNCHANGED <<now, rows, oauth, jar, exchanged>>

(* PrismaOAuthStateStore.consume, then the provider's answer.              *)
Unexpired(n) == flow[n].expires > now
Consumed(n) == n \in nonces /\ flow[n].expires > now

Consume(w) ==
  LET n == job[w].nonce IN
  /\ job[w].step = "consume"
  /\ IF Consumed(n)
     THEN /\ nonces' = nonces \ {n}
          /\ accepted' = [accepted EXCEPT ![n] = @ + 1]
          /\ \E i \in Identities :
               Goto(w, [job[w] EXCEPT !.step = "account", !.identity = i])
     ELSE Goto(w, Idle) /\ UNCHANGED <<nonces, accepted>>
  /\ UNCHANGED <<now, rows, flow, jar, exchanged>>

-----------------------------------------------------------------------------
(* Signing in, linking and switching.                                      *)

(* findAccountByProvider; for a link after findUserById.                   *)
FindAccount(w) ==
  LET j == job[w]
      found == AccountsWith(j.identity)
      taken == \E a \in found : TRUE
  IN
  /\ j.step = "account"
  /\ \/ /\ j.user = None /\ taken
        /\ \E a \in found :
             Goto(w, [j EXCEPT !.step = "issue", !.account = a,
                               !.user = account[a].user])
     \/ /\ j.user = None /\ ~taken
        /\ Goto(w, [j EXCEPT !.step = "email"])
     \/ /\ j.user \in LiveUsers /\ ~taken
        /\ Goto(w, [j EXCEPT !.step = "create"])
     \/ /\ j.user # None /\ (taken \/ j.user \notin LiveUsers)
        /\ Refuse(w)
  /\ UNCHANGED <<now, rows, oauth, jar, exchanged>>

(* findUserByAuthEmail *)
FindEmail(w) ==
  /\ job[w].step = "email"
  /\ \/ AddressTaken(job[w].identity) /\ Refuse(w)
     \/ /\ ~AddressTaken(job[w].identity)
        /\ Goto(w, [job[w] EXCEPT !.step = "create"])
  /\ UNCHANGED <<now, rows, oauth, jar, exchanged>>

AddAccount(w, a, u) ==
  /\ account[a].state = "new"
  /\ account' = [account EXCEPT ![a] = [state |-> "row", user |-> u,
                                        identity |-> job[w].identity]]
  /\ Goto(w, [job[w] EXCEPT !.step = "issue", !.account = a, !.user = u,
                             !.identity = None, !.token = None])

(* createUserWithAuthAccount and createAuthAccountForUser, with the unique *)
(* (provider, providerUserId) and the reference to the user.               *)
Create(w) ==
  LET j == job[w] IN
  /\ j.step = "create"
  /\ \/ /\ AccountsWith(j.identity) = {} /\ j.user = None
        /\ \E u \in Users, a \in Accounts :
             /\ user[u] = "new"
             /\ user' = [user EXCEPT ![u] = "row"]
             /\ AddAccount(w, a, u)
     \/ /\ AccountsWith(j.identity) = {} /\ j.user \in LiveUsers
        /\ \E a \in Accounts : AddAccount(w, a, j.user)
        /\ UNCHANGED user
     \/ /\ AccountsWith(j.identity) # {} \/ (j.user # None /\ j.user \notin LiveUsers)
        /\ Refuse(w)
        /\ UNCHANGED <<user, account>>
  /\ UNCHANGED <<now, session, oauth, jar, exchanged>>

(* switchUser: the access token, then the account asked for, which is a    *)
(* linked one.                                                             *)
Switch(w, b, a) ==
  /\ job[w] = Idle
  /\ AccessValid(jar[b].access)
  /\ a \in LiveAccounts /\ account[a].user = UserOf(jar[b].access)
  /\ Goto(w, [Idle EXCEPT !.step = "issue", !.browser = b, !.account = a,
                          !.user = account[a].user])
  /\ UNCHANGED <<now, rows, oauth, jar, exchanged>>

(* issueTokens: a session row, which refers to the user and the account.   *)
Issue(w) ==
  LET j == job[w] IN
  /\ j.step = "issue"
  /\ \/ /\ j.user \in LiveUsers /\ j.account \in LiveAccounts
        /\ \E s \in Sessions :
             /\ session[s].state = "new"
             /\ session' = [session EXCEPT ![s] =
                  [state |-> "row", user |-> j.user, account |-> j.account,
                   issued |-> now, revoked |-> FALSE]]
             /\ Answer(w, Token(s), Token(s))
     \/ /\ j.user \notin LiveUsers \/ j.account \notin LiveAccounts
        /\ Refuse(w)
        /\ UNCHANGED session
  /\ UNCHANGED <<now, user, account, oauth, jar, exchanged>>

-----------------------------------------------------------------------------
(* Refreshing.                                                             *)

(* JwtRefreshGuard, findRefreshTokenSession and its assertions.            *)
Matches(t) == /\ t.session \in LiveSessions /\ ~session[t.session].revoked
              /\ session[t.session].issued = t.issued

ReadSession(w, b) ==
  LET t == jar[b].refresh
      rotate == t.issued + Life - now <= Threshold
  IN
  /\ job[w] = Idle
  /\ RefreshValid(t) /\ Matches(t)
  /\ Goto(w, [Idle EXCEPT !.step = IF rotate THEN "rotate" ELSE "touch",
                          !.browser = b, !.token = t])
  /\ UNCHANGED <<now, rows, oauth, jar, exchanged>>

(* rotateRefreshToken: the conditional update, and what its count decides. *)
StillLive(t) == t.session \in LiveSessions /\ ~session[t.session].revoked
SameHash(t) == t.session \in LiveSessions /\ session[t.session].issued = t.issued
StillCurrent(t) == Matches(t)

Rotate(w) ==
  LET t == job[w].token
      s == t.session
  IN
  /\ job[w].step = "rotate" /\ s \notin Locked
  /\ \/ /\ StillCurrent(t)
        /\ session' = [session EXCEPT ![s].issued = now]
        /\ exchanged' = exchanged \cup {[session |-> s, from |-> t.issued, to |-> now]}
        /\ Answer(w, Token(s), Token(s))
     \/ ~StillCurrent(t) /\ Refuse(w) /\ UNCHANGED <<session, exchanged>>
  /\ UNCHANGED <<now, user, account, oauth, jar>>

(* signAccessToken and touchRefreshTokenSession, whose result is unused.   *)
Touch(w) ==
  /\ job[w].step = "touch" /\ job[w].token.session \notin Locked
  /\ Answer(w, Token(job[w].token.session), None)
  /\ UNCHANGED <<now, rows, oauth, jar, exchanged>>

-----------------------------------------------------------------------------
(* Logging out, and deleting the user.                                     *)

(* revokeRefreshTokenSession *)
Logout(w, b) ==
  LET s == jar[b].access.session IN
  /\ job[w] = Idle
  /\ AccessValid(jar[b].access) /\ s \notin Locked
  /\ session' = IF s \in LiveSessions
                THEN [session EXCEPT ![s].revoked = TRUE] ELSE session
  /\ Goto(w, [Idle EXCEPT !.step = "clear", !.browser = b])
  /\ UNCHANGED <<now, user, account, oauth, jar, exchanged>>

(* deleteUserAndOwnedPersonalWorkspaces, up to the deletion of the tokens. *)
BeginDelete(w, b) ==
  LET u == UserOf(jar[b].access) IN
  /\ job[w] = Idle
  /\ AccessValid(jar[b].access) /\ u \in LiveUsers
  /\ SessionsOf(u) \cap Locked = {}
  /\ Goto(w, [Idle EXCEPT !.step = "delete", !.browser = b, !.user = u,
                          !.doomed = SessionsOf(u)])
  /\ UNCHANGED <<now, rows, oauth, jar, exchanged>>

(* user.delete: refused while a session refers to the user, otherwise it   *)
(* takes the accounts with it; the transaction commits or rolls back.      *)
UserLives(w) == job[w].user \in LiveUsers
Deletable(w) == /\ job[w].user \in LiveUsers
                /\ SessionsOf(job[w].user) \subseteq job[w].doomed

Delete(w) ==
  LET u == job[w].user IN
  /\ job[w].step = "delete"
  /\ \/ /\ Deletable(w)
        /\ user' = [user EXCEPT ![u] = "gone"]
        /\ account' = [a \in Accounts |->
             IF a \in LiveAccounts /\ account[a].user = u
             THEN [state |-> "gone", user |-> None, identity |-> None]
             ELSE account[a]]
        /\ session' = [s \in Sessions |->
             IF s \in job[w].doomed
             THEN [session[s] EXCEPT !.state = "gone", !.account = None]
             ELSE session[s]]
     \/ ~Deletable(w) /\ UNCHANGED rows
  /\ Answer(w, None, None)
  /\ UNCHANGED <<now, oauth, jar, exchanged>>

-----------------------------------------------------------------------------
(* Replies, interrupted requests, time.                                    *)

(* setAuthCookies, setAccessTokenCookie; a consumed state clears its cookie. *)
Reply(w) ==
  LET j == job[w]
      c == jar[j.browser]
  IN
  /\ j.step = "reply"
  /\ jar' = [jar EXCEPT ![j.browser] =
       [access  |-> IF j.access = None THEN c.access ELSE j.access,
        refresh |-> IF j.refresh = None THEN c.refresh ELSE j.refresh,
        oauth   |-> IF j.nonce = None THEN c.oauth ELSE None]]
  /\ Goto(w, Idle)
  /\ UNCHANGED <<now, rows, oauth, exchanged>>

(* clearAuthCookies *)
ReplyClear(w) ==
  /\ job[w].step = "clear"
  /\ jar' = [jar EXCEPT ![job[w].browser].access = None,
                        ![job[w].browser].refresh = None]
  /\ Goto(w, Idle)
  /\ UNCHANGED <<now, rows, oauth, exchanged>>

(* The process dies, a statement throws, or the reply is lost: what was    *)
(* written stays, an open transaction is rolled back.                      *)
Stop(w) ==
  /\ job[w] # Idle
  /\ Goto(w, Idle)
  /\ UNCHANGED <<now, rows, oauth, jar, exchanged>>

(* Time passes; browsers drop cookies past their maxAge, which is the life *)
(* of the token (so a dropped one was of no use to any handler).           *)
Tick ==
  /\ now < MaxNow
  /\ now' = now + 1
  /\ jar' = [b \in Browsers |->
       [access  |-> IF ValidAt(now + 1, jar[b].access, AccessLife)
                    THEN jar[b].access ELSE None,
        refresh |-> IF ValidAt(now + 1, jar[b].refresh, Life)
                    THEN jar[b].refresh ELSE None,
        oauth   |-> jar[b].oauth]]
  /\ UNCHANGED <<rows, oauth, job, exchanged>>

Next ==
  \/ \E b \in Browsers, n \in Nonces, link \in BOOLEAN : StartFlow(b, n, link)
  \/ \E w \in Workers, b \in Browsers, n \in Nonces : Callback(w, b, n)
  \/ \E w \in Workers, b \in Browsers, a \in Accounts : Switch(w, b, a)
  \/ \E w \in Workers, b \in Browsers :
       ReadSession(w, b) \/ Logout(w, b) \/ BeginDelete(w, b)
  \/ \E w \in Workers :
       \/ Consume(w) \/ FindAccount(w) \/ FindEmail(w) \/ Create(w) \/ Issue(w)
       \/ Rotate(w) \/ Touch(w) \/ Delete(w)
       \/ Reply(w) \/ ReplyClear(w) \/ Stop(w)
  \/ Tick

Spec == Init /\ [][Next]_vars

-----------------------------------------------------------------------------
(* Properties.                                                             *)

(* Every variable has the shape the code gives it.                         *)
TypeOK ==
  /\ now \in Times
  /\ user \in [Users -> States]
  /\ account \in [Accounts -> AccountRows]
  /\ session \in [Sessions -> SessionRows]
  /\ nonces \subseteq Nonces
  /\ flow \in [Nonces -> Flows \cup {None}]
  /\ jar \in [Browsers -> Jars]
  /\ job \in [Workers -> Jobs]
  /\ exchanged \subseteq [session : Sessions, from : Times, to : Times]
  /\ accepted \in [Nonces -> Nat]

(* The inductive invariant.                                                *)
NotNew(t) == t = None \/ session[t.session].state # "new"

TokensReal ==
  /\ \A b \in Browsers : NotNew(jar[b].access) /\ NotNew(jar[b].refresh)
  /\ \A w \in Workers : /\ NotNew(job[w].access) /\ NotNew(job[w].refresh)
                        /\ NotNew(job[w].token)

JobSound(j) ==
  /\ j.step # "idle" => j.browser # None
  /\ j.step = "issue" => /\ j.account # None
                         /\ account[j.account].state # "new"
                         /\ j.account \in LiveAccounts =>
                              account[j.account].user = j.user
  /\ j.step \in {"rotate", "touch"} => j.token # None
  /\ j.step = "rotate" => j.token.issued < now
  /\ j.step \in {"consume", "account", "email", "create"} =>
       /\ j.nonce # None /\ flow[j.nonce] # None
       /\ j.user = flow[j.nonce].user
  /\ j.step \in {"account", "email", "create"} => j.identity # None
  /\ j.step = "email" => j.user = None

JobsSound == \A w \in Workers : JobSound(job[w])

LinkSound(j) ==
  j.step \in {"consume", "account", "create"} /\ j.user # None =>
    /\ j.token # None
    /\ j.token.session = flow[j.nonce].session
    /\ UserOf(j.token) = j.user

LinksSound == \A w \in Workers : LinkSound(job[w])

ExchangesSound ==
  /\ \A x \in exchanged : /\ session[x.session].state # "new"
                          /\ x.from < session[x.session].issued
  /\ \A x, y \in exchanged :
       x.session = y.session /\ x.from = y.from => x.to = y.to

NoncesSound ==
  \A n \in Nonces : /\ accepted[n] <= 1
                    /\ n \in nonces => accepted[n] = 0
                    /\ flow[n] = None => accepted[n] = 0

(* Every live session belongs to a live account of its live user, every    *)
(* account to a live user, and no two accounts have one identity: whatever *)
(* a deletion, sign-ins, links and switches do at the same time.           *)
RowsOwned ==
  /\ \A s \in LiveSessions :
       /\ session[s].account \in LiveAccounts
       /\ account[session[s].account].user = session[s].user
  /\ \A a \in LiveAccounts : account[a].user \in LiveUsers
  /\ \A a, b \in LiveAccounts : account[a].identity = account[b].identity => a = b

(* A refresh token is exchanged for at most one new one, however many      *)
(* refreshes read the session before the first of them rotated it, and     *)
(* once exchanged it is never again the current token of its session.      *)
OneSuccessor ==
  /\ \A x, y \in exchanged :
       x.session = y.session /\ x.from = y.from => x.to = y.to
  /\ \A x \in exchanged : session[x.session].issued # x.from

(* An OAuth state is accepted by one callback, though several may have     *)
(* passed the checks that come before the nonce is consumed.               *)
OneCallback == \A n \in Nonces : accepted[n] <= 1

(* An account is linked for a callback whose browser was still signed in,  *)
(* as the user and in the session that started the flow                    *)
(* (docs/09-p1-fe-api-contract.md:107).                                    *)
LinkBySameSession ==
  \A w \in Workers :
    LET j == job[w] IN
    j.step = "create" /\ j.user # None =>
      /\ j.token # None
      /\ j.token.session = flow[j.nonce].session
      /\ UserOf(j.token) = j.user

IInv == /\ TypeOK /\ TokensReal /\ JobsSound /\ LinksSound
        /\ RowsOwned /\ ExchangesSound /\ NoncesSound

(* A session that was logged out stays as it is until its user is deleted: *)
(* a refresh that read it before can no longer renew it.                   *)
RevokedForever ==
  [][\A s \in LiveSessions :
       session[s].revoked =>
         session'[s] = session[s] \/ session'[s].state = "gone"]_vars

(* src/auth/application/usecases/sign-in.usecase.spec.ts:77: an address    *)
(* that a user already has is refused; a sign-in creates no second user    *)
(* for it.                                                                 *)
OneUserPerAddress ==
  [][\A a \in Accounts :
       account[a].state = "new" /\ account'[a].state = "row"
         /\ user[account'[a].user] = "new" =>
           ~AddressTaken(account'[a].identity)]_vars

=============================================================================
