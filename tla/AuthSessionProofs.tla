-------------------------- MODULE AuthSessionProofs --------------------------
(***************************************************************************)
(* AuthSession for any number of users, sessions, browsers and requests:   *)
(* its inductive invariant and the properties that follow.                 *)
(***************************************************************************)
EXTENDS AuthSession, TLAPS

USE AuthAssumption

-----------------------------------------------------------------------------
(* Types.                                                                  *)

LEMMA GotoType ==
  ASSUME job \in [Workers -> Jobs], NEW w \in Workers, NEW j \in Jobs, Goto(w, j)
  PROVE  job' \in [Workers -> Jobs]
BY DEF Goto

LEMMA IdleType == Idle \in Jobs
BY DEF Idle, Jobs, Steps, Cookie

LEMMA AnswerType ==
  ASSUME TypeOK, NEW w \in Workers, NEW x \in Cookie, NEW y \in Cookie,
         Answer(w, x, y)
  PROVE  job' \in [Workers -> Jobs]
<1>1. job[w] \in Jobs
  BY DEF TypeOK
<1>2. [Idle EXCEPT !.step = "reply", !.browser = job[w].browser,
                   !.nonce = job[w].nonce, !.access = x, !.refresh = y] \in Jobs
  BY <1>1 DEF Idle, Jobs, Steps, Cookie
<1> QED
  BY <1>2, GotoType DEF Answer, TypeOK

LEMMA RefuseType ==
  ASSUME TypeOK, NEW w \in Workers, Refuse(w)
  PROVE  job' \in [Workers -> Jobs]
BY AnswerType DEF Refuse, Cookie

LEMMA TokenType ==
  ASSUME TypeOK, NEW s \in Sessions
  PROVE  Token(s) \in Tokens /\ Token(s) \in Cookie
BY DEF TypeOK, Token, Tokens, Cookie

LEMMA CookieIsToken ==
  ASSUME NEW t \in Cookie, t # None
  PROVE  t \in Tokens /\ t.session \in Sessions /\ t.issued \in Times
BY DEF Cookie, Tokens

LEMMA UserOfType ==
  ASSUME TypeOK, NEW t \in Cookie, t # None
  PROVE  UserOf(t) \in Users \cup {None}
BY CookieIsToken DEF TypeOK, SessionRows, UserOf

LEMMA InitType == Init => TypeOK
<1> SUFFICES ASSUME Init PROVE TypeOK
  OBVIOUS
<1>1. now \in Times /\ user \in [Users -> States]
  BY DEF Init, Times, States
<1>2. account \in [Accounts -> AccountRows]
  BY DEF Init, AccountRows, States
<1>3. session \in [Sessions -> SessionRows]
  BY DEF Init, SessionRows, States, Times
<1>4. nonces \subseteq Nonces /\ flow \in [Nonces -> Flows \cup {None}]
  BY DEF Init
<1>5. jar \in [Browsers -> Jars]
  BY DEF Init, Jars, Cookie
<1>6. job \in [Workers -> Jobs]
  BY IdleType DEF Init
<1>7. /\ exchanged \subseteq [session : Sessions, from : Times, to : Times]
      /\ accepted \in [Nonces -> Nat]
  BY DEF Init
<1> QED
  BY <1>1, <1>2, <1>3, <1>4, <1>5, <1>6, <1>7 DEF TypeOK

LEMMA TypeStep == TypeOK /\ JobsSound /\ [Next]_vars => TypeOK'
<1> SUFFICES ASSUME TypeOK, JobsSound, [Next]_vars PROVE TypeOK'
  OBVIOUS
<1> USE DEF rows, oauth
<1>1. ASSUME NEW b \in Browsers, NEW n \in Nonces, NEW link \in BOOLEAN,
             StartFlow(b, n, link)
      PROVE  TypeOK'
  <2> DEFINE t == jar[b].access
             f == [browser |-> b, expires |-> now + StateLife,
                   user |-> IF link THEN UserOf(t) ELSE None,
                   session |-> IF link THEN t.session ELSE None]
  <2>1. t \in Cookie /\ jar[b] \in Jars
    BY DEF TypeOK, Jars
  <2>2. link => t # None
    BY <1>1 DEF StartFlow, AccessValid, ValidAt
  <2>3. link => UserOf(t) \in Users \cup {None} /\ t.session \in Sessions
    BY <2>1, <2>2, CookieIsToken, UserOfType
  <2>4. now + StateLife \in 1..(MaxNow + StateLife)
    BY DEF TypeOK, Times
  <2>5. f \in Flows
    BY <2>3, <2>4 DEF Flows
  <2>6. flow' \in [Nonces -> Flows \cup {None}]
    BY <1>1, <2>5 DEF StartFlow, TypeOK
  <2>7. nonces' \subseteq Nonces
    BY <1>1 DEF StartFlow, TypeOK
  <2>8. [jar[b] EXCEPT !.oauth = n] \in Jars
    BY <2>1 DEF Jars
  <2>9. jar' \in [Browsers -> Jars]
    BY <1>1, <2>8 DEF StartFlow, TypeOK
  <2> QED
    BY <1>1, <2>6, <2>7, <2>9 DEF StartFlow, TypeOK
<1>2. ASSUME NEW w \in Workers, NEW b \in Browsers, NEW n \in Nonces,
             Callback(w, b, n)
      PROVE  TypeOK'
  <2>1. flow[n] \in Flows /\ jar[b] \in Jars
    BY <1>2 DEF Callback, TypeOK
  <2>2. [Idle EXCEPT !.step = "consume", !.browser = b, !.nonce = n,
                     !.user = flow[n].user,
                     !.token = IF flow[n].user = None THEN None ELSE jar[b].access]
          \in Jobs
    BY <2>1, IdleType DEF Idle, Jobs, Steps, Cookie, Flows, Jars
  <2>3. job' \in [Workers -> Jobs]
    BY <1>2, <2>2, GotoType DEF Callback, TypeOK
  <2> QED
    BY <1>2, <2>3 DEF Callback, TypeOK
<1>3. ASSUME NEW w \in Workers, NEW b \in Browsers, NEW a \in Accounts,
             Switch(w, b, a)
      PROVE  TypeOK'
  <2>1. account[a] \in AccountRows
    BY DEF TypeOK
  <2>2. [Idle EXCEPT !.step = "issue", !.browser = b, !.account = a,
                     !.user = account[a].user] \in Jobs
    BY <2>1 DEF Idle, Jobs, Steps, Cookie, AccountRows
  <2>3. job' \in [Workers -> Jobs]
    BY <1>3, <2>2, GotoType DEF Switch, TypeOK
  <2> QED
    BY <1>3, <2>3 DEF Switch, TypeOK
<1>4. ASSUME NEW w \in Workers, NEW b \in Browsers, ReadSession(w, b)
      PROVE  TypeOK'
  <2> DEFINE st == IF jar[b].refresh.issued + Life - now <= Threshold
                   THEN "rotate" ELSE "touch"
  <2>1. jar[b].refresh \in Cookie
    BY DEF TypeOK, Jars
  <2>2. st \in Steps
    BY DEF Steps
  <2> HIDE DEF st
  <2>3. [Idle EXCEPT !.step = st, !.browser = b, !.token = jar[b].refresh] \in Jobs
    BY <2>1, <2>2 DEF Idle, Jobs, Cookie
  <2>4. job' \in [Workers -> Jobs]
    BY <1>4, <2>3, GotoType DEF ReadSession, TypeOK, st
  <2> QED
    BY <1>4, <2>4 DEF ReadSession, TypeOK
<1>5. ASSUME NEW w \in Workers, NEW b \in Browsers, Logout(w, b)
      PROVE  TypeOK'
  <2>1. [Idle EXCEPT !.step = "clear", !.browser = b] \in Jobs
    BY DEF Idle, Jobs, Steps, Cookie
  <2>2. job' \in [Workers -> Jobs]
    BY <1>5, <2>1, GotoType DEF Logout, TypeOK
  <2>3. \A s \in Sessions : [session[s] EXCEPT !.revoked = TRUE] \in SessionRows
    <3> TAKE s \in Sessions
    <3>1. session[s] \in SessionRows
      BY DEF TypeOK
    <3> QED
      BY <3>1 DEF SessionRows
  <2>4. session' \in [Sessions -> SessionRows]
    BY <1>5, <2>3 DEF Logout, TypeOK, LiveSessions
  <2> QED
    BY <1>5, <2>2, <2>4 DEF Logout, TypeOK
<1>6. ASSUME NEW w \in Workers, NEW b \in Browsers, BeginDelete(w, b)
      PROVE  TypeOK'
  <2>1. UserOf(jar[b].access) \in Users /\ SessionsOf(UserOf(jar[b].access)) \in SUBSET Sessions
    BY <1>6 DEF BeginDelete, LiveUsers, SessionsOf, LiveSessions
  <2>2. [Idle EXCEPT !.step = "delete", !.browser = b,
                     !.user = UserOf(jar[b].access),
                     !.doomed = SessionsOf(UserOf(jar[b].access))] \in Jobs
    BY <2>1 DEF Idle, Jobs, Steps, Cookie
  <2>3. job' \in [Workers -> Jobs]
    BY <1>6, <2>2, GotoType DEF BeginDelete, TypeOK
  <2> QED
    BY <1>6, <2>3 DEF BeginDelete, TypeOK
<1>7. ASSUME NEW w \in Workers, Consume(w)
      PROVE  TypeOK'
  <2>1. job[w] \in Jobs
    BY DEF TypeOK
  <2>2. \A i \in Identities : [job[w] EXCEPT !.step = "account", !.identity = i] \in Jobs
    BY <2>1 DEF Jobs, Steps
  <2>3. job' \in [Workers -> Jobs]
    BY <1>7, <2>2, IdleType, GotoType DEF Consume, TypeOK
  <2>4. nonces' \subseteq Nonces /\ accepted' \in [Nonces -> Nat]
    <3>1. CASE Consumed(job[w].nonce)
      <4>1. job[w].nonce \in Nonces
        BY <3>1 DEF Consumed, TypeOK
      <4>2. accepted[job[w].nonce] + 1 \in Nat
        BY <4>1 DEF TypeOK
      <4>3. /\ nonces' = nonces \ {job[w].nonce}
            /\ accepted' = [accepted EXCEPT ![job[w].nonce] = @ + 1]
        BY <1>7, <3>1 DEF Consume
      <4> QED
        BY <4>1, <4>2, <4>3 DEF TypeOK
    <3>2. CASE ~Consumed(job[w].nonce)
      BY <1>7, <3>2 DEF Consume, TypeOK
    <3> QED
      BY <3>1, <3>2
  <2> QED
    BY <1>7, <2>3, <2>4 DEF Consume, TypeOK
<1>8. ASSUME NEW w \in Workers, FindAccount(w)
      PROVE  TypeOK'
  <2>1. job[w] \in Jobs
    BY DEF TypeOK
  <2>2. /\ [job[w] EXCEPT !.step = "email"] \in Jobs
        /\ [job[w] EXCEPT !.step = "create"] \in Jobs
    BY <2>1 DEF Jobs, Steps
  <2>3. \A a \in AccountsWith(job[w].identity) :
          [job[w] EXCEPT !.step = "issue", !.account = a,
                         !.user = account[a].user] \in Jobs
    BY <2>1 DEF Jobs, Steps, AccountsWith, LiveAccounts, TypeOK, AccountRows
  <2>4. job' \in [Workers -> Jobs]
    BY <1>8, <2>2, <2>3, RefuseType, GotoType DEF FindAccount, TypeOK
  <2> QED
    BY <1>8, <2>4 DEF FindAccount, TypeOK
<1>9. ASSUME NEW w \in Workers, FindEmail(w)
      PROVE  TypeOK'
  <2>1. [job[w] EXCEPT !.step = "create"] \in Jobs
    BY DEF TypeOK, Jobs, Steps
  <2>2. job' \in [Workers -> Jobs]
    BY <1>9, <2>1, RefuseType, GotoType DEF FindEmail, TypeOK
  <2> QED
    BY <1>9, <2>2 DEF FindEmail, TypeOK
<1>10. ASSUME NEW w \in Workers, Create(w)
       PROVE  TypeOK'
  <2>1. job[w] \in Jobs
    BY DEF TypeOK
  <2>2. ASSUME NEW a \in Accounts, NEW u \in Users, AddAccount(w, a, u),
               job[w].identity # None \/ TRUE
        PROVE  job' \in [Workers -> Jobs] /\ account' \in [Accounts -> AccountRows]
    <3>1. [job[w] EXCEPT !.step = "issue", !.account = a, !.user = u,
                         !.identity = None, !.token = None] \in Jobs
      BY <2>1 DEF Jobs, Steps, Cookie
    <3>2. [state |-> "row", user |-> u, identity |-> job[w].identity] \in AccountRows
      BY <2>1 DEF AccountRows, Jobs, States
    <3> QED
      BY <2>2, <3>1, <3>2, GotoType DEF AddAccount, TypeOK
  <2>3. job' \in [Workers -> Jobs] /\ account' \in [Accounts -> AccountRows]
    BY <1>10, <2>2, RefuseType DEF Create, TypeOK, LiveUsers
  <2>4. user' \in [Users -> States]
    BY <1>10 DEF Create, TypeOK, States
  <2> QED
    BY <1>10, <2>3, <2>4 DEF Create, TypeOK
<1>11. ASSUME NEW w \in Workers, Issue(w)
       PROVE  TypeOK'
  <2>1. job' \in [Workers -> Jobs]
    BY <1>11, AnswerType, RefuseType, TokenType DEF Issue
  <2>2. job[w].user \in LiveUsers /\ job[w].account \in LiveAccounts =>
          [state |-> "row", user |-> job[w].user, account |-> job[w].account,
           issued |-> now, revoked |-> FALSE] \in SessionRows
    BY DEF SessionRows, States, LiveUsers, LiveAccounts, TypeOK
  <2>3. session' \in [Sessions -> SessionRows]
    BY <1>11, <2>2 DEF Issue, TypeOK
  <2> QED
    BY <1>11, <2>1, <2>3 DEF Issue, TypeOK
<1>12. ASSUME NEW w \in Workers, Rotate(w)
       PROVE  TypeOK'
  <2>1. StillCurrent(job[w].token) => job[w].token.session \in Sessions
    BY DEF StillCurrent, Matches, LiveSessions
  <2>2. job' \in [Workers -> Jobs]
    BY <1>12, <2>1, AnswerType, RefuseType, TokenType DEF Rotate
  <2>3. session' \in [Sessions -> SessionRows]
    BY <1>12, <2>1 DEF Rotate, TypeOK, SessionRows
  <2>4. StillCurrent(job[w].token) => job[w].token.issued \in Times
    BY <2>1 DEF StillCurrent, Matches, TypeOK, SessionRows
  <2>5. exchanged' \subseteq [session : Sessions, from : Times, to : Times]
    BY <1>12, <2>1, <2>4 DEF Rotate, TypeOK
  <2> QED
    BY <1>12, <2>2, <2>3, <2>5 DEF Rotate, TypeOK
<1>13. ASSUME NEW w \in Workers, Touch(w)
       PROVE  TypeOK'
  <2>1. job[w].token \in Cookie /\ job[w].token # None
    BY <1>13 DEF Touch, TypeOK, Jobs, JobsSound, JobSound
  <2>2. Token(job[w].token.session) \in Cookie
    BY <2>1, CookieIsToken, TokenType
  <2>3. job' \in [Workers -> Jobs]
    BY <1>13, <2>2, AnswerType DEF Touch, Cookie
  <2> QED
    BY <1>13, <2>3 DEF Touch, TypeOK
<1>14. ASSUME NEW w \in Workers, Delete(w)
       PROVE  TypeOK'
  <2>1. job' \in [Workers -> Jobs]
    BY <1>14, AnswerType DEF Delete, Cookie
  <2>2. user' \in [Users -> States]
    BY <1>14 DEF Delete, TypeOK, States
  <2>3. account' \in [Accounts -> AccountRows]
    <3>1. [state |-> "gone", user |-> None, identity |-> None] \in AccountRows
      BY DEF AccountRows, States
    <3>2. CASE Deletable(w)
      BY <1>14, <3>1, <3>2 DEF Delete, TypeOK
    <3>3. CASE ~Deletable(w)
      BY <1>14, <3>3 DEF Delete, TypeOK
    <3> QED
      BY <3>2, <3>3
  <2>4. session' \in [Sessions -> SessionRows]
    <3>1. \A s \in Sessions :
            [session[s] EXCEPT !.state = "gone", !.account = None] \in SessionRows
      <4> TAKE s \in Sessions
      <4>1. session[s] \in SessionRows
        BY DEF TypeOK
      <4> QED
        BY <4>1 DEF SessionRows, States
    <3>2. CASE Deletable(w)
      <4>1. session' = [s \in Sessions |->
              IF s \in job[w].doomed
              THEN [session[s] EXCEPT !.state = "gone", !.account = None]
              ELSE session[s]]
        BY <1>14, <3>2 DEF Delete
      <4>2. \A s \in Sessions : session[s] \in SessionRows
        BY DEF TypeOK
      <4> QED
        BY <3>1, <4>1, <4>2
    <3>3. CASE ~Deletable(w)
      BY <1>14, <3>3 DEF Delete, TypeOK
    <3> QED
      BY <3>2, <3>3
  <2> QED
    BY <1>14, <2>1, <2>2, <2>3, <2>4 DEF Delete, TypeOK
<1>15. ASSUME NEW w \in Workers, Reply(w)
       PROVE  TypeOK'
  <2>1. job' \in [Workers -> Jobs]
    BY <1>15, IdleType, GotoType DEF Reply, TypeOK
  <2>2. \A b \in Browsers : jar[b] \in Jars
    BY DEF TypeOK
  <2>3. \A b \in Browsers :
          [access  |-> IF job[w].access = None THEN jar[b].access ELSE job[w].access,
           refresh |-> IF job[w].refresh = None THEN jar[b].refresh ELSE job[w].refresh,
           oauth   |-> IF job[w].nonce = None THEN jar[b].oauth ELSE None] \in Jars
    BY <2>2 DEF TypeOK, Jobs, Jars
  <2>4. jar' \in [Browsers -> Jars]
    BY <1>15, <2>3 DEF Reply, TypeOK
  <2> QED
    BY <1>15, <2>1, <2>4 DEF Reply, TypeOK
<1>16. ASSUME NEW w \in Workers, ReplyClear(w)
       PROVE  TypeOK'
  <2>1. job' \in [Workers -> Jobs]
    BY <1>16, IdleType, GotoType DEF ReplyClear, TypeOK
  <2>2. jar' \in [Browsers -> Jars]
    BY <1>16 DEF ReplyClear, TypeOK, Jars, Cookie
  <2> QED
    BY <1>16, <2>1, <2>2 DEF ReplyClear, TypeOK
<1>17. ASSUME NEW w \in Workers, Stop(w)
       PROVE  TypeOK'
  BY <1>17, IdleType, GotoType DEF Stop, TypeOK
<1>18. CASE Tick
  <2>1. now' \in Times
    BY <1>18 DEF Tick, TypeOK, Times
  <2>2. jar' \in [Browsers -> Jars]
    BY <1>18 DEF Tick, TypeOK, Jars, Cookie
  <2> QED
    BY <1>18, <2>1, <2>2 DEF Tick, TypeOK
<1>19. CASE UNCHANGED vars
  BY <1>19 DEF vars, TypeOK
<1> QED
  BY <1>1, <1>2, <1>3, <1>4, <1>5, <1>6, <1>7, <1>8, <1>9, <1>10, <1>11, <1>12,
     <1>13, <1>14, <1>15, <1>16, <1>17, <1>18, <1>19 DEF Next

-----------------------------------------------------------------------------
(* What no step undoes.                                                    *)

Stable ==
  /\ \A s \in Sessions : session[s].state # "new" =>
       session'[s].state # "new" /\ session'[s].user = session[s].user
  /\ \A a \in Accounts : account[a].state # "new" =>
       /\ account'[a].state # "new"
       /\ account'[a].state = "row" => account'[a] = account[a]
  /\ \A n \in Nonces : flow[n] # None => flow'[n] = flow[n]
  /\ now' \in Nat /\ now <= now'

LEMMA StepStable == TypeOK /\ [Next]_vars => Stable
<1> SUFFICES ASSUME TypeOK, [Next]_vars
             PROVE  Stable
  OBVIOUS
<1> USE DEF rows, oauth
<1>1. ASSUME NEW b \in Browsers, NEW n \in Nonces, NEW link \in BOOLEAN,
             StartFlow(b, n, link)
      PROVE  Stable
  BY <1>1 DEF StartFlow, Stable, TypeOK, Times
<1>2. ASSUME NEW w \in Workers, NEW b \in Browsers, NEW n \in Nonces,
             Callback(w, b, n)
      PROVE  Stable
  BY <1>2 DEF Callback, Stable, TypeOK, Times
<1>3. ASSUME NEW w \in Workers, NEW b \in Browsers, NEW a \in Accounts,
             Switch(w, b, a)
      PROVE  Stable
  BY <1>3 DEF Switch, Stable, TypeOK, Times
<1>4. ASSUME NEW w \in Workers, NEW b \in Browsers,
             ReadSession(w, b)
      PROVE  Stable
  BY <1>4 DEF ReadSession, Stable, TypeOK, Times
<1>5. ASSUME NEW w \in Workers, NEW b \in Browsers,
             Logout(w, b)
      PROVE  Stable
  BY <1>5 DEF Logout, Stable, TypeOK, Times, LiveSessions
<1>6. ASSUME NEW w \in Workers, NEW b \in Browsers,
             BeginDelete(w, b)
      PROVE  Stable
  BY <1>6 DEF BeginDelete, Stable, TypeOK, Times
<1>7. ASSUME NEW w \in Workers,
             Consume(w)
      PROVE  Stable
  <2>1. UNCHANGED <<now, account, session, flow>>
    BY <1>7 DEF Consume
  <2> QED
    BY <2>1 DEF Stable, TypeOK, Times
<1>8. ASSUME NEW w \in Workers,
             FindAccount(w)
      PROVE  Stable
  <2>1. UNCHANGED <<now, account, session, flow>>
    BY <1>8 DEF FindAccount
  <2> QED
    BY <2>1 DEF Stable, TypeOK, Times
<1>9. ASSUME NEW w \in Workers,
             FindEmail(w)
      PROVE  Stable
  BY <1>9 DEF FindEmail, Stable, TypeOK, Times
<1>10. ASSUME NEW w \in Workers,
             Create(w)
      PROVE  Stable
  <2>1. UNCHANGED <<now, session, flow>>
    BY <1>10 DEF Create
  <2>2. \/ UNCHANGED account
        \/ \E a \in Accounts, u \in Users : AddAccount(w, a, u)
    BY <1>10 DEF Create, LiveUsers
  <2>3. \A a \in Accounts : account[a].state # "new" => account'[a] = account[a]
    BY <2>2 DEF AddAccount, TypeOK
  <2> QED
    BY <2>1, <2>3 DEF Stable, TypeOK, Times
<1>11. ASSUME NEW w \in Workers,
             Issue(w)
      PROVE  Stable
  BY <1>11 DEF Issue, Stable, TypeOK, Times
<1>12. ASSUME NEW w \in Workers,
             Rotate(w)
      PROVE  Stable
  <2>1. UNCHANGED <<now, account, flow>>
    BY <1>12 DEF Rotate
  <2>2. \/ UNCHANGED session
        \/ \E s \in Sessions : session' = [session EXCEPT ![s].issued = now]
    BY <1>12 DEF Rotate, StillCurrent, Matches, LiveSessions
  <2>3. \A s \in Sessions : /\ session'[s].state = session[s].state
                            /\ session'[s].user = session[s].user
    BY <2>2 DEF TypeOK, SessionRows
  <2> QED
    BY <2>1, <2>3 DEF Stable, TypeOK, Times
<1>13. ASSUME NEW w \in Workers,
             Touch(w)
      PROVE  Stable
  BY <1>13 DEF Touch, Stable, TypeOK, Times
<1>14. ASSUME NEW w \in Workers,
             Delete(w)
      PROVE  Stable
  <2>1. UNCHANGED <<now, flow>>
    BY <1>14 DEF Delete
  <2>2. CASE Deletable(w)
    <3>1. account' = [a \in Accounts |->
            IF a \in LiveAccounts /\ account[a].user = job[w].user
            THEN [state |-> "gone", user |-> None, identity |-> None]
            ELSE account[a]]
      BY <1>14, <2>2 DEF Delete
    <3>2. session' = [s \in Sessions |->
            IF s \in job[w].doomed
            THEN [session[s] EXCEPT !.state = "gone", !.account = None]
            ELSE session[s]]
      BY <1>14, <2>2 DEF Delete
    <3>3. \A s \in Sessions : /\ session'[s].state \in {session[s].state, "gone"}
                              /\ session'[s].user = session[s].user
      <4> TAKE s \in Sessions
      <4>1. session[s] \in SessionRows
        BY DEF TypeOK
      <4> QED
        BY <3>2, <4>1 DEF SessionRows
    <3>4. \A a \in Accounts : \/ account'[a] = account[a]
                              \/ account'[a].state = "gone"
      BY <3>1
    <3> QED
      BY <2>1, <3>3, <3>4 DEF Stable, TypeOK, Times
  <2>3. CASE ~Deletable(w)
    <3>1. UNCHANGED <<account, session>>
      BY <1>14, <2>3 DEF Delete
    <3> QED
      BY <2>1, <3>1 DEF Stable, TypeOK, Times
  <2> QED
    BY <2>2, <2>3
<1>15. ASSUME NEW w \in Workers,
             Reply(w)
      PROVE  Stable
  BY <1>15 DEF Reply, Stable, TypeOK, Times
<1>16. ASSUME NEW w \in Workers,
             ReplyClear(w)
      PROVE  Stable
  BY <1>16 DEF ReplyClear, Stable, TypeOK, Times
<1>17. ASSUME NEW w \in Workers,
             Stop(w)
      PROVE  Stable
  BY <1>17 DEF Stop, Stable, TypeOK, Times
<1>18. CASE Tick
  BY <1>18 DEF Tick, Stable, TypeOK, Times
<1>19. CASE UNCHANGED vars
  BY <1>19 DEF vars, Stable, TypeOK, Times
<1> QED
  BY <1>1, <1>2, <1>3, <1>4, <1>5, <1>6, <1>7, <1>8, <1>9, <1>10, <1>11,
     <1>12, <1>13, <1>14, <1>15, <1>16, <1>17, <1>18, <1>19 DEF Next

-----------------------------------------------------------------------------
(* Tokens and jobs.  JobInv is what the invariant says of one job, in the  *)
(* state it names: a job that no step moves keeps it.                      *)

TokenIn(t, sess) == t = None \/ sess[t.session].state # "new"

SoundIn(j, acc, flw, at) ==
  /\ j.step # "idle" => j.browser # None
  /\ j.step = "issue" => /\ j.account # None
                         /\ acc[j.account].state # "new"
                         /\ acc[j.account].state = "row" =>
                              acc[j.account].user = j.user
  /\ j.step \in {"rotate", "touch"} => j.token # None
  /\ j.step = "rotate" => j.token.issued < at
  /\ j.step \in {"consume", "account", "email", "create"} =>
       /\ j.nonce # None /\ flw[j.nonce] # None
       /\ j.user = flw[j.nonce].user
  /\ j.step \in {"account", "email", "create"} => j.identity # None
  /\ j.step = "email" => j.user = None

LinkIn(j, sess, flw) ==
  j.step \in {"consume", "account", "create"} /\ j.user # None =>
    /\ j.token # None
    /\ j.token.session = flw[j.nonce].session
    /\ sess[j.token.session].user = j.user

JobInv(j, sess, acc, flw, at) ==
  /\ TokenIn(j.access, sess) /\ TokenIn(j.refresh, sess) /\ TokenIn(j.token, sess)
  /\ SoundIn(j, acc, flw, at) /\ LinkIn(j, sess, flw)

JarInv(c, sess) == TokenIn(c.access, sess) /\ TokenIn(c.refresh, sess)

JobsInv == /\ \A b \in Browsers : JarInv(jar[b], session)
           /\ \A w \in Workers : JobInv(job[w], session, account, flow, now)

LEMMA JobsInvIs == TypeOK => (JobsInv <=> TokensReal /\ JobsSound /\ LinksSound)
<1> SUFFICES ASSUME TypeOK
             PROVE  JobsInv <=> TokensReal /\ JobsSound /\ LinksSound
  OBVIOUS
<1>1. \A w \in Workers : job[w] \in Jobs
  BY DEF TypeOK
<1>2. \A w \in Workers : JobSound(job[w]) <=> SoundIn(job[w], account, flow, now)
  BY <1>1 DEF JobSound, SoundIn, LiveAccounts, Jobs
<1>3. \A w \in Workers : LinkSound(job[w]) <=> LinkIn(job[w], session, flow)
  BY DEF LinkSound, LinkIn, UserOf
<1> QED
  BY <1>2, <1>3 DEF JobsInv, JobInv, JarInv, TokenIn, TokensReal, NotNew,
                    JobsSound, LinksSound

LEMMA TokenStays ==
  ASSUME Stable, NEW t \in Cookie, TokenIn(t, session)
  PROVE  TokenIn(t, session')
BY CookieIsToken DEF Stable, TokenIn

LEMMA JobStays ==
  ASSUME TypeOK, Stable, NEW j \in Jobs, JobInv(j, session, account, flow, now)
  PROVE  JobInv(j, session', account', flow', now')
<1>1. /\ j.access \in Cookie /\ j.refresh \in Cookie /\ j.token \in Cookie
      /\ j.account \in Accounts \cup {None} /\ j.nonce \in Nonces \cup {None}
      /\ j.user \in Users \cup {None}
  BY DEF Jobs
<1>2. /\ TokenIn(j.access, session') /\ TokenIn(j.refresh, session')
      /\ TokenIn(j.token, session')
  BY <1>1, TokenStays DEF JobInv
<1>3. j.token # None => /\ j.token.session \in Sessions /\ j.token.issued \in Times
                        /\ session'[j.token.session].user = session[j.token.session].user
  BY <1>1, CookieIsToken DEF JobInv, TokenIn, Stable
<1>4. SoundIn(j, account', flow', now')
  <2>1. SoundIn(j, account, flow, now)
    BY DEF JobInv
  <2>2. j.step = "issue" => /\ account'[j.account].state # "new"
                            /\ account'[j.account].state = "row" =>
                                 account'[j.account].user = j.user
    BY <1>1, <2>1 DEF SoundIn, Stable
  <2>3. j.step = "rotate" => j.token.issued < now'
    BY <1>3, <2>1 DEF SoundIn, Stable, TypeOK, Times
  <2>4. j.step \in {"consume", "account", "email", "create"} =>
          flow'[j.nonce] # None /\ j.user = flow'[j.nonce].user
    BY <1>1, <2>1 DEF SoundIn, Stable
  <2> QED
    BY <2>1, <2>2, <2>3, <2>4 DEF SoundIn
<1>5. LinkIn(j, session', flow')
  <2>1. SoundIn(j, account, flow, now) /\ LinkIn(j, session, flow)
    BY DEF JobInv
  <2>2. j.step \in {"consume", "account", "create"} => flow'[j.nonce] = flow[j.nonce]
    BY <1>1, <2>1 DEF SoundIn, Stable
  <2> QED
    BY <1>3, <2>1, <2>2 DEF LinkIn
<1> QED
  BY <1>2, <1>4, <1>5 DEF JobInv

LEMMA JobMoves ==
  ASSUME TypeOK, JobsInv, Stable, NEW w \in Workers,
         job' = [job EXCEPT ![w] = job'[w]],
         JobInv(job'[w], session', account', flow', now')
  PROVE  \A v \in Workers : JobInv(job'[v], session', account', flow', now')
<1> TAKE v \in Workers
<1>1. CASE v = w
  BY <1>1
<1>2. CASE v # w
  <2>1. job'[v] = job[v] /\ job[v] \in Jobs
    BY <1>2 DEF TypeOK
  <2> QED
    BY <2>1, JobStays DEF JobsInv
<1> QED
  BY <1>1, <1>2

LEMMA JarsStay ==
  ASSUME TypeOK, JobsInv, Stable, UNCHANGED jar
  PROVE  \A b \in Browsers : JarInv(jar'[b], session')
BY TokenStays DEF TypeOK, Jars, JobsInv, JarInv

LEMMA IdleInv == JobInv(Idle, session', account', flow', now')
BY DEF Idle, JobInv, TokenIn, SoundIn, LinkIn

LEMMA AnswerInv ==
  ASSUME TypeOK, JobsInv, Stable, NEW w \in Workers, job[w].step # "idle",
         NEW x \in Cookie, NEW y \in Cookie,
         TokenIn(x, session'), TokenIn(y, session'), Answer(w, x, y)
  PROVE  \A v \in Workers : JobInv(job'[v], session', account', flow', now')
<1>1. job[w].browser # None
  BY DEF JobsInv, JobInv, SoundIn
<1>2. job'[w] = [Idle EXCEPT !.step = "reply", !.browser = job[w].browser,
                             !.nonce = job[w].nonce, !.access = x, !.refresh = y]
  BY DEF Answer, Goto, TypeOK
<1>3. JobInv(job'[w], session', account', flow', now')
  BY <1>1, <1>2 DEF Idle, JobInv, TokenIn, SoundIn, LinkIn
<1> QED
  BY <1>2, <1>3, JobMoves DEF Answer, Goto

LEMMA RefuseInv ==
  ASSUME TypeOK, JobsInv, Stable, NEW w \in Workers, job[w].step # "idle", Refuse(w)
  PROVE  \A v \in Workers : JobInv(job'[v], session', account', flow', now')
BY AnswerInv DEF Refuse, Cookie, TokenIn

LEMMA JobsStep == TypeOK /\ JobsInv /\ [Next]_vars => JobsInv'
<1> SUFFICES ASSUME TypeOK, JobsInv, [Next]_vars
             PROVE  /\ \A b \in Browsers : JarInv(jar'[b], session')
                    /\ \A v \in Workers : JobInv(job'[v], session', account', flow', now')
  BY DEF JobsInv
<1> DEFINE JarsOK == \A b \in Browsers : JarInv(jar'[b], session')
           JobsOK == \A v \in Workers : JobInv(job'[v], session', account', flow', now')
<1> USE StepStable DEF rows, oauth
<1>0. /\ \A b \in Browsers : jar[b] \in Jars /\ JarInv(jar[b], session)
      /\ \A v \in Workers : /\ job[v] \in Jobs
                            /\ JobInv(job[v], session, account, flow, now)
  BY DEF TypeOK, JobsInv
<1>s. ASSUME UNCHANGED job PROVE JobsOK
  BY <1>0, <1>s, JobStays
<1>1. ASSUME NEW b \in Browsers, NEW n \in Nonces, NEW link \in BOOLEAN,
             StartFlow(b, n, link)
      PROVE  JarsOK /\ JobsOK
  <2>1. \A c \in Browsers : /\ jar'[c].access = jar[c].access
                            /\ jar'[c].refresh = jar[c].refresh
    BY <1>1 DEF StartFlow, TypeOK, Jars
  <2>2. JarsOK
    BY <1>0, <2>1, TokenStays DEF JarInv, Jars
  <2> QED
    BY <1>1, <1>s, <2>2 DEF StartFlow
<1>2. ASSUME NEW w \in Workers, NEW b \in Browsers, NEW n \in Nonces,
             Callback(w, b, n)
      PROVE  JarsOK /\ JobsOK
  <2> DEFINE t == IF flow[n].user = None THEN None ELSE jar[b].access
             x == [Idle EXCEPT !.step = "consume", !.browser = b, !.nonce = n,
                               !.user = flow[n].user, !.token = t]
  <2>1. t \in Cookie /\ TokenIn(t, session')
    BY <1>0, TokenStays DEF Jars, JarInv, TokenIn, Cookie
  <2>2. job' = [job EXCEPT ![w] = x] /\ flow' = flow /\ session' = session
    BY <1>2 DEF Callback, Goto
  <2>3. flow[n] # None
    BY <1>2 DEF Callback
  <2>4. flow[n].user # None => /\ t # None /\ t.session = flow[n].session
                               /\ session'[t.session].user = flow[n].user
    BY <1>2, <2>2 DEF Callback, SameSession, AccessValid, ValidAt, UserOf
  <2> HIDE DEF t
  <2>5. x.access = None /\ x.refresh = None /\ x.token = t /\ x.step = "consume"
        /\ x.user = flow[n].user /\ x.nonce = n /\ x.browser = b
    BY DEF Idle
  <2> HIDE DEF x
  <2>6. SoundIn(x, account', flow', now')
    BY <2>2, <2>3, <2>5 DEF SoundIn
  <2>7. LinkIn(x, session', flow')
    BY <2>2, <2>4, <2>5 DEF LinkIn
  <2>8. JobInv(x, session', account', flow', now')
    BY <2>1, <2>5, <2>6, <2>7 DEF JobInv, TokenIn
  <2>9. JobsOK
    BY <2>2, <2>8, JobMoves DEF TypeOK
  <2> QED
    BY <1>2, <2>9, JarsStay DEF Callback
<1>3. ASSUME NEW w \in Workers, NEW b \in Browsers, NEW a \in Accounts,
             Switch(w, b, a)
      PROVE  JarsOK /\ JobsOK
  <2> DEFINE x == [Idle EXCEPT !.step = "issue", !.browser = b, !.account = a,
                               !.user = account[a].user]
  <2>1. job' = [job EXCEPT ![w] = x] /\ account' = account
    BY <1>3 DEF Switch, Goto
  <2>2. account[a].state = "row"
    BY <1>3 DEF Switch, LiveAccounts
  <2>3. JobInv(x, session', account', flow', now')
    BY <2>1, <2>2 DEF Idle, JobInv, TokenIn, SoundIn, LinkIn
  <2> HIDE DEF x
  <2>4. JobsOK
    BY <2>1, <2>3, JobMoves DEF TypeOK
  <2> QED
    BY <1>3, <2>4, JarsStay DEF Switch
<1>4. ASSUME NEW w \in Workers, NEW b \in Browsers, ReadSession(w, b)
      PROVE  JarsOK /\ JobsOK
  <2> DEFINE t == jar[b].refresh
             st == IF t.issued + Life - now <= Threshold THEN "rotate" ELSE "touch"
             x == [Idle EXCEPT !.step = st, !.browser = b, !.token = t]
  <2>1. job' = [job EXCEPT ![w] = x] /\ UNCHANGED <<now, session>>
    BY <1>4 DEF ReadSession, Goto
  <2>2. t # None /\ t \in Cookie /\ TokenIn(t, session')
    BY <1>0, <1>4, <2>1 DEF ReadSession, RefreshValid, ValidAt, Jars, JarInv
  <2>3. st = "rotate" => t.issued < now'
    <3>1. t.issued \in Nat /\ now \in Nat /\ Life \in Nat /\ Threshold \in Nat
      BY <2>2, CookieIsToken DEF TypeOK, Times
    <3> QED
      BY <2>1, <3>1
  <2>4. st \in {"rotate", "touch"}
    OBVIOUS
  <2> HIDE DEF t, st
  <2>5. JobInv(x, session', account', flow', now')
    BY <2>2, <2>3, <2>4 DEF Idle, JobInv, TokenIn, SoundIn, LinkIn
  <2> HIDE DEF x
  <2>6. JobsOK
    BY <2>1, <2>5, JobMoves DEF TypeOK
  <2> QED
    BY <1>4, <2>6, JarsStay DEF ReadSession
<1>5. ASSUME NEW w \in Workers, NEW b \in Browsers, Logout(w, b)
      PROVE  JarsOK /\ JobsOK
  <2> DEFINE x == [Idle EXCEPT !.step = "clear", !.browser = b]
  <2>1. job' = [job EXCEPT ![w] = x]
    BY <1>5 DEF Logout, Goto
  <2>2. JobInv(x, session', account', flow', now')
    BY DEF Idle, JobInv, TokenIn, SoundIn, LinkIn
  <2> HIDE DEF x
  <2>3. JobsOK
    BY <2>1, <2>2, JobMoves DEF TypeOK
  <2> QED
    BY <1>5, <2>3, JarsStay DEF Logout
<1>6. ASSUME NEW w \in Workers, NEW b \in Browsers, BeginDelete(w, b)
      PROVE  JarsOK /\ JobsOK
  <2> DEFINE u == UserOf(jar[b].access)
             x == [Idle EXCEPT !.step = "delete", !.browser = b, !.user = u,
                               !.doomed = SessionsOf(u)]
  <2>1. job' = [job EXCEPT ![w] = x]
    BY <1>6 DEF BeginDelete, Goto
  <2>2. JobInv(x, session', account', flow', now')
    BY DEF Idle, JobInv, TokenIn, SoundIn, LinkIn
  <2> HIDE DEF x
  <2>3. JobsOK
    BY <2>1, <2>2, JobMoves DEF TypeOK
  <2> QED
    BY <1>6, <2>3, JarsStay DEF BeginDelete
<1>7. ASSUME NEW w \in Workers, Consume(w)
      PROVE  JarsOK /\ JobsOK
  <2>1. job[w].step = "consume" /\ UNCHANGED <<now, session, account, flow, jar>>
    BY <1>7 DEF Consume
  <2>2. CASE Consumed(job[w].nonce)
    <3>1. PICK i \in Identities :
            job' = [job EXCEPT ![w] = [@ EXCEPT !.step = "account", !.identity = i]]
      BY <1>7, <2>2 DEF Consume, Goto
    <3> DEFINE x == [job[w] EXCEPT !.step = "account", !.identity = i]
    <3>2. /\ x.step = "account" /\ x.identity # None
          /\ x.access = job[w].access /\ x.refresh = job[w].refresh
          /\ x.token = job[w].token /\ x.browser = job[w].browser
          /\ x.user = job[w].user /\ x.nonce = job[w].nonce
      BY <1>0 DEF Jobs
    <3>3. job' = [job EXCEPT ![w] = x]
      BY <3>1
    <3> HIDE DEF x
    <3>4. JobInv(x, session', account', flow', now')
      BY <1>0, <2>1, <3>2 DEF JobInv, TokenIn, SoundIn, LinkIn
    <3>5. JobsOK
      BY <3>3, <3>4, JobMoves DEF TypeOK
    <3> QED
      BY <2>1, <3>5, JarsStay
  <2>3. CASE ~Consumed(job[w].nonce)
    <3>1. job' = [job EXCEPT ![w] = Idle]
      BY <1>7, <2>3 DEF Consume, Goto
    <3>2. JobsOK
      BY <3>1, IdleInv, JobMoves DEF TypeOK
    <3> QED
      BY <2>1, <3>2, JarsStay
  <2> QED
    BY <2>2, <2>3
<1>8. ASSUME NEW w \in Workers, FindAccount(w)
      PROVE  JarsOK /\ JobsOK
  <2>1. job[w].step = "account" /\ UNCHANGED <<now, session, account, flow, jar>>
    BY <1>8 DEF FindAccount
  <2>2. ASSUME NEW a \in AccountsWith(job[w].identity),
               Goto(w, [job[w] EXCEPT !.step = "issue", !.account = a,
                                      !.user = account[a].user])
        PROVE  JobsOK
    <3> DEFINE x == [job[w] EXCEPT !.step = "issue", !.account = a,
                                   !.user = account[a].user]
    <3>1. /\ x.step = "issue" /\ x.account = a /\ x.user = account[a].user
          /\ x.access = job[w].access /\ x.refresh = job[w].refresh
          /\ x.token = job[w].token /\ x.browser = job[w].browser
      BY <1>0 DEF Jobs
    <3>2. a \in Accounts /\ account[a].state = "row"
      BY DEF AccountsWith, LiveAccounts
    <3>3. job' = [job EXCEPT ![w] = x]
      BY <2>2 DEF Goto
    <3> HIDE DEF x
    <3>4. JobInv(x, session', account', flow', now')
      BY <1>0, <2>1, <3>1, <3>2 DEF JobInv, TokenIn, SoundIn, LinkIn
    <3> QED
      BY <3>3, <3>4, JobMoves DEF TypeOK
  <2>3. ASSUME NEW st \in {"email", "create"}, st = "email" => job[w].user = None,
               Goto(w, [job[w] EXCEPT !.step = st])
        PROVE  JobsOK
    <3> DEFINE x == [job[w] EXCEPT !.step = st]
    <3>1. /\ x.step = st /\ x.account = job[w].account /\ x.user = job[w].user
          /\ x.access = job[w].access /\ x.refresh = job[w].refresh
          /\ x.token = job[w].token /\ x.browser = job[w].browser
          /\ x.nonce = job[w].nonce /\ x.identity = job[w].identity
      BY <1>0 DEF Jobs
    <3>2. job' = [job EXCEPT ![w] = x]
      BY <2>3 DEF Goto
    <3> HIDE DEF x
    <3>3. JobInv(x, session', account', flow', now')
      BY <1>0, <2>1, <2>3, <3>1 DEF JobInv, TokenIn, SoundIn, LinkIn
    <3> QED
      BY <3>2, <3>3, JobMoves DEF TypeOK
  <2>4. JobsOK
    <3>1. CASE Refuse(w)
      BY <2>1, <3>1, RefuseInv
    <3>2. CASE \E a \in AccountsWith(job[w].identity) :
                 Goto(w, [job[w] EXCEPT !.step = "issue", !.account = a,
                                        !.user = account[a].user])
      BY <3>2, <2>2
    <3>3. CASE job[w].user = None /\ Goto(w, [job[w] EXCEPT !.step = "email"])
      BY <3>3, <2>3
    <3>4. CASE job[w].user \in LiveUsers /\ Goto(w, [job[w] EXCEPT !.step = "create"])
      BY <3>4, <2>3 DEF LiveUsers
    <3> QED
      BY <1>8, <3>1, <3>2, <3>3, <3>4 DEF FindAccount
  <2> QED
    BY <2>1, <2>4, JarsStay
<1>9. ASSUME NEW w \in Workers, FindEmail(w)
      PROVE  JarsOK /\ JobsOK
  <2>1. job[w].step = "email" /\ UNCHANGED <<now, session, account, flow, jar>>
    BY <1>9 DEF FindEmail
  <2>2. CASE Refuse(w)
    BY <2>1, <2>2, RefuseInv, JarsStay
  <2>3. CASE Goto(w, [job[w] EXCEPT !.step = "create"])
    <3> DEFINE x == [job[w] EXCEPT !.step = "create"]
    <3>1. /\ x.step = "create" /\ x.account = job[w].account /\ x.user = job[w].user
          /\ x.access = job[w].access /\ x.refresh = job[w].refresh
          /\ x.token = job[w].token /\ x.browser = job[w].browser
          /\ x.nonce = job[w].nonce /\ x.identity = job[w].identity
      BY <1>0 DEF Jobs
    <3>2. job' = [job EXCEPT ![w] = x]
      BY <2>3 DEF Goto
    <3>3. job[w].user = None
      BY <1>0, <2>1 DEF JobInv, SoundIn
    <3> HIDE DEF x
    <3>4. JobInv(x, session', account', flow', now')
      BY <1>0, <2>1, <3>1, <3>3 DEF JobInv, TokenIn, SoundIn, LinkIn
    <3>5. JobsOK
      BY <3>2, <3>4, JobMoves DEF TypeOK
    <3> QED
      BY <2>1, <3>5, JarsStay
  <2> QED
    BY <1>9, <2>2, <2>3 DEF FindEmail
<1>10. ASSUME NEW w \in Workers, Create(w)
       PROVE  JarsOK /\ JobsOK
  <2>1. job[w].step = "create" /\ UNCHANGED <<now, session, flow, jar>>
    BY <1>10 DEF Create
  <2>2. CASE Refuse(w)
    BY <2>1, <2>2, RefuseInv, JarsStay
  <2>3. ASSUME NEW a \in Accounts, NEW u \in Users, AddAccount(w, a, u)
        PROVE  JarsOK /\ JobsOK
    <3> DEFINE x == [job[w] EXCEPT !.step = "issue", !.account = a, !.user = u,
                                   !.identity = None, !.token = None]
    <3>1. /\ x.step = "issue" /\ x.account = a /\ x.user = u
          /\ x.access = job[w].access /\ x.refresh = job[w].refresh
          /\ x.token = None /\ x.browser = job[w].browser
      BY <1>0 DEF Jobs
    <3>2. job' = [job EXCEPT ![w] = x]
      BY <2>3 DEF AddAccount, Goto
    <3>3. account'[a].state = "row" /\ account'[a].user = u
      BY <2>3 DEF AddAccount, TypeOK
    <3> HIDE DEF x
    <3>4. JobInv(x, session', account', flow', now')
      BY <1>0, <2>1, <3>1, <3>3 DEF JobInv, TokenIn, SoundIn, LinkIn
    <3>5. JobsOK
      BY <3>2, <3>4, JobMoves DEF TypeOK
    <3> QED
      BY <2>1, <3>5, JarsStay
  <2> QED
    BY <1>10, <2>2, <2>3 DEF Create, LiveUsers
<1>11. ASSUME NEW w \in Workers, Issue(w)
       PROVE  JarsOK /\ JobsOK
  <2>1. job[w].step = "issue" /\ UNCHANGED jar
    BY <1>11 DEF Issue
  <2>2. CASE Refuse(w)
    BY <2>1, <2>2, RefuseInv, JarsStay
  <2>3. ASSUME NEW s \in Sessions, Answer(w, Token(s), Token(s)),
               session' = [session EXCEPT ![s] =
                  [state |-> "row", user |-> job[w].user, account |-> job[w].account,
                   issued |-> now, revoked |-> FALSE]]
        PROVE  JobsOK
    <3>1. TokenIn(Token(s), session') /\ Token(s) \in Cookie
      BY <2>3, TokenType DEF TokenIn, Token, TypeOK
    <3> QED
      BY <2>1, <2>3, <3>1, AnswerInv
  <2> QED
    BY <1>11, <2>1, <2>2, <2>3, JarsStay DEF Issue
<1>12. ASSUME NEW w \in Workers, Rotate(w)
       PROVE  JarsOK /\ JobsOK
  <2>1. job[w].step = "rotate" /\ UNCHANGED jar
    BY <1>12 DEF Rotate
  <2>2. CASE Refuse(w)
    BY <2>1, <2>2, RefuseInv, JarsStay
  <2>3. CASE StillCurrent(job[w].token)
    <3> DEFINE s == job[w].token.session
    <3>1. s \in Sessions /\ session[s].state = "row"
      BY <2>3 DEF StillCurrent, Matches, LiveSessions
    <3>2. session'[s].state # "new"
      BY <3>1 DEF Stable
    <3>3. TokenIn(Token(s), session') /\ Token(s) \in Cookie
      BY <3>1, <3>2, TokenType DEF TokenIn, Token
    <3>4. Answer(w, Token(s), Token(s))
      BY <1>12, <2>3 DEF Rotate
    <3> HIDE DEF s
    <3>5. JobsOK
      BY <2>1, <3>3, <3>4, AnswerInv
    <3> QED
      BY <2>1, <3>5, JarsStay
  <2> QED
    BY <1>12, <2>2, <2>3 DEF Rotate
<1>13. ASSUME NEW w \in Workers, Touch(w)
       PROVE  JarsOK /\ JobsOK
  <2> DEFINE s == job[w].token.session
  <2>1. job[w].step = "touch" /\ UNCHANGED <<jar, session>>
    BY <1>13 DEF Touch
  <2>2. job[w].token # None /\ job[w].token \in Cookie /\ TokenIn(job[w].token, session)
    BY <1>0, <2>1 DEF JobInv, SoundIn, Jobs
  <2>3. TokenIn(Token(s), session') /\ Token(s) \in Cookie
    BY <2>1, <2>2, CookieIsToken, TokenType DEF TokenIn, Token
  <2>4. Answer(w, Token(s), None)
    BY <1>13 DEF Touch
  <2> HIDE DEF s
  <2>5. JobsOK
    BY <2>1, <2>3, <2>4, AnswerInv DEF Cookie, TokenIn
  <2> QED
    BY <2>1, <2>5, JarsStay
<1>14. ASSUME NEW w \in Workers, Delete(w)
       PROVE  JarsOK /\ JobsOK
  <2>1. job[w].step = "delete" /\ Answer(w, None, None) /\ UNCHANGED jar
    BY <1>14 DEF Delete
  <2>2. JobsOK
    BY <2>1, AnswerInv DEF Cookie, TokenIn
  <2> QED
    BY <2>1, <2>2, JarsStay
<1>15. ASSUME NEW w \in Workers, Reply(w)
       PROVE  JarsOK /\ JobsOK
  <2>1. job' = [job EXCEPT ![w] = Idle] /\ session' = session
    BY <1>15 DEF Reply, Goto
  <2>2. JobsOK
    BY <2>1, IdleInv, JobMoves DEF TypeOK
  <2>3. \A b \in Browsers : /\ jar'[b].access \in {jar[b].access, job[w].access}
                            /\ jar'[b].refresh \in {jar[b].refresh, job[w].refresh}
    BY <1>15 DEF Reply, TypeOK
  <2>4. JarsOK
    BY <1>0, <2>1, <2>3 DEF JarInv, JobInv
  <2> QED
    BY <2>2, <2>4
<1>16. ASSUME NEW w \in Workers, ReplyClear(w)
       PROVE  JarsOK /\ JobsOK
  <2>1. job' = [job EXCEPT ![w] = Idle] /\ session' = session
    BY <1>16 DEF ReplyClear, Goto
  <2>2. JobsOK
    BY <2>1, IdleInv, JobMoves DEF TypeOK
  <2>3. \A b \in Browsers : /\ jar'[b].access \in {jar[b].access, None}
                            /\ jar'[b].refresh \in {jar[b].refresh, None}
    BY <1>16 DEF ReplyClear, TypeOK, Jars
  <2>4. JarsOK
    BY <1>0, <2>1, <2>3 DEF JarInv, TokenIn
  <2> QED
    BY <2>2, <2>4
<1>17. ASSUME NEW w \in Workers, Stop(w)
       PROVE  JarsOK /\ JobsOK
  <2>1. job' = [job EXCEPT ![w] = Idle] /\ UNCHANGED jar
    BY <1>17 DEF Stop, Goto
  <2>2. JobsOK
    BY <2>1, IdleInv, JobMoves DEF TypeOK
  <2> QED
    BY <2>1, <2>2, JarsStay
<1>18. ASSUME Tick PROVE JarsOK /\ JobsOK
  <2>1. session' = session /\ UNCHANGED job
    BY <1>18 DEF Tick
  <2>2. \A b \in Browsers : /\ jar'[b].access \in {jar[b].access, None}
                            /\ jar'[b].refresh \in {jar[b].refresh, None}
    BY <1>18 DEF Tick
  <2>3. JarsOK
    BY <1>0, <2>1, <2>2 DEF JarInv, TokenIn
  <2> QED
    BY <1>s, <2>1, <2>3
<1>19. ASSUME UNCHANGED vars PROVE JarsOK /\ JobsOK
  BY <1>s, <1>19, JarsStay DEF vars
<1> QED
  <2>1. TypeOK /\ [Next]_vars => Stable
    OBVIOUS
  <2> QED
    BY <1>1, <1>2, <1>3, <1>4, <1>5, <1>6, <1>7, <1>8, <1>9, <1>10, <1>11, <1>12,
       <1>13, <1>14, <1>15, <1>16, <1>17, <1>18, <1>19 DEF Next

-----------------------------------------------------------------------------
(* The rows.                                                               *)

(* What a step does to the rows: nothing, or one of these.                 *)
RowMoves ==
  \/ UNCHANGED <<rows, exchanged>>
  \/ \E b \in Browsers, w \in Workers : Logout(w, b)
  \/ \E w \in Workers : Create(w) \/ Issue(w) \/ Rotate(w) \/ Delete(w)

LEMMA NextMovesRows == [Next]_vars => RowMoves
<1> SUFFICES ASSUME [Next]_vars PROVE RowMoves
  OBVIOUS
<1>1. CASE \E b \in Browsers, n \in Nonces, link \in BOOLEAN : StartFlow(b, n, link)
  BY <1>1 DEF StartFlow, RowMoves, rows
<1>2. CASE \E w \in Workers, b \in Browsers, n \in Nonces : Callback(w, b, n)
  BY <1>2 DEF Callback, RowMoves, rows
<1>3. CASE \E w \in Workers, b \in Browsers, a \in Accounts : Switch(w, b, a)
  BY <1>3 DEF Switch, RowMoves, rows
<1>4. CASE \E w \in Workers, b \in Browsers :
             ReadSession(w, b) \/ Logout(w, b) \/ BeginDelete(w, b)
  BY <1>4 DEF ReadSession, BeginDelete, RowMoves, rows
<1>5. CASE \E w \in Workers : Consume(w) \/ FindAccount(w) \/ FindEmail(w)
  BY <1>5 DEF Consume, FindAccount, FindEmail, RowMoves, rows
<1>6. CASE \E w \in Workers : Touch(w) \/ Reply(w) \/ ReplyClear(w) \/ Stop(w)
  BY <1>6 DEF Touch, Reply, ReplyClear, Stop, RowMoves, rows
<1>7. CASE \E w \in Workers : Create(w) \/ Issue(w) \/ Rotate(w) \/ Delete(w)
  BY <1>7 DEF RowMoves
<1>8. CASE Tick \/ UNCHANGED vars
  BY <1>8 DEF Tick, vars, RowMoves, rows
<1> QED
  BY <1>1, <1>2, <1>3, <1>4, <1>5, <1>6, <1>7, <1>8 DEF Next

(* A session that changes without losing its state keeps its owners.       *)
SameOwners == \A s \in Sessions : /\ session'[s].state = session[s].state
                                  /\ session'[s].account = session[s].account
                                  /\ session'[s].user = session[s].user

LEMMA RevokeAgain ==
  ASSUME NEW r \in SessionRows, r.revoked
  PROVE  [r EXCEPT !.revoked = TRUE] = r
BY DEF SessionRows

LEMMA LogoutShape ==
  ASSUME TypeOK, NEW w \in Workers, NEW b \in Browsers, Logout(w, b)
  PROVE  /\ SameOwners /\ UNCHANGED <<user, account, exchanged>>
         /\ \A s \in Sessions : session'[s].issued = session[s].issued
         /\ \A s \in LiveSessions : session[s].revoked => session'[s] = session[s]
<1>1. UNCHANGED <<user, account, exchanged>>
  BY DEF Logout
<1>2. \/ UNCHANGED session
      \/ \E s \in Sessions : session' = [session EXCEPT ![s].revoked = TRUE]
  BY DEF Logout, LiveSessions
<1>3. \A s \in Sessions : session[s] \in SessionRows
  BY DEF TypeOK
<1>4. SameOwners
  BY <1>2, <1>3 DEF SameOwners, SessionRows, TypeOK
<1>5. \A s \in Sessions : session'[s].issued = session[s].issued
  BY <1>2, <1>3 DEF SessionRows, TypeOK
<1>6. ASSUME NEW s \in LiveSessions, session[s].revoked
      PROVE  session'[s] = session[s]
  <2>1. s \in Sessions /\ session[s] \in SessionRows
    BY <1>3 DEF LiveSessions
  <2>2. CASE UNCHANGED session
    BY <2>2
  <2>3. ASSUME NEW r \in Sessions, session' = [session EXCEPT ![r].revoked = TRUE]
        PROVE  session'[s] = session[s]
    <3>1. CASE r # s
      BY <2>1, <2>3, <3>1 DEF TypeOK
    <3>2. CASE r = s
      <4>1. session'[s] = [session[s] EXCEPT !.revoked = TRUE]
        BY <2>1, <2>3, <3>2 DEF TypeOK
      <4> QED
        BY <1>6, <2>1, <4>1, RevokeAgain
    <3> QED
      BY <3>1, <3>2
  <2> QED
    BY <1>2, <2>2, <2>3
<1> QED
  BY <1>1, <1>4, <1>5, <1>6

LEMMA RotateShape ==
  ASSUME TypeOK, NEW w \in Workers, Rotate(w), StillCurrent(job[w].token)
  PROVE  LET s == job[w].token.session IN
         /\ s \in LiveSessions /\ ~session[s].revoked
         /\ session[s].issued = job[w].token.issued
         /\ session'[s].issued = now
         /\ \A r \in Sessions : r # s => session'[r] = session[r]
         /\ SameOwners /\ UNCHANGED <<user, account>>
         /\ exchanged' = exchanged \cup
              {[session |-> s, from |-> job[w].token.issued, to |-> now]}
<1> DEFINE s == job[w].token.session
<1>1. /\ s \in LiveSessions /\ ~session[s].revoked
      /\ session[s].issued = job[w].token.issued
  BY DEF StillCurrent, Matches
<1>2. /\ session' = [session EXCEPT ![s].issued = now]
      /\ UNCHANGED <<user, account>>
      /\ exchanged' = exchanged \cup
           {[session |-> s, from |-> job[w].token.issued, to |-> now]}
  BY DEF Rotate
<1>3. s \in Sessions /\ \A r \in Sessions : session[r] \in SessionRows
  BY <1>1 DEF TypeOK, LiveSessions
<1> HIDE DEF s
<1>4. /\ session'[s].issued = now
      /\ \A r \in Sessions : r # s => session'[r] = session[r]
  BY <1>2, <1>3 DEF TypeOK, SessionRows
<1>5. SameOwners
  BY <1>2, <1>3 DEF TypeOK, SessionRows, SameOwners
<1> QED
  BY <1>1, <1>2, <1>4, <1>5 DEF s

LEMMA DeleteShape ==
  ASSUME TypeOK, NEW w \in Workers, Delete(w), Deletable(w)
  PROVE  /\ job[w].user \in Users
         /\ \A u \in Users : u # job[w].user => user'[u] = user[u]
         /\ \A a \in Accounts :
              IF account[a].state = "row" /\ account[a].user = job[w].user
              THEN account'[a].state = "gone" ELSE account'[a] = account[a]
         /\ \A s \in Sessions :
              IF s \in job[w].doomed THEN session'[s].state = "gone"
              ELSE session'[s] = session[s]
         /\ \A s \in Sessions : session'[s].issued = session[s].issued
<1>1. /\ user' = [user EXCEPT ![job[w].user] = "gone"]
      /\ account' = [a \in Accounts |->
           IF a \in LiveAccounts /\ account[a].user = job[w].user
           THEN [state |-> "gone", user |-> None, identity |-> None]
           ELSE account[a]]
      /\ session' = [s \in Sessions |->
           IF s \in job[w].doomed
           THEN [session[s] EXCEPT !.state = "gone", !.account = None]
           ELSE session[s]]
  BY DEF Delete
<1>2. job[w].user \in Users
  BY DEF Deletable, LiveUsers
<1>3. \A u \in Users : u # job[w].user => user'[u] = user[u]
  BY <1>1 DEF TypeOK
<1>4. \A a \in Accounts :
        IF account[a].state = "row" /\ account[a].user = job[w].user
        THEN account'[a].state = "gone" ELSE account'[a] = account[a]
  BY <1>1 DEF LiveAccounts
<1>5. \A s \in Sessions : session[s] \in SessionRows
  BY DEF TypeOK
<1>6. \A s \in Sessions : IF s \in job[w].doomed THEN session'[s].state = "gone"
                          ELSE session'[s] = session[s]
  BY <1>1, <1>5 DEF SessionRows
<1>7. \A s \in Sessions : session'[s].issued = session[s].issued
  BY <1>1, <1>5 DEF SessionRows
<1> QED
  BY <1>2, <1>3, <1>4, <1>6, <1>7

-----------------------------------------------------------------------------
(* Who owns what.                                                          *)

LEMMA OwnersKept ==
  ASSUME RowsOwned, SameOwners, UNCHANGED <<user, account>>
  PROVE  RowsOwned'
BY DEF RowsOwned, SameOwners, LiveSessions, LiveAccounts, LiveUsers

LEMMA OwnedCreate ==
  ASSUME TypeOK, RowsOwned, NEW w \in Workers, Create(w)
  PROVE  RowsOwned'
<1>1. UNCHANGED session
  BY DEF Create
<1>2. CASE UNCHANGED <<user, account>>
  BY <1>1, <1>2 DEF RowsOwned, LiveSessions, LiveAccounts, LiveUsers
<1>3. ASSUME NEW u \in Users, NEW a \in Accounts,
             AccountsWith(job[w].identity) = {}, AddAccount(w, a, u),
             user'[u] = "row", \A v \in LiveUsers : user'[v] = "row"
      PROVE  RowsOwned'
  <2>1. /\ account[a].state = "new"
        /\ account'[a].state = "row" /\ account'[a].user = u
        /\ account'[a].identity = job[w].identity
        /\ \A c \in Accounts : c # a => account'[c] = account[c]
    BY <1>3 DEF AddAccount, TypeOK
  <2>2. LiveAccounts' = LiveAccounts \cup {a} /\ a \notin LiveAccounts
    BY <2>1 DEF LiveAccounts
  <2>3. \A c \in LiveAccounts : account'[c] = account[c]
                                /\ account[c].identity # job[w].identity
    BY <1>3, <2>1 DEF LiveAccounts, AccountsWith
  <2>4. LiveSessions' = LiveSessions /\ LiveUsers \subseteq LiveUsers' /\ u \in LiveUsers'
    BY <1>1, <1>3 DEF LiveSessions, LiveUsers
  <2>5. \A s \in LiveSessions' : /\ session'[s].account \in LiveAccounts'
                                 /\ account'[session'[s].account].user = session'[s].user
    BY <1>1, <2>2, <2>3, <2>4 DEF RowsOwned
  <2>6. \A c \in LiveAccounts' : account'[c].user \in LiveUsers'
    BY <2>1, <2>2, <2>3, <2>4 DEF RowsOwned
  <2>7. \A c, d \in LiveAccounts' : account'[c].identity = account'[d].identity => c = d
    BY <2>1, <2>2, <2>3 DEF RowsOwned
  <2> QED
    BY <2>5, <2>6, <2>7 DEF RowsOwned
<1>4. CASE /\ AccountsWith(job[w].identity) = {} /\ job[w].user = None
           /\ \E u \in Users, a \in Accounts :
                /\ user[u] = "new"
                /\ user' = [user EXCEPT ![u] = "row"]
                /\ AddAccount(w, a, u)
  BY <1>3, <1>4 DEF LiveUsers, TypeOK
<1>5. CASE /\ AccountsWith(job[w].identity) = {} /\ job[w].user \in LiveUsers
           /\ \E a \in Accounts : AddAccount(w, a, job[w].user)
           /\ UNCHANGED user
  BY <1>3, <1>5 DEF LiveUsers
<1> QED
  BY <1>2, <1>4, <1>5 DEF Create

LEMMA IssueShape ==
  ASSUME TypeOK, JobsInv, NEW w \in Workers, Issue(w)
  PROVE  /\ UNCHANGED <<user, account, exchanged>>
         /\ \/ UNCHANGED session
            \/ \E s \in Sessions :
                 /\ session[s].state = "new" /\ session'[s].state = "row"
                 /\ session'[s].account \in LiveAccounts
                 /\ account[session'[s].account].user = session'[s].user
                 /\ \A r \in Sessions : r # s => session'[r] = session[r]
<1>1. UNCHANGED <<user, account, exchanged>>
  BY DEF Issue
<1>2. SUFFICES ASSUME job[w].account \in LiveAccounts, NEW s \in Sessions,
                      session[s].state = "new",
                      session' = [session EXCEPT ![s] =
                        [state |-> "row", user |-> job[w].user,
                         account |-> job[w].account, issued |-> now,
                         revoked |-> FALSE]]
               PROVE  /\ session'[s].state = "row"
                      /\ session'[s].account \in LiveAccounts
                      /\ account[session'[s].account].user = session'[s].user
                      /\ \A r \in Sessions : r # s => session'[r] = session[r]
  BY <1>1 DEF Issue
<1>3. account[job[w].account].user = job[w].user
  BY <1>2 DEF Issue, JobsInv, JobInv, SoundIn, LiveAccounts
<1> QED
  BY <1>2, <1>3 DEF TypeOK

LEMMA OwnedDelete ==
  ASSUME TypeOK, RowsOwned, NEW w \in Workers, Delete(w)
  PROVE  RowsOwned'
<1>1. CASE ~Deletable(w)
  BY <1>1 DEF Delete, rows, RowsOwned, LiveSessions, LiveAccounts, LiveUsers
<1>2. CASE Deletable(w)
  <2> DEFINE u == job[w].user
  <2>1. SessionsOf(u) \subseteq job[w].doomed
    BY <1>2 DEF Deletable
  <2>2. /\ \A v \in Users : v # u => user'[v] = user[v]
        /\ \A a \in Accounts :
             IF account[a].state = "row" /\ account[a].user = u
             THEN account'[a].state = "gone" ELSE account'[a] = account[a]
        /\ \A s \in Sessions :
             IF s \in job[w].doomed THEN session'[s].state = "gone"
             ELSE session'[s] = session[s]
    BY <1>2, DeleteShape
  <2> HIDE DEF u
  <2>3. \A a \in LiveAccounts' : a \in LiveAccounts /\ account'[a] = account[a]
                                 /\ account[a].user # u
    BY <2>2 DEF LiveAccounts
  <2>4. \A a \in LiveAccounts : account[a].user # u =>
          a \in LiveAccounts' /\ account'[a] = account[a]
    BY <2>2 DEF LiveAccounts
  <2>5. \A s \in LiveSessions' : s \in LiveSessions /\ session'[s] = session[s]
                                 /\ session[s].user # u
    BY <2>1, <2>2 DEF LiveSessions, SessionsOf
  <2>6. \A v \in LiveUsers : v # u => v \in LiveUsers'
    BY <2>2 DEF LiveUsers
  <2>7. \A s \in LiveSessions' : /\ session'[s].account \in LiveAccounts'
                                 /\ account'[session'[s].account].user = session'[s].user
    BY <2>4, <2>5 DEF RowsOwned
  <2>8. \A a \in LiveAccounts' : account'[a].user \in LiveUsers'
    BY <2>3, <2>6 DEF RowsOwned
  <2>9. \A a, b \in LiveAccounts' : account'[a].identity = account'[b].identity => a = b
    BY <2>3 DEF RowsOwned
  <2> QED
    BY <2>7, <2>8, <2>9 DEF RowsOwned
<1> QED
  BY <1>1, <1>2

LEMMA OwnedStep == TypeOK /\ JobsInv /\ RowsOwned /\ [Next]_vars => RowsOwned'
<1> SUFFICES ASSUME TypeOK, JobsInv, RowsOwned, RowMoves
             PROVE  RowsOwned'
  BY NextMovesRows
<1>1. CASE UNCHANGED <<rows, exchanged>>
  BY <1>1 DEF rows, RowsOwned, LiveSessions, LiveAccounts, LiveUsers
<1>2. ASSUME NEW b \in Browsers, NEW w \in Workers, Logout(w, b)
      PROVE  RowsOwned'
  BY <1>2, LogoutShape, OwnersKept
<1>3. ASSUME NEW w \in Workers, Create(w)
      PROVE  RowsOwned'
  BY <1>3, OwnedCreate
<1>4. ASSUME NEW w \in Workers, Issue(w)
      PROVE  RowsOwned'
  <2>1. UNCHANGED <<user, account>>
    BY <1>4, IssueShape
  <2>2. CASE UNCHANGED session
    BY <2>1, <2>2 DEF RowsOwned, LiveSessions, LiveAccounts, LiveUsers
  <2>3. ASSUME NEW s \in Sessions, session[s].state = "new", session'[s].state = "row",
               session'[s].account \in LiveAccounts,
               account[session'[s].account].user = session'[s].user,
               \A r \in Sessions : r # s => session'[r] = session[r]
        PROVE  RowsOwned'
    <3>1. \A r \in LiveSessions' : r = s \/ (r \in LiveSessions /\ session'[r] = session[r])
      BY <2>3 DEF LiveSessions
    <3>2. LiveAccounts' = LiveAccounts /\ LiveUsers' = LiveUsers
      BY <2>1 DEF LiveAccounts, LiveUsers
    <3> QED
      BY <2>1, <2>3, <3>1, <3>2 DEF RowsOwned
  <2> QED
    BY <1>4, <2>2, <2>3, IssueShape
<1>5. ASSUME NEW w \in Workers, Rotate(w)
      PROVE  RowsOwned'
  <2>1. CASE StillCurrent(job[w].token)
    BY <1>5, <2>1, RotateShape, OwnersKept
  <2>2. CASE ~StillCurrent(job[w].token)
    BY <1>5, <2>2 DEF Rotate, RowsOwned, LiveSessions, LiveAccounts, LiveUsers
  <2> QED
    BY <2>1, <2>2
<1>6. ASSUME NEW w \in Workers, Delete(w)
      PROVE  RowsOwned'
  BY <1>6, OwnedDelete
<1> QED
  BY <1>1, <1>2, <1>3, <1>4, <1>5, <1>6 DEF RowMoves

-----------------------------------------------------------------------------
(* Exchanges and nonces.                                                   *)

LEMMA ExchangesKept ==
  ASSUME ExchangesSound, UNCHANGED exchanged,
         \A x \in exchanged : /\ session'[x.session].state # "new"
                              /\ session'[x.session].issued = session[x.session].issued
  PROVE  ExchangesSound'
BY DEF ExchangesSound

LEMMA ExchangesRotate ==
  ASSUME TypeOK, JobsInv, ExchangesSound, NEW w \in Workers, Rotate(w)
  PROVE  ExchangesSound'
<1>1. CASE ~StillCurrent(job[w].token)
  BY <1>1 DEF Rotate, ExchangesSound
<1>2. CASE StillCurrent(job[w].token)
  <2> DEFINE s == job[w].token.session
             f == job[w].token.issued
             new == [session |-> s, from |-> f, to |-> now]
  <2>1. /\ s \in LiveSessions /\ session[s].issued = f /\ session'[s].issued = now
        /\ \A r \in Sessions : r # s => session'[r] = session[r]
        /\ SameOwners
        /\ exchanged' = exchanged \cup {new}
    BY <1>2, RotateShape
  <2>2. f < now
    BY DEF Rotate, JobsInv, JobInv, SoundIn
  <2>3. now \in Nat /\ f \in Nat /\ s \in Sessions /\ session[s].state # "new"
    BY <2>1 DEF TypeOK, Times, SessionRows, LiveSessions
  <2>4. \A x \in exchanged : x.session \in Sessions /\ x.from \in Nat
    BY DEF TypeOK, Times
  <2>5. new.session = s /\ new.from = f /\ new.to = now
    OBVIOUS
  <2> HIDE DEF s, f, new
  <2>6. \A x \in exchanged' : /\ session'[x.session].state # "new"
                              /\ x.from < session'[x.session].issued
    <3>1. ASSUME NEW x \in exchanged
          PROVE  /\ session'[x.session].state # "new"
                 /\ x.from < session'[x.session].issued
      <4>1. /\ session[x.session].state # "new" /\ x.from < session[x.session].issued
            /\ x.session \in Sessions /\ x.from \in Nat
        BY <2>4 DEF ExchangesSound
      <4>2. session'[x.session].state # "new"
        BY <2>1, <4>1 DEF SameOwners
      <4>3. x.from < session'[x.session].issued
        BY <2>1, <2>2, <2>3, <4>1
      <4> QED
        BY <4>2, <4>3
    <3>2. session'[new.session].state # "new" /\ new.from < session'[new.session].issued
      BY <2>1, <2>2, <2>3, <2>5 DEF SameOwners
    <3> QED
      BY <2>1, <3>1, <3>2
  <2>7. \A x, y \in exchanged' :
          x.session = y.session /\ x.from = y.from => x.to = y.to
    <3>1. \A x \in exchanged : x.session = s => x.from # f
      BY <2>1, <2>3, <2>4 DEF ExchangesSound
    <3> QED
      BY <2>1, <2>5, <3>1 DEF ExchangesSound
  <2> QED
    BY <2>6, <2>7 DEF ExchangesSound
<1> QED
  BY <1>1, <1>2

LEMMA ExchangesStep ==
  TypeOK /\ JobsInv /\ ExchangesSound /\ [Next]_vars => ExchangesSound'
<1> SUFFICES ASSUME TypeOK, JobsInv, ExchangesSound, RowMoves
             PROVE  ExchangesSound'
  BY NextMovesRows
<1>1. \A x \in exchanged : x.session \in Sessions /\ session[x.session].state # "new"
  BY DEF TypeOK, ExchangesSound
<1>2. CASE UNCHANGED <<rows, exchanged>>
  BY <1>2 DEF rows, ExchangesSound
<1>3. ASSUME NEW b \in Browsers, NEW w \in Workers, Logout(w, b)
      PROVE  ExchangesSound'
  BY <1>1, <1>3, LogoutShape, ExchangesKept DEF SameOwners
<1>4. ASSUME NEW w \in Workers, Create(w)
      PROVE  ExchangesSound'
  BY <1>1, <1>4, ExchangesKept DEF Create
<1>5. ASSUME NEW w \in Workers, Issue(w)
      PROVE  ExchangesSound'
  BY <1>1, <1>5, IssueShape, ExchangesKept
<1>6. ASSUME NEW w \in Workers, Rotate(w)
      PROVE  ExchangesSound'
  BY <1>6, ExchangesRotate
<1>7. ASSUME NEW w \in Workers, Delete(w)
      PROVE  ExchangesSound'
  <2>1. UNCHANGED exchanged
    BY <1>7 DEF Delete
  <2>2. CASE ~Deletable(w)
    BY <1>1, <1>7, <2>1, <2>2, ExchangesKept DEF Delete, rows
  <2>3. CASE Deletable(w)
    BY <1>1, <1>7, <2>1, <2>3, DeleteShape, ExchangesKept
  <2> QED
    BY <2>2, <2>3
<1> QED
  BY <1>2, <1>3, <1>4, <1>5, <1>6, <1>7 DEF RowMoves

LEMMA NoncesStep == TypeOK /\ JobsInv /\ NoncesSound /\ [Next]_vars => NoncesSound'
<1> SUFFICES ASSUME TypeOK, JobsInv, NoncesSound, [Next]_vars
             PROVE  NoncesSound'
  OBVIOUS
<1>1. ASSUME NEW b \in Browsers, NEW n \in Nonces, NEW link \in BOOLEAN,
             StartFlow(b, n, link)
      PROVE  NoncesSound'
  <2>1. /\ flow[n] = None /\ UNCHANGED accepted /\ nonces' \subseteq nonces \cup {n}
        /\ \A m \in Nonces : m # n => flow'[m] = flow[m]
    BY <1>1 DEF StartFlow, TypeOK
  <2> QED
    BY <2>1 DEF NoncesSound
<1>2. ASSUME NEW w \in Workers, Consume(w)
      PROVE  NoncesSound'
  <2> DEFINE n == job[w].nonce
  <2>1. CASE Consumed(n)
    <3>1. /\ n \in nonces /\ nonces' = nonces \ {n} /\ UNCHANGED flow
          /\ accepted' = [accepted EXCEPT ![n] = @ + 1]
      BY <1>2, <2>1 DEF Consume, Consumed
    <3>2. n \in Nonces /\ flow[n] # None /\ accepted[n] = 0
      BY <1>2, <3>1 DEF Consume, JobsInv, JobInv, SoundIn, NoncesSound, TypeOK
    <3> HIDE DEF n
    <3>3. /\ accepted'[n] = 1
          /\ \A m \in Nonces : m # n => accepted'[m] = accepted[m]
      BY <3>1, <3>2 DEF TypeOK
    <3> QED
      BY <3>1, <3>2, <3>3 DEF NoncesSound
  <2>2. CASE ~Consumed(n)
    BY <1>2, <2>2 DEF Consume, NoncesSound
  <2> QED
    BY <2>1, <2>2
<1>3. CASE UNCHANGED oauth
  BY <1>3 DEF oauth, NoncesSound
<1>4. CASE \E w \in Workers, b \in Browsers, n \in Nonces : Callback(w, b, n)
  BY <1>3, <1>4 DEF Callback
<1>5. CASE \E w \in Workers, b \in Browsers, a \in Accounts : Switch(w, b, a)
  BY <1>3, <1>5 DEF Switch
<1>6. CASE \E w \in Workers, b \in Browsers :
             ReadSession(w, b) \/ Logout(w, b) \/ BeginDelete(w, b)
  BY <1>3, <1>6 DEF ReadSession, Logout, BeginDelete
<1>7. CASE \E w \in Workers :
             FindAccount(w) \/ FindEmail(w) \/ Create(w) \/ Issue(w)
  BY <1>3, <1>7 DEF FindAccount, FindEmail, Create, Issue
<1>8. CASE \E w \in Workers :
             \/ Rotate(w) \/ Touch(w) \/ Delete(w)
             \/ Reply(w) \/ ReplyClear(w) \/ Stop(w)
  BY <1>3, <1>8 DEF Rotate, Touch, Delete, Reply, ReplyClear, Stop
<1>9. CASE Tick \/ UNCHANGED vars
  BY <1>3, <1>9 DEF Tick, vars, oauth
<1> QED
  BY <1>1, <1>2, <1>4, <1>5, <1>6, <1>7, <1>8, <1>9 DEF Next

LEMMA RevokedStep ==
  ASSUME TypeOK, JobsInv, [Next]_vars
  PROVE  \A s \in LiveSessions :
           session[s].revoked => session'[s] = session[s] \/ session'[s].state = "gone"
<1> SUFFICES ASSUME NEW s \in Sessions, session[s].state = "row", session[s].revoked
             PROVE  session'[s] = session[s] \/ session'[s].state = "gone"
  BY DEF LiveSessions
<1>1. CASE UNCHANGED <<rows, exchanged>>
  BY <1>1 DEF rows
<1>2. ASSUME NEW b \in Browsers, NEW w \in Workers, Logout(w, b)
      PROVE  session'[s] = session[s]
  BY <1>2, LogoutShape DEF LiveSessions
<1>3. ASSUME NEW w \in Workers, Create(w)
      PROVE  session'[s] = session[s]
  BY <1>3 DEF Create
<1>4. ASSUME NEW w \in Workers, Issue(w)
      PROVE  session'[s] = session[s]
  BY <1>4, IssueShape
<1>5. ASSUME NEW w \in Workers, Rotate(w)
      PROVE  session'[s] = session[s]
  <2>1. CASE StillCurrent(job[w].token)
    BY <1>5, <2>1, RotateShape
  <2>2. CASE ~StillCurrent(job[w].token)
    BY <1>5, <2>2 DEF Rotate
  <2> QED
    BY <2>1, <2>2
<1>6. ASSUME NEW w \in Workers, Delete(w)
      PROVE  session'[s] = session[s] \/ session'[s].state = "gone"
  <2>1. CASE Deletable(w)
    BY <1>6, <2>1, DeleteShape
  <2>2. CASE ~Deletable(w)
    BY <1>6, <2>2 DEF Delete, rows
  <2> QED
    BY <2>1, <2>2
<1> QED
  BY <1>1, <1>2, <1>3, <1>4, <1>5, <1>6, NextMovesRows DEF RowMoves

-----------------------------------------------------------------------------
(* The theorems.                                                           *)

LEMMA InitIInv == Init => IInv
<1> SUFFICES ASSUME Init PROVE IInv
  OBVIOUS
<1>1. TypeOK
  BY InitType
<1>2. TokensReal /\ JobsSound /\ LinksSound
  BY DEF Init, Idle, TokensReal, NotNew, JobsSound, JobSound, LinksSound, LinkSound
<1>3. RowsOwned
  BY DEF Init, RowsOwned, LiveSessions, LiveAccounts
<1>4. ExchangesSound /\ NoncesSound
  BY DEF Init, ExchangesSound, NoncesSound
<1> QED
  BY <1>1, <1>2, <1>3, <1>4 DEF IInv

(* The inductive invariant holds in every reachable state: what the rows   *)
(* and cookies promise whatever requests are half way through.             *)
THEOREM Invariance == Spec => []IInv
<1>1. Init => IInv
  BY InitIInv
<1>2. IInv /\ [Next]_vars => IInv'
  <2> SUFFICES ASSUME IInv, [Next]_vars PROVE IInv'
    OBVIOUS
  <2>1. TypeOK /\ JobsSound /\ JobsInv
    BY JobsInvIs DEF IInv
  <2>2. TypeOK'
    BY <2>1, TypeStep
  <2>3. JobsInv'
    BY <2>1, JobsStep
  <2>4. (TokensReal /\ JobsSound /\ LinksSound)'
    BY <2>2, <2>3, JobsInvIs, PTL
  <2>5. RowsOwned'
    BY <2>1, OwnedStep DEF IInv
  <2>6. ExchangesSound'
    BY <2>1, ExchangesStep DEF IInv
  <2>7. NoncesSound'
    BY <2>1, NoncesStep DEF IInv
  <2> QED
    BY <2>2, <2>4, <2>5, <2>6, <2>7 DEF IInv
<1> QED
  BY <1>1, <1>2, PTL DEF Spec

(* Every variable keeps its shape, for any number of clients and requests. *)
THEOREM TypeCorrect == Spec => []TypeOK
<1>1. IInv => TypeOK
  BY DEF IInv
<1> QED
  BY <1>1, Invariance, PTL

(* No deletion, sign-in, link or switch, in whatever order, leaves a       *)
(* session or an account without its owner, or one identity twice.         *)
THEOREM RowsAlwaysOwned == Spec => []RowsOwned
<1>1. IInv => RowsOwned
  BY DEF IInv
<1> QED
  BY <1>1, Invariance, PTL

(* However many refreshes race, the rotation hands out one successor of a  *)
(* refresh token, and the token is never current again.                    *)
THEOREM OneSuccessorAlways == Spec => []OneSuccessor
<1>1. IInv => OneSuccessor
  <2> SUFFICES ASSUME IInv PROVE OneSuccessor
    OBVIOUS
  <2>1. \A x \in exchanged : /\ x.from \in Nat /\ session[x.session].issued \in Nat
                             /\ x.from < session[x.session].issued
    BY DEF IInv, TypeOK, Times, SessionRows, ExchangesSound
  <2> QED
    BY <2>1 DEF IInv, ExchangesSound, OneSuccessor
<1> QED
  BY <1>1, Invariance, PTL

(* The state of an OAuth flow is good for one callback.                    *)
THEOREM OneCallbackAlways == Spec => []OneCallback
<1>1. IInv => OneCallback
  BY DEF IInv, NoncesSound, OneCallback
<1> QED
  BY <1>1, Invariance, PTL

(* An account is only ever linked on behalf of the user and the session    *)
(* that started the flow.                                                  *)
THEOREM LinkAlwaysBySameSession == Spec => []LinkBySameSession
<1>1. IInv => LinkBySameSession
  BY DEF IInv, LinksSound, LinkSound, LinkBySameSession
<1> QED
  BY <1>1, Invariance, PTL

(* No refresh brings a logged out session back.                            *)
THEOREM RevokedStaysRevoked == Spec => RevokedForever
<1>1. IInv /\ [Next]_vars =>
        [\A s \in LiveSessions :
           session[s].revoked =>
             session'[s] = session[s] \/ session'[s].state = "gone"]_vars
  BY RevokedStep, JobsInvIs DEF IInv
<1> QED
  BY <1>1, Invariance, PTL DEF Spec, RevokedForever

=============================================================================
