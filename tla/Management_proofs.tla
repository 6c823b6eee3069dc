-------------------------- MODULE Management_proofs --------------------------
(***************************************************************************)
(* Setups that keep their lock create one owner, however many run at the  *)
(* same time on however many replicas; a row needs a session that was      *)
(* live; a cookie is lost only to an earlier request.                      *)
(***************************************************************************)
EXTENDS Management, TLAPS

\* Tokens are never used again: what has been issued stays issued.
LEMMA TokensGrow ==
  ASSUME issued \in Nat, issued' \in {issued, issued + 1}
  PROVE  /\ issued' \in Nat
         /\ Token \subseteq Token'
         /\ InProgress \subseteq InProgress'
<1>1. issued' \in Nat /\ Token \subseteq Token'
  BY DEF Token
<1>2. Cookie \subseteq Cookie'
  BY <1>1 DEF Cookie
<1>3. Answers \subseteq Answers'
  BY <1>1 DEF Answers
<1>4. /\ SettingUp \subseteq SettingUp' /\ SigningIn \subseteq SigningIn'
      /\ SigningOut \subseteq SigningOut' /\ Creating \subseteq Creating' /\ Ending \subseteq Ending'
  BY <1>2, <1>3 DEF SettingUp, SigningIn, SigningOut, Creating, Ending
<1> QED
  BY <1>1, <1>4 DEF InProgress

\* The place of a request tells what it executes.
LEMMA Places ==
  ASSUME NEW r \in Request, request \in [Request -> InProgress \cup {Idle}]
  PROVE  /\ request[r].pc \in {"acquire", "lock", "begin", "recheck", "write"} => request[r] \in SettingUp
         /\ request[r].pc \in {"credential", "session"} => request[r] \in SigningIn
         /\ request[r].pc = "authenticate" => request[r] \in SigningOut \cup Creating
         /\ request[r].pc = "delete" => request[r] \in SigningOut
         /\ request[r].pc \in {"project", "insert"} => request[r] \in Creating
         /\ request[r].pc \in {"unlock", "response"} => request[r] \in Ending
         /\ request[r].pc # "idle" => request[r] \in InProgress
         /\ request[r].pc = "idle" => request[r] = Idle
BY DEF InProgress, SettingUp, SigningIn, SigningOut, Creating, Ending, Idle

\* A request that goes on keeps what it carries.
LEMMA AdvancedType ==
  ASSUME NEW r \in Request, NEW P, NEW C, NEW pc \in P, issued \in Nat, UNCHANGED issued,
         request \in [Request -> InProgress \cup {Idle}],
         request[r] \in [pc: P, call: C, cookie: Cookie],
         [pc: P, call: C, cookie: Cookie] \subseteq InProgress,
         Advanced(r, pc)
  PROVE  request' \in [Request -> InProgress' \cup {Idle}]
<1>1. [request[r] EXCEPT !.pc = pc] \in [pc: P, call: C, cookie: Cookie]
  OBVIOUS
<1>2. request' \in [Request -> InProgress \cup {Idle}]
  BY <1>1 DEF Advanced
<1> QED
  BY <1>2, TokensGrow

\* A request whose handler has left the repository keeps its cookie.
LEMMA LeftType ==
  ASSUME NEW r \in Request, NEW pc \in {"unlock", "response"}, NEW answer \in Answers',
         issued \in Nat, issued' \in {issued, issued + 1},
         request \in [Request -> InProgress \cup {Idle}],
         request[r].pc # "idle", Left(r, pc, answer)
  PROVE  request' \in [Request -> InProgress' \cup {Idle}]
<1>1. request[r] \in InProgress
  BY Places
<1>2. request[r].cookie \in Cookie
  BY <1>1 DEF InProgress, SettingUp, SigningIn, SigningOut, Creating, Ending
<1>3. Cookie \subseteq Cookie'
  BY TokensGrow DEF Cookie
<1>4. [pc |-> pc, cookie |-> request[r].cookie, answer |-> answer] \in InProgress'
  BY <1>2, <1>3 DEF InProgress, Ending
<1>5. InProgress \subseteq InProgress'
  BY TokensGrow
<1> QED
  BY <1>4, <1>5 DEF Left

------------------------------------------------------------------------------

\* Every step of a request leaves it at one of its places, with its cookie.
LEMMA ServeRequest ==
  ASSUME NEW r \in Request, ManagementTypeOK, Serve(r)
  PROVE  request' \in [Request -> InProgress' \cup {Idle}]
<1> USE DEF ManagementTypeOK, database, setups
<1>a. SettingUp \subseteq InProgress /\ SigningIn \subseteq InProgress
       /\ SigningOut \subseteq InProgress /\ Creating \subseteq InProgress
  BY DEF InProgress
<1>k. Keep \in Answers' /\ Clear \in Answers'
  BY DEF Answers, Keep, Clear, NoToken
<1>1. ASSUME NEW pc \in {"acquire", "lock", "begin", "recheck", "write"},
             request[r].pc \in {"acquire", "lock", "begin", "recheck", "write"},
             Advanced(r, pc), UNCHANGED issued
      PROVE  request' \in [Request -> InProgress' \cup {Idle}]
  <2> DEFINE P == {"acquire", "lock", "begin", "recheck", "write"}
  <2>1. request[r] \in [pc: P, call: Setup, cookie: Cookie]
    BY <1>1, Places DEF SettingUp
  <2>2. [pc: P, call: Setup, cookie: Cookie] \subseteq InProgress
    BY <1>a DEF SettingUp
  <2>3. pc \in P /\ issued \in Nat /\ request \in [Request -> InProgress \cup {Idle}]
    OBVIOUS
  <2> HIDE DEF P
  <2> QED
    BY <1>1, <2>1, <2>2, <2>3, AdvancedType
<1>2. ASSUME NEW pc \in {"unlock", "response"}, NEW answer \in {Keep, Clear},
             request[r].pc # "idle", Left(r, pc, answer), UNCHANGED issued
      PROVE  request' \in [Request -> InProgress' \cup {Idle}]
  BY <1>2, <1>k, LeftType
<1>3. ASSUME NEW pc \in {"unlock", "response"}, request[r].pc # "idle", NewSession(r, pc)
      PROVE  request' \in [Request -> InProgress' \cup {Idle}]
  <2>1. {issued + 1} \in Answers'
    BY <1>3 DEF NewSession, Answers, Token
  <2>2. PICK answer \in {{issued + 1}, Keep} : Left(r, pc, answer)
    BY <1>3 DEF NewSession
  <2>3. issued' = issued + 1
    BY <1>3 DEF NewSession
  <2> QED
    BY <1>3, <1>k, <2>1, <2>2, <2>3, LeftType
<1>4. CASE AcquireLockConnection(r) \/ Lock(r) \/ Begin(r)
  BY <1>1, <1>4 DEF AcquireLockConnection, Lock, Begin, At
<1>5. CASE Recheck(r) \/ ConflictOfSetup(r)
  BY <1>1, <1>2, <1>5 DEF Recheck, ConflictOfSetup, At
<1>6. CASE CommitSetup(r)
  BY <1>3, <1>6 DEF CommitSetup, At
<1>7. CASE Unlock(r)
  <2>1. request[r] \in Ending /\ request[r].pc # "idle"
    BY <1>7, Places DEF Unlock, At
  <2>2. request[r].answer \in Answers
    BY <2>1 DEF Ending
  <2>3. Answers' = Answers /\ issued' = issued
    BY <1>7 DEF Unlock, Answers, Token
  <2> QED
    BY <1>7, <2>1, <2>2, <2>3, LeftType DEF Unlock, Respond
<1>8. CASE FindCredential(r)
  <2>1. request[r] \in SigningIn /\ UNCHANGED issued /\ request[r].pc # "idle"
    BY <1>8, Places DEF FindCredential, At
  <2>2. CASE Advanced(r, "session")
    BY <2>1, <2>2, <1>a, AdvancedType DEF SigningIn
  <2> QED
    BY <1>2, <1>8, <2>1, <2>2 DEF FindCredential, Respond
<1>9. CASE CreateSession(r)
  BY <1>3, <1>9 DEF CreateSession, At
<1>10. CASE Refuse(r)
  BY <1>2, <1>10 DEF Refuse, At, Respond
<1>11. CASE Authenticate(r)
  <2>1. request[r] \in SigningOut \cup Creating /\ UNCHANGED issued
    BY <1>11, Places DEF Authenticate, At
  <2>2. CASE request[r] \in SigningOut
    <3>1. request[r].call.op = "logout"
      BY <2>2 DEF SigningOut, Logout
    <3>2. Advanced(r, "delete")
      BY <1>11, <3>1 DEF Authenticate, AfterAuthentication
    <3> QED
      BY <2>1, <2>2, <3>2, <1>a, AdvancedType DEF SigningOut
  <2>3. CASE request[r] \in Creating
    <3>1. request[r].call.op = "create"
      BY <2>3 DEF Creating, Create
    <3>2. PICK pc \in {"project", "insert"} : Advanced(r, pc)
      BY <1>11, <3>1 DEF Authenticate, AfterAuthentication
    <3> DEFINE P == {"authenticate", "project", "insert"}
    <3>3. request[r] \in [pc: P, call: Create, cookie: Cookie]
      BY <2>3 DEF Creating
    <3>4. [pc: P, call: Create, cookie: Cookie] \subseteq InProgress
      BY <1>a DEF Creating
    <3>5. pc \in P /\ issued \in Nat /\ request \in [Request -> InProgress \cup {Idle}]
      OBVIOUS
    <3> HIDE DEF P
    <3> QED
      BY <2>1, <3>2, <3>3, <3>4, <3>5, AdvancedType
  <2> QED
    BY <2>1, <2>2, <2>3
<1>12. CASE DeleteSession(r)
  BY <1>2, <1>12 DEF DeleteSession, At, Respond
<1>13. CASE FindProject(r)
  <2>1. request[r] \in Creating /\ UNCHANGED issued /\ request[r].pc # "idle"
    BY <1>13, Places DEF FindProject, At
  <2>2. CASE Advanced(r, "insert")
    BY <2>1, <2>2, <1>a, AdvancedType DEF Creating
  <2> QED
    BY <1>2, <1>13, <2>1, <2>2 DEF FindProject, Respond
<1>14. CASE Insert(r)
  BY <1>2, <1>14 DEF Insert, At, Respond
<1>15. CASE Receive(r)
  <2>1. request' \in [Request -> InProgress \cup {Idle}] /\ UNCHANGED issued
    BY <1>15 DEF Receive
  <2> QED
    BY <2>1, TokensGrow
<1> QED
  BY <1>4, <1>5, <1>6, <1>7, <1>8, <1>9, <1>10, <1>11, <1>12, <1>13, <1>14, <1>15 DEF Serve

\* The variables other than `request` keep their types.
LEMMA ServeTypes ==
  ASSUME NEW r \in Request, ManagementTypeOK, Serve(r)
  PROVE  /\ users' \subseteq Email /\ rows' \subseteq Row
         /\ issued' \in Nat /\ sessions' \subseteq Token' /\ expired' \subseteq Token'
         /\ lock' \in Request \cup {None} /\ severed' \subseteq Request
         /\ inflight' \subseteq Email /\ stray' \subseteq Email
         /\ jar' \in [Browser -> Token' \cup {NoToken}]
         /\ sends' \in Nat
<1> USE DEF ManagementTypeOK, database, setups, locking, outside
<1>1. CASE CommitSetup(r) \/ CreateSession(r)
  <2>1. issued' = issued + 1 /\ sessions' = sessions \cup {issued + 1}
    BY <1>1 DEF CommitSetup, CreateSession, NewSession
  <2>2. UNCHANGED <<expired, jar, sends, rows, lock, severed, inflight>>
    BY <1>1 DEF CommitSetup, CreateSession
  <2>3. issued + 1 \in Token' /\ Token \subseteq Token' /\ NoToken' = NoToken
    BY <2>1 DEF Token, NoToken
  <2>4. CASE CreateSession(r)
    BY <2>1, <2>2, <2>3, <2>4 DEF CreateSession
  <2>5. CASE CommitSetup(r)
    <3>1. request[r].call \in Setup
      BY <2>5, Places DEF CommitSetup, At, SettingUp
    <3>2. /\ users' = users \cup {request[r].call.email}
          /\ stray' \subseteq stray \cup {request[r].call.email}
      BY <2>5 DEF CommitSetup
    <3> QED
      BY <2>1, <2>2, <2>3, <3>1, <3>2 DEF Setup
  <2> QED
    BY <1>1, <2>4, <2>5
<1>2. CASE DeleteSession(r)
  BY <1>2 DEF DeleteSession, Token, NoToken
<1>3. CASE Receive(r)
  <2>1. request[r] \in Ending
    BY <1>3, Places DEF Receive, At
  <2>2. \A t \in request[r].answer : t \in Token \cup {NoToken}
    BY <2>1 DEF Ending, Answers, Keep, Clear
  <2>3. jar' \in [Browser -> Token \cup {NoToken}]
    BY <1>3, <2>2 DEF Receive
  <2> QED
    BY <1>3, <2>3 DEF Receive, Token, NoToken
<1>4. CASE Insert(r)
  <2>1. request[r].call \in Create
    BY <1>4, Places DEF Insert, At, Creating
  <2> QED
    BY <1>4, <2>1 DEF Insert, Token, NoToken, Create
<1>5. CASE AcquireLockConnection(r) \/ Lock(r) \/ Begin(r) \/ Recheck(r)
             \/ ConflictOfSetup(r) \/ Unlock(r)
             \/ FindCredential(r) \/ Refuse(r) \/ Authenticate(r) \/ FindProject(r)
  <2>1. UNCHANGED <<users, inflight, stray, rows, issued, sessions, expired, jar, sends>>
    BY <1>5 DEF AcquireLockConnection, Lock, Begin, Recheck, ConflictOfSetup, Unlock,
                FindCredential, Refuse, Authenticate, FindProject
  <2>2. lock' \in {lock, r, None} /\ severed' \in {severed, severed \ {r}}
    BY <1>5 DEF AcquireLockConnection, Lock, Begin, Recheck, ConflictOfSetup, Unlock,
                FindCredential, Refuse, Authenticate, FindProject
  <2> QED
    BY <2>1, <2>2 DEF Token, NoToken
<1> QED
  BY <1>1, <1>2, <1>3, <1>4, <1>5 DEF Serve

\* What a handler that is gone leaves in flight is the address of a setup.
LEMMA AbandonedTypes ==
  ASSUME ManagementTypeOK, NEW S \in SUBSET Request, Abandoned(S)
  PROVE  inflight' \subseteq Email
<1>1. ASSUME NEW r \in S, At(r, "write")
      PROVE  request[r].call.email \in Email
  BY <1>1, Places DEF At, ManagementTypeOK, SettingUp, Setup
<1> QED
  BY <1>1 DEF Abandoned, ManagementTypeOK

\* Every other step keeps the types too.
LEMMA OtherTypes ==
  ASSUME ManagementTypeOK,
         \/ \E r \in Request :
              \/ \E b \in Browser, call \in Setup \cup Login \cup Logout \cup Create : Send(r, b, call)
              \/ Fail(r) \/ LoseLock(r)
         \/ \E email \in Email : LateCommit(email)
         \/ \E t \in Live : Expire(t)
         \/ \E s \in Server : Crash(s)
  PROVE  ManagementTypeOK'
<1> USE DEF ManagementTypeOK, database, setups, locking, outside
<1>1. ASSUME UNCHANGED <<users, stray, rows, sessions, issued, outside>>,
             request' \in [Request -> InProgress \cup {Idle}], inflight' \subseteq Email,
             lock' \in Request \cup {None}, severed' \subseteq Request
      PROVE  ManagementTypeOK'
  BY <1>1, TokensGrow DEF Token, NoToken
<1>2. ASSUME NEW r \in Request, NEW b \in Browser,
             NEW call \in Setup \cup Login \cup Logout \cup Create, Send(r, b, call)
      PROVE  ManagementTypeOK'
  <2> DEFINE cookie == [browser |-> b, token |-> jar[b], live |-> jar[b] \in Live]
             started == [pc |-> FirstStep(call.op), call |-> call, cookie |-> cookie]
  <2>1. cookie \in Cookie
    BY DEF Cookie
  <2>2. started \in InProgress
    <3>1. CASE call \in Setup
      BY <2>1, <3>1 DEF FirstStep, InProgress, SettingUp, Setup
    <3>2. CASE call \in Login
      BY <2>1, <3>2 DEF FirstStep, InProgress, SigningIn, Login
    <3>3. CASE call \in Logout
      BY <2>1, <3>3 DEF FirstStep, InProgress, SigningOut, Logout
    <3>4. CASE call \in Create
      BY <2>1, <3>4 DEF FirstStep, InProgress, Creating, Create
    <3> QED
      BY <3>1, <3>2, <3>3, <3>4
  <2>3. request' = [request EXCEPT ![r] = started]
    BY <1>2 DEF Send
  <2>4. request' \in [Request -> InProgress \cup {Idle}]
    BY <2>2, <2>3
  <2>5. UNCHANGED <<users, inflight, stray, rows, sessions, issued, expired, lock, severed, jar>> /\ sends' = sends + 1
    BY <1>2 DEF Send
  <2> QED
    BY <2>4, <2>5, TokensGrow DEF Token, NoToken
<1>3. ASSUME NEW r \in Request, Fail(r)
      PROVE  ManagementTypeOK'
  <2>1. request[r].pc # "idle" /\ UNCHANGED <<users, stray, rows, sessions, issued, lock, severed, outside>>
    BY <1>3 DEF Fail, Serving
  <2>2. Keep \in Answers'
    BY DEF Answers
  <2>3. \E pc \in {"unlock", "response"} : Left(r, pc, Keep)
    BY <1>3 DEF Fail, Respond
  <2>4. request' \in [Request -> InProgress' \cup {Idle}]
    BY <2>1, <2>2, <2>3, LeftType
  <2>5. inflight' \subseteq Email
    BY <1>3, AbandonedTypes DEF Fail
  <2> QED
    BY <2>1, <2>4, <2>5 DEF Token, NoToken
<1>4. ASSUME NEW t \in Live, Expire(t)
      PROVE  ManagementTypeOK'
  BY <1>4, TokensGrow DEF Expire, Live, Token, NoToken
<1>5. ASSUME NEW s \in Server, Crash(s)
      PROVE  ManagementTypeOK'
  <2>1. inflight' \subseteq Email
    BY <1>5, AbandonedTypes DEF Crash
  <2>2. request' \in [Request -> InProgress \cup {Idle}]
    BY <1>5 DEF Crash
  <2> QED
    BY <1>1, <1>5, <2>1, <2>2 DEF Crash
<1>6. ASSUME NEW r \in Request, LoseLock(r)
      PROVE  ManagementTypeOK'
  BY <1>1, <1>6 DEF LoseLock
<1>7. ASSUME NEW email \in Email, LateCommit(email)
      PROVE  ManagementTypeOK'
  <2>1. /\ issued' \in {issued, issued + 1}
        /\ sessions' \subseteq sessions \cup {issued'}
        /\ sessions' = sessions \/ issued' = issued + 1
    BY <1>7 DEF LateCommit
  <2>2. /\ users' \subseteq users \cup {email} /\ stray' \subseteq stray \cup {email}
        /\ inflight' \subseteq inflight
    BY <1>7 DEF LateCommit
  <2>3. UNCHANGED <<rows, lock, severed, request, expired, jar, sends>>
    BY <1>7 DEF LateCommit
  <2>4. Token \subseteq Token' /\ InProgress \subseteq InProgress' /\ NoToken' = NoToken
    BY <2>1, TokensGrow DEF NoToken
  <2>5. issued' \in Nat /\ sessions' \subseteq Token'
    BY <2>1, <2>4 DEF Token
  <2> QED
    BY <2>2, <2>3, <2>4, <2>5
<1> QED
  BY <1>2, <1>3, <1>4, <1>5, <1>6, <1>7

\* Requests, cookies, sessions and the lock are what the model says they are.
THEOREM ManagementTypes == ManagementSpec => []ManagementTypeOK
<1>1. ManagementInit => ManagementTypeOK
  BY DEF ManagementInit, ManagementTypeOK, Token
<1>2. ManagementTypeOK /\ [ManagementNext]_managementVars => ManagementTypeOK'
  <2> SUFFICES ASSUME ManagementTypeOK, [ManagementNext]_managementVars
               PROVE  ManagementTypeOK'
    OBVIOUS
  <2>1. ASSUME NEW r \in Request, Serve(r)
        PROVE  ManagementTypeOK'
    BY <2>1, ServeRequest, ServeTypes DEF ManagementTypeOK
  <2>2. CASE UNCHANGED managementVars
    BY <2>2, TokensGrow DEF managementVars, ManagementTypeOK, Token, NoToken
  <2> QED
    BY <2>1, <2>2, OtherTypes DEF ManagementNext
<1> QED
  BY <1>1, <1>2, PTL DEF ManagementSpec

------------------------------------------------------------------------------

\* What a step of r is to the lock and the users: it does not concern them, it
\* takes the lock, goes on with it, creates a user, or releases it.
Apart(r) ==
  /\ request[r].pc \notin Locked /\ request'[r].pc \notin Locked
  /\ UNCHANGED <<lock, severed, users, stray>>
Takes(r) ==
  /\ request[r].pc = "lock" /\ request'[r].pc = "begin"
  /\ lock = None /\ lock' = r
  /\ UNCHANGED <<severed, users, stray>>
GoesOn(r) ==
  /\ request[r].pc \in Locked /\ request'[r].pc \in Locked
  /\ request'[r].pc = "write" => users = {}
  /\ UNCHANGED <<lock, severed, users, stray>>
Creates(r) ==
  /\ request[r].pc = "write" /\ request'[r].pc = "unlock"
  /\ users' = users \cup {request[r].call.email}
  /\ stray' = IF r \in severed THEN stray \cup {request[r].call.email} ELSE stray
  /\ UNCHANGED <<lock, severed>>
Releases(r) ==
  /\ request[r].pc = "unlock" /\ request'[r].pc = "response"
  /\ lock' = IF r \in severed THEN lock ELSE None
  /\ severed' = severed \ {r}
  /\ UNCHANGED <<users, stray>>

\* The steps of one request leave the others where they are.
LEMMA StepsAreTheirOwn ==
  ASSUME ManagementTypeOK, NEW r \in Request,
         \/ Serve(r) \/ Fail(r)
         \/ \E b \in Browser, call \in Setup \cup Login \cup Logout \cup Create : Send(r, b, call)
  PROVE  \A q \in Request \ {r} : request'[q] = request[q]
<1> USE DEF ManagementTypeOK, Advanced, Respond, Left
<1>1. CASE Serve(r)
  BY <1>1 DEF Serve, AcquireLockConnection, Lock, Begin, Recheck, CommitSetup, ConflictOfSetup, Unlock,
       FindCredential, CreateSession, NewSession, Refuse, Authenticate, DeleteSession, FindProject, Insert, Receive
<1>2. CASE Fail(r)
  BY <1>2 DEF Fail
<1>3. CASE \E b \in Browser, call \in Setup \cup Login \cup Logout \cup Create : Send(r, b, call)
  BY <1>3 DEF Send
<1> QED
  BY <1>1, <1>2, <1>3

\* A step of a request is one of the five.
LEMMA StepsAndTheLock ==
  ASSUME ManagementTypeOK, NEW r \in Request,
         \/ Serve(r) \/ Fail(r)
         \/ \E b \in Browser, call \in Setup \cup Login \cup Logout \cup Create : Send(r, b, call)
  PROVE  Apart(r) \/ Takes(r) \/ GoesOn(r) \/ Creates(r) \/ Releases(r)
<1> USE DEF ManagementTypeOK, database, setups, locking, Locked, At
<1>1. ASSUME NEW pc, Advanced(r, pc), request[r].pc # "idle"
      PROVE  request'[r].pc = pc
  <2>1. request[r] \in SettingUp \cup SigningIn \cup SigningOut \cup Creating \cup Ending
    BY <1>1, Places DEF InProgress
  <2> QED
    BY <1>1, <2>1 DEF Advanced, SettingUp, SigningIn, SigningOut, Creating, Ending
<1>2. ASSUME NEW pc, NEW answer, Left(r, pc, answer)
      PROVE  request'[r].pc = pc
  BY <1>2 DEF Left
<1>3. CASE AcquireLockConnection(r) \/ Lock(r) \/ Begin(r)
  BY <1>1, <1>3 DEF AcquireLockConnection, Lock, Begin, Apart, Takes, GoesOn
<1>4. CASE Recheck(r) \/ ConflictOfSetup(r)
  BY <1>1, <1>2, <1>4 DEF Recheck, ConflictOfSetup, GoesOn
<1>5. CASE CommitSetup(r)
  BY <1>2, <1>5 DEF CommitSetup, NewSession, Creates
<1>6. CASE Unlock(r)
  BY <1>2, <1>6 DEF Unlock, Respond, Releases
<1>7. CASE FindCredential(r) \/ CreateSession(r)
  BY <1>1, <1>2, <1>7 DEF FindCredential, CreateSession, NewSession, Respond, Apart
<1>8. CASE Refuse(r) \/ DeleteSession(r) \/ FindProject(r) \/ Insert(r)
  BY <1>1, <1>2, <1>8 DEF Refuse, DeleteSession, FindProject, Insert, Respond, Apart
<1>9. CASE Authenticate(r)
  <2>1. request[r] \in SigningOut \cup Creating
    BY <1>9, Places DEF Authenticate
  <2>2. AfterAuthentication(request[r].call) \in {"delete", "project", "insert"}
    BY <2>1 DEF AfterAuthentication, SigningOut, Creating, Logout, Create
  <2> QED
    BY <1>1, <1>9, <2>2 DEF Authenticate, Apart
<1>10. CASE Receive(r)
  BY <1>10 DEF Receive, Apart, Idle
<1>11. CASE Fail(r)
  <2>1. UNCHANGED <<lock, severed, users, stray>>
    BY <1>11 DEF Fail
  <2>2. IF request[r].pc \in Locked THEN request'[r].pc = "unlock" ELSE request'[r].pc = "response"
    BY <1>2, <1>11 DEF Fail, Respond
  <2> QED
    BY <2>1, <2>2 DEF Apart, GoesOn
<1>12. ASSUME NEW b \in Browser, NEW call \in Setup \cup Login \cup Logout \cup Create, Send(r, b, call)
       PROVE  Apart(r)
  BY <1>12 DEF Send, Apart, FirstStep, Idle
<1> QED
  BY <1>3, <1>4, <1>5, <1>6, <1>7, <1>8, <1>9, <1>10, <1>11, <1>12 DEF Serve

\* Two setups with the lock never check and write at the same time, so one
\* finds the user of the other.
LEMMA OneOwnerStep ==
  ASSUME ManagementTypeOK, LockOwned, OneOwnerUnderLock, [ManagementNext]_managementVars
  PROVE  LockOwned' /\ OneOwnerUnderLock'
<1> USE ManagementAssumption
<1>0. severed \subseteq Request /\ lock \in Request \cup {None}
  BY DEF ManagementTypeOK
<1>1. ASSUME NEW r \in Request,
             \/ Serve(r) \/ Fail(r)
             \/ \E b \in Browser, call \in Setup \cup Login \cup Logout \cup Create : Send(r, b, call)
      PROVE  LockOwned' /\ OneOwnerUnderLock'
  <2>1. \A q \in Request \ {r} : request'[q] = request[q]
    BY <1>1, StepsAreTheirOwn
  <2>2. Apart(r) \/ Takes(r) \/ GoesOn(r) \/ Creates(r) \/ Releases(r)
    BY <1>1, StepsAndTheLock
  <2>3. CASE Apart(r)
    BY <1>0, <2>1, <2>3 DEF Apart, LockOwned, OneOwnerUnderLock, Locked
  <2>4. CASE Takes(r)
    BY <1>0, <2>1, <2>4 DEF Takes, LockOwned, OneOwnerUnderLock, Locked
  <2>5. CASE GoesOn(r)
    BY <1>0, <2>1, <2>5 DEF GoesOn, LockOwned, OneOwnerUnderLock, Locked
  <2>6. CASE Creates(r) /\ r \notin severed
    <3>1. lock = r /\ users \subseteq stray
      BY <2>6 DEF Creates, LockOwned, Locked
    <3>2. \A q \in Request : request'[q].pc = "write" => q \in severed'
      BY <2>1, <2>6, <3>1 DEF Creates, LockOwned, Locked
    <3> QED
      BY <1>0, <2>1, <2>6, <3>1, <3>2 DEF Creates, LockOwned, OneOwnerUnderLock, Locked
  <2>7. CASE Creates(r) /\ r \in severed
    BY <1>0, <2>1, <2>7 DEF Creates, LockOwned, OneOwnerUnderLock, Locked
  <2>8. CASE Releases(r)
    BY <1>0, <2>1, <2>8 DEF Releases, LockOwned, OneOwnerUnderLock, Locked
  <2> QED
    BY <2>2, <2>3, <2>4, <2>5, <2>6, <2>7, <2>8
<1>2. ASSUME NEW t \in Live, Expire(t)
      PROVE  LockOwned' /\ OneOwnerUnderLock'
  BY <1>2 DEF Expire, database, setups, locking, LockOwned, OneOwnerUnderLock
<1>3. ASSUME NEW s \in Server, Crash(s)
      PROVE  LockOwned' /\ OneOwnerUnderLock'
  <2>1. \A q \in Request : request'[q] = IF ServerOf[q] = s THEN Idle ELSE request[q]
    BY <1>3 DEF Crash
  <2>2. lock' = IF lock \in Request /\ ServerOf[lock] = s THEN None ELSE lock
    BY <1>3 DEF Crash
  <2>3. UNCHANGED <<users, stray>> /\ severed' = severed \ {q \in Request : ServerOf[q] = s}
    BY <1>3 DEF Crash
  <2>4. Idle.pc \notin Locked /\ Idle.pc # "write"
    BY DEF Idle, Locked
  <2> QED
    BY <2>1, <2>2, <2>3, <2>4 DEF LockOwned, OneOwnerUnderLock, ManagementTypeOK
<1>4. ASSUME NEW r \in Request, LoseLock(r)
      PROVE  LockOwned' /\ OneOwnerUnderLock'
  BY <1>4 DEF LoseLock, database, setups, LockOwned, OneOwnerUnderLock
<1>5. ASSUME NEW email \in Email, LateCommit(email)
      PROVE  LockOwned' /\ OneOwnerUnderLock'
  <2>1. UNCHANGED <<lock, severed, request>>
    BY <1>5 DEF LateCommit, locking
  <2>2. \/ UNCHANGED <<users, stray>>
        \/ users' = users \cup {email} /\ stray' = stray \cup {email}
    BY <1>5 DEF LateCommit
  <2> QED
    BY <2>1, <2>2 DEF LockOwned, OneOwnerUnderLock
<1>6. CASE UNCHANGED managementVars
  BY <1>6 DEF managementVars, LockOwned, OneOwnerUnderLock
<1> QED
  BY <1>1, <1>2, <1>3, <1>4, <1>5, <1>6 DEF ManagementNext

\* At most one owner is created by setups that keep their lock.
THEOREM ManagementOneOwner == ManagementSpec => []OneOwnerUnderLock
<1>1. ManagementInit => LockOwned /\ OneOwnerUnderLock
  BY ManagementAssumption DEF ManagementInit, LockOwned, OneOwnerUnderLock, Locked, Idle
<1>2. ManagementTypeOK /\ (LockOwned /\ OneOwnerUnderLock) /\ [ManagementNext]_managementVars
        => (LockOwned /\ OneOwnerUnderLock)'
  BY OneOwnerStep
<1> QED
  BY <1>1, <1>2, ManagementTypes, PTL DEF ManagementSpec

------------------------------------------------------------------------------

\* What a request knows of its session: the token of a request that was sent
\* without a live session never becomes live, a handler behind requireAuth was
\* sent with one, and cookies are cleared only when the session is gone.
SessionHistory ==
  \A r \in Request :
    /\ request[r].pc # "idle" => request[r].cookie.live \/ request[r].cookie.token \notin Live
    /\ request[r].pc \in {"delete", "project", "insert"} => request[r].cookie.live
    /\ request[r].pc \in {"unlock", "response"} /\ NoToken \in request[r].answer =>
         request[r].cookie.token \notin Live

\* No step makes a token live that was issued before.
LEMMA NeverLiveAgain ==
  ASSUME ManagementTypeOK, [ManagementNext]_managementVars
  PROVE  \A t \in Token \cup {NoToken} : t \in Live' => t \in Live
<1> USE DEF ManagementTypeOK, database, setups, locking, outside, Live
<1>1. ASSUME NEW r \in Request, Serve(r)
      PROVE  \A t \in Token \cup {NoToken} : t \in Live' => t \in Live
  <2>1. CASE CommitSetup(r) \/ CreateSession(r)
    BY <2>1 DEF CommitSetup, CreateSession, NewSession, Token, NoToken
  <2>2. CASE DeleteSession(r)
    BY <2>2 DEF DeleteSession
  <2>3. CASE \/ AcquireLockConnection(r) \/ Lock(r) \/ Begin(r) \/ Recheck(r)
             \/ ConflictOfSetup(r) \/ Unlock(r)
             \/ FindCredential(r) \/ Refuse(r) \/ Authenticate(r) \/ FindProject(r)
             \/ Insert(r) \/ Receive(r)
    <3>1. UNCHANGED <<sessions, expired>>
      BY <2>3 DEF AcquireLockConnection, Lock, Begin, Recheck, ConflictOfSetup, Unlock,
                  FindCredential, Refuse, Authenticate, FindProject, Insert, Receive
    <3> QED
      BY <3>1
  <2> QED
    BY <1>1, <2>1, <2>2, <2>3 DEF Serve
<1>2. ASSUME NEW r \in Request, Fail(r) \/ LoseLock(r)
      PROVE  \A t \in Token \cup {NoToken} : t \in Live' => t \in Live
  BY <1>2 DEF Fail, LoseLock
<1>3. ASSUME NEW r \in Request, NEW b \in Browser,
             NEW call \in Setup \cup Login \cup Logout \cup Create, Send(r, b, call)
      PROVE  \A t \in Token \cup {NoToken} : t \in Live' => t \in Live
  BY <1>3 DEF Send
<1>4. ASSUME NEW u \in Live, Expire(u)
      PROVE  \A t \in Token \cup {NoToken} : t \in Live' => t \in Live
  BY <1>4 DEF Expire
<1>5. ASSUME NEW s \in Server, Crash(s)
      PROVE  \A t \in Token \cup {NoToken} : t \in Live' => t \in Live
  BY <1>5 DEF Crash
<1>6. CASE UNCHANGED managementVars
  BY <1>6 DEF managementVars
<1>7. ASSUME NEW email \in Email, LateCommit(email)
      PROVE  \A t \in Token \cup {NoToken} : t \in Live' => t \in Live
  <2>1. expired' = expired /\ sessions' \subseteq sessions \cup {issued + 1}
    BY <1>7 DEF LateCommit
  <2> QED
    BY <2>1 DEF Token, NoToken
<1> QED
  BY <1>1, <1>2, <1>3, <1>4, <1>5, <1>6, <1>7 DEF ManagementNext

\* Every cookie carries a token that has been issued, or none.
LEMMA CookieTypes ==
  ASSUME ManagementTypeOK, NEW r \in Request, request[r].pc # "idle"
  PROVE  request[r].cookie.token \in Token \cup {NoToken} /\ request[r].cookie.live \in BOOLEAN
<1>1. request[r] \in InProgress
  BY Places DEF ManagementTypeOK
<1>2. request[r].cookie \in Cookie
  BY <1>1 DEF InProgress, SettingUp, SigningIn, SigningOut, Creating, Ending
<1> QED
  BY <1>2 DEF Cookie

\* A request that stays where it is keeps its history.
LEMMA HistoryOfOthers ==
  ASSUME ManagementTypeOK, SessionHistory, [ManagementNext]_managementVars,
         NEW q \in Request, request'[q] = request[q] \/ request'[q] = Idle
  PROVE  /\ request'[q].pc # "idle" => request'[q].cookie.live \/ request'[q].cookie.token \notin Live'
         /\ request'[q].pc \in {"delete", "project", "insert"} => request'[q].cookie.live
         /\ request'[q].pc \in {"unlock", "response"} /\ NoToken \in request'[q].answer =>
              request'[q].cookie.token \notin Live'
<1>1. CASE request'[q] = Idle
  BY <1>1 DEF Idle
<1>2. CASE request'[q] = request[q]
  BY <1>2, NeverLiveAgain, CookieTypes DEF SessionHistory
<1> QED
  BY <1>1, <1>2

\* What a step of a handler leaves of its request.
LEMMA CookieKept ==
  ASSUME ManagementTypeOK, NEW r \in Request,
         \/ \E pc : Advanced(r, pc) /\ request[r].pc \notin {"idle", "unlock", "response"}
         \/ \E pc, answer : Left(r, pc, answer) /\ request[r].pc # "idle"
  PROVE  request'[r].cookie = request[r].cookie
<1>1. CASE \E pc, answer : Left(r, pc, answer)
  BY <1>1 DEF Left, ManagementTypeOK
<1>2. ASSUME NEW pc, Advanced(r, pc), request[r].pc \notin {"idle", "unlock", "response"}
      PROVE  request'[r].cookie = request[r].cookie
  <2>1. request[r] \in InProgress
    BY <1>2, Places DEF ManagementTypeOK
  <2> QED
    BY <1>2, <2>1 DEF Advanced, ManagementTypeOK, InProgress, SettingUp, SigningIn, SigningOut,
                      Creating, Ending
<1> QED
  BY <1>1, <1>2

\* A request that advances stands where it advances to.
LEMMA PlaceReached ==
  ASSUME ManagementTypeOK, NEW r \in Request, NEW pc, Advanced(r, pc), request[r].pc # "idle"
  PROVE  request'[r].pc = pc
<1>1. request[r] \in InProgress
  BY Places DEF ManagementTypeOK
<1> QED
  BY <1>1 DEF Advanced, ManagementTypeOK, InProgress, SettingUp, SigningIn, SigningOut, Creating, Ending

\* A step of a handler keeps the history of its request.
LEMMA HistoryOfServed ==
  ASSUME ManagementTypeOK, SessionHistory, [ManagementNext]_managementVars, NEW r \in Request,
         Serve(r) \/ Fail(r), ~Receive(r)
  PROVE  /\ request'[r].cookie.live \/ request'[r].cookie.token \notin Live'
         /\ request'[r].pc \in {"delete", "project", "insert"} => request'[r].cookie.live
         /\ request'[r].pc \in {"unlock", "response"} /\ NoToken \in request'[r].answer =>
              request'[r].cookie.token \notin Live'
<1> DEFINE Goal ==
      /\ request'[r].cookie.live \/ request'[r].cookie.token \notin Live'
      /\ request'[r].pc \in {"delete", "project", "insert"} => request'[r].cookie.live
      /\ request'[r].pc \in {"unlock", "response"} /\ NoToken \in request'[r].answer =>
           request'[r].cookie.token \notin Live'
<1>0. request[r].pc # "idle" =>
        /\ request[r].cookie.token \in Token \cup {NoToken} /\ request[r].cookie.live \in BOOLEAN
        /\ request[r].cookie.live \/ request[r].cookie.token \notin Live
        /\ request[r].cookie.token \in Live' => request[r].cookie.token \in Live
  BY CookieTypes, NeverLiveAgain DEF SessionHistory
<1>1. ASSUME NEW pc, Advanced(r, pc), request[r].pc \notin {"idle", "unlock", "response"},
             pc \in {"delete", "project", "insert"} => request[r].cookie.live,
             pc \notin {"unlock", "response"}
      PROVE  Goal
  <2>1. request'[r].cookie = request[r].cookie
    BY <1>1, CookieKept
  <2>2. request'[r].pc = pc
    BY <1>1, PlaceReached
  <2> QED
    BY <1>0, <1>1, <2>1, <2>2
<1>2. ASSUME NEW pc \in {"unlock", "response"}, NEW answer, Left(r, pc, answer), request[r].pc # "idle",
             NoToken \in answer => request[r].cookie.token \notin Live'
      PROVE  Goal
  <2>1. request'[r] = [pc |-> pc, cookie |-> request[r].cookie, answer |-> answer]
    BY <1>2 DEF Left, ManagementTypeOK
  <2> QED
    BY <1>0, <1>2, <2>1
<1>3. NoToken \notin Keep
  BY DEF Keep
<1> SUFFICES Goal
  OBVIOUS
<1> HIDE DEF Goal
<1>4. CASE AcquireLockConnection(r) \/ Lock(r) \/ Begin(r)
  BY <1>1, <1>4 DEF AcquireLockConnection, Lock, Begin, At
<1>5. CASE Recheck(r) \/ ConflictOfSetup(r)
  BY <1>1, <1>2, <1>3, <1>5 DEF Recheck, ConflictOfSetup, At
<1>6. ASSUME NEW pc \in {"unlock", "response"}, NewSession(r, pc), request[r].pc # "idle"
      PROVE  Goal
  <2>1. NoToken \notin {issued + 1}
    BY DEF NoToken, ManagementTypeOK
  <2>2. PICK answer \in {{issued + 1}, Keep} : Left(r, pc, answer)
    BY <1>6 DEF NewSession
  <2> QED
    BY <1>2, <1>3, <1>6, <2>1, <2>2
<1>7. CASE CommitSetup(r) \/ CreateSession(r)
  BY <1>6, <1>7 DEF CommitSetup, CreateSession, At
<1>8. CASE Unlock(r)
  <2>1. NoToken \in request[r].answer => request[r].cookie.token \notin Live'
    BY <1>0, <1>8 DEF Unlock, At, SessionHistory
  <2> QED
    BY <1>2, <1>8, <2>1 DEF Unlock, At, Respond
<1>9. CASE FindCredential(r)
  BY <1>1, <1>2, <1>3, <1>9 DEF FindCredential, At, Respond
<1>10. CASE Refuse(r)
  <2>1. request[r].cookie.token \notin Live'
    BY <1>0, <1>10 DEF Refuse, At, Accepts
  <2> QED
    BY <1>2, <1>10, <2>1 DEF Refuse, At, Respond
<1>11. CASE Authenticate(r)
  <2>1. request[r].cookie.live
    BY <1>0, <1>11 DEF Authenticate, At, Accepts
  <2>2. request[r] \in SigningOut \cup Creating
    BY <1>11, Places DEF Authenticate, At, ManagementTypeOK
  <2>3. AfterAuthentication(request[r].call) \in {"delete", "project", "insert"}
    BY <2>2 DEF AfterAuthentication, SigningOut, Creating, Logout, Create
  <2> QED
    BY <1>1, <1>11, <2>1, <2>3 DEF Authenticate, At
<1>12. CASE DeleteSession(r)
  <2>1. request[r].cookie.token \notin Live'
    BY <1>12 DEF DeleteSession, Live, outside
  <2> QED
    BY <1>2, <1>12, <2>1 DEF DeleteSession, At, Respond
<1>13. CASE FindProject(r)
  <2>1. request[r].cookie.live
    BY <1>13 DEF FindProject, At, SessionHistory
  <2> QED
    BY <1>1, <1>2, <1>3, <1>13, <2>1 DEF FindProject, At, Respond
<1>14. CASE Insert(r)
  BY <1>2, <1>3, <1>14 DEF Insert, At, Respond
<1>15. CASE Fail(r)
  BY <1>2, <1>3, <1>15 DEF Fail, Respond, Serving
<1> QED
  BY <1>4, <1>5, <1>7, <1>8, <1>9, <1>10, <1>11, <1>12, <1>13, <1>14, <1>15 DEF Serve

\* Session history is kept by every step.
LEMMA HistoryStep ==
  ASSUME ManagementTypeOK, SessionHistory, [ManagementNext]_managementVars
  PROVE  SessionHistory'
<1> SUFFICES ASSUME NEW q \in Request
             PROVE  /\ request'[q].pc # "idle" =>
                         request'[q].cookie.live \/ request'[q].cookie.token \notin Live'
                    /\ request'[q].pc \in {"delete", "project", "insert"} => request'[q].cookie.live
                    /\ request'[q].pc \in {"unlock", "response"} /\ NoToken \in request'[q].answer =>
                         request'[q].cookie.token \notin Live'
  BY DEF SessionHistory, NoToken
<1>1. CASE request'[q] = request[q] \/ request'[q] = Idle
  BY <1>1, HistoryOfOthers
<1>2. ASSUME Serve(q) \/ Fail(q), ~Receive(q)
      PROVE  /\ request'[q].cookie.live \/ request'[q].cookie.token \notin Live'
             /\ request'[q].pc \in {"delete", "project", "insert"} => request'[q].cookie.live
             /\ request'[q].pc \in {"unlock", "response"} /\ NoToken \in request'[q].answer =>
                  request'[q].cookie.token \notin Live'
  BY <1>2, HistoryOfServed
<1>3. CASE Receive(q)
  <2>1. request'[q] = Idle
    BY <1>3 DEF Receive, ManagementTypeOK
  <2> QED
    BY <1>1, <2>1
<1>4. ASSUME NEW b \in Browser, NEW call \in Setup \cup Login \cup Logout \cup Create, Send(q, b, call)
      PROVE  /\ request'[q].cookie.live \/ request'[q].cookie.token \notin Live'
             /\ request'[q].pc \notin {"delete", "project", "insert", "unlock", "response"}
  <2>1. request'[q] = [pc |-> FirstStep(call.op), call |-> call,
                       cookie |-> [browser |-> b, token |-> jar[b], live |-> jar[b] \in Live]]
    BY <1>4 DEF Send, ManagementTypeOK
  <2>2. Live' = Live
    BY <1>4 DEF Send, database, Live
  <2>3. request'[q].cookie = [browser |-> b, token |-> jar[b], live |-> jar[b] \in Live]
    BY <2>1
  <2>4. request'[q].cookie.token = jar[b] /\ request'[q].cookie.live = (jar[b] \in Live)
    BY <2>3
  <2>5. FirstStep(call.op) \in {"acquire", "credential", "authenticate"}
    BY DEF FirstStep
  <2>6. request'[q].pc = FirstStep(call.op)
    BY <2>1
  <2>7. request'[q].cookie.live \/ request'[q].cookie.token \notin Live'
    BY <2>2, <2>4
  <2> QED
    BY <2>5, <2>6, <2>7
<1>5. ASSUME NEW r \in Request \ {q},
             \/ Serve(r) \/ Fail(r)
             \/ \E b \in Browser, call \in Setup \cup Login \cup Logout \cup Create : Send(r, b, call)
      PROVE  request'[q] = request[q]
  BY <1>5, StepsAreTheirOwn
<1>6. ASSUME NEW s \in Server, Crash(s)
      PROVE  request'[q] = request[q] \/ request'[q] = Idle
  BY <1>6 DEF Crash
<1>7. CASE \/ \E t \in Live : Expire(t)
           \/ \E email \in Email : LateCommit(email)
           \/ \E r \in Request : LoseLock(r)
           \/ UNCHANGED managementVars
  <2>1. request' = request
    BY <1>7 DEF Expire, LateCommit, LoseLock, managementVars
  <2> QED
    BY <1>1, <2>1
<1> QED
  BY <1>1, <1>2, <1>3, <1>4, <1>5, <1>6, <1>7 DEF ManagementNext

\* The history of every request agrees with its cookies and rows.
LEMMA ManagementHistory == ManagementSpec => []SessionHistory
<1>1. ManagementInit => SessionHistory
  BY DEF ManagementInit, SessionHistory, Idle
<1>2. ManagementTypeOK /\ SessionHistory /\ [ManagementNext]_managementVars => SessionHistory'
  BY HistoryStep
<1> QED
  BY <1>1, <1>2, ManagementTypes, PTL DEF ManagementSpec

\* A request creates its row only if it was itself sent with a live session.
THEOREM ManagementWrites == ManagementSpec => WritesNeedSession
<1>1. ASSUME ManagementTypeOK, SessionHistory, [ManagementNext]_managementVars, rows' # rows
      PROVE  \E r \in Request :
               /\ request[r].pc = "insert" /\ request'[r].pc = "response"
               /\ rows' = rows \cup {request[r].call.row}
               /\ request[r].cookie.live
  <2>1. PICK r \in Request : Insert(r)
    BY <1>1 DEF ManagementNext, Serve, Send, Fail, LoseLock, LateCommit, Expire, Crash, managementVars,
         database, AcquireLockConnection, Lock, Begin, Recheck, CommitSetup, ConflictOfSetup, Unlock,
         FindCredential, CreateSession, Refuse, Authenticate, DeleteSession, FindProject, Receive
  <2>2. request[r].pc = "insert" /\ rows' = rows \cup {request[r].call.row}
    BY <2>1 DEF Insert, At
  <2>3. request'[r].pc = "response"
    BY <1>1, <2>1 DEF Insert, Respond, Left, ManagementTypeOK
  <2> QED
    BY <1>1, <2>2, <2>3 DEF SessionHistory
<1> QED
  BY <1>1, ManagementTypes, ManagementHistory, PTL DEF ManagementSpec, WritesNeedSession

\* A browser loses the cookie of a live session only to a response to a request
\* it had sent with other cookies, or to its own sign out.
THEOREM ManagementCookies == ManagementSpec => SignedInUntilEnded
<1>1. ASSUME ManagementTypeOK, SessionHistory, [ManagementNext]_managementVars,
             NEW b \in Browser, jar[b] \in Live, jar'[b] = NoToken
      PROVE  \E r \in Request :
               /\ request[r].pc = "response" /\ request'[r] = Idle
               /\ request[r].cookie.browser = b /\ request[r].cookie.token # jar[b]
  <2>1. jar[b] # NoToken
    BY <1>1 DEF ManagementTypeOK, Live, Token, NoToken
  <2>2. jar' # jar
    BY <1>1, <2>1
  <2>3. PICK r \in Request : Receive(r)
    BY <1>1, <2>2 DEF ManagementNext, Serve, Send, Fail, LoseLock, LateCommit, Expire, Crash,
         managementVars, outside, AcquireLockConnection, Lock, Begin, Recheck, CommitSetup,
         ConflictOfSetup, Unlock, FindCredential, CreateSession, Refuse, Authenticate, DeleteSession, FindProject, Insert
  <2>4. PICK t \in request[r].answer : jar' = [jar EXCEPT ![request[r].cookie.browser] = t]
    BY <2>2, <2>3 DEF Receive
  <2>5. request[r].cookie.browser = b /\ t = NoToken
    BY <1>1, <2>1, <2>4 DEF ManagementTypeOK
  <2>6. request[r].pc = "response" /\ request'[r] = Idle
    BY <1>1, <2>3 DEF Receive, At, ManagementTypeOK
  <2>7. request[r].cookie.token \notin Live
    BY <1>1, <2>4, <2>5, <2>6 DEF SessionHistory
  <2> QED
    BY <1>1, <2>5, <2>6, <2>7
<1>2. ManagementTypeOK /\ SessionHistory /\ [ManagementNext]_managementVars
        => [\A b \in Browser :
              (jar[b] \in Live /\ jar'[b] = NoToken) =>
                 \E r \in Request :
                   /\ request[r].pc = "response" /\ request'[r] = Idle
                   /\ request[r].cookie.browser = b /\ request[r].cookie.token # jar[b]]_managementVars
  BY <1>1
<1> QED
  BY <1>2, ManagementTypes, ManagementHistory, PTL DEF ManagementSpec, SignedInUntilEnded

==============================================================================
