------------------------------ MODULE Management -----------------------------
(***************************************************************************)
(* Requests to the management API outside targeting: the first setup, sign *)
(* in and out (auth/service.go, httpapi/auth.go,                           *)
(* database/auth_repository.go) and the creation of projects, environments *)
(* and feature flags (httpapi/projects.go, environments.go,                *)
(* feature_flags.go and their services and repositories).                  *)
(*                                                                         *)
(* Every statement takes a connection of the replica's pool; setup holds   *)
(* one for its advisory lock, a lock of the session with the database, and *)
(* asks the same pool for a second one, on which its transaction runs      *)
(* (database/ent.go): the lock may go and the transaction go on.  Setup is *)
(* the only writer of users, organisations and memberships.  Its address   *)
(* stands for its unique keys, the slug of the organisation too.  The      *)
(* member of an organisation is its owner, so no role is refused.  A       *)
(* session is the token that identifies it; the CSRF token issued with it  *)
(* goes in the same response and is left out.                              *)
(***************************************************************************)
EXTENDS Naturals, FiniteSets

CONSTANTS
  Server,       \* API replicas on one database
  Request,      \* requests that may be in progress at the same time
  ServerOf,     \* ServerOf[r]: the replica that handles r
  Connections,  \* size of a replica's pool
  Browser,      \* browsers, each with a cookie jar
  None,
  Email,        \* addresses a setup may carry, normalised by the service
  ProjectKey,   \* keys of projects
  Kind,         \* what a project has: environments, feature flags
  Key,          \* their keys
  MaxSends      \* bound on the requests sent

ASSUME ManagementAssumption ==
  /\ IsFiniteSet(Request) /\ ServerOf \in [Request -> Server]
  /\ Connections \in Nat \ {0}
  /\ None \notin Request /\ "project" \notin Kind
  /\ MaxSends \in Nat

VARIABLES
  users,     \* the users, by address; each with a credential and a membership
  rows,      \* projects, environments and feature flags
  sessions,  \* the tokens that have a row
  expired,   \* the tokens whose expiry has passed
  issued,    \* tokens generated so far; the n-th one is n
  lock,      \* the request whose connection has the advisory lock
  severed,   \* setups that go on although their lock's connection is lost
  inflight,  \* setups whose COMMIT no handler waits for any more, by address
  stray,     \* history: users whose setup committed without the lock
  request,   \* request[r]: what r executes and how far it is
  jar,       \* jar[b]: the session cookie of browser b
  sends      \* counted for MaxSends

managementVars == <<users, rows, sessions, expired, issued, lock, severed,
                    inflight, stray, request, jar, sends>>

setups == <<users, inflight, stray>>

database == <<setups, rows, sessions, issued>>

locking == <<lock, severed>>

NoToken == 0

Token == 1 .. issued

Live == sessions \ expired

Row == [kind: {"project"}, key: ProjectKey]
         \cup [kind: Kind, project: ProjectKey, key: Key]

\* What a browser asks for.
Setup == [op: {"bootstrap"}, email: Email]
Login == [op: {"login"}]
Logout == [op: {"logout"}]
Create == [op: {"create"}, row: Row]

\* The cookie a request carries, and whether that session was live when the
\* request was sent (history).
Cookie == [browser: Browser, token: Token \cup {NoToken}, live: BOOLEAN]

Idle == [pc |-> "idle"]

\* The cookie a response sets: none, an empty one, or a new session's.
Keep == {}

Clear == {NoToken}

Answers == {Keep, Clear} \cup {{t} : t \in Token}

\* The places of a request between its statements and calls.
SettingUp == [pc: {"acquire", "lock", "begin", "recheck", "write"}, call: Setup, cookie: Cookie]
SigningIn == [pc: {"credential", "session"}, call: Login, cookie: Cookie]
SigningOut == [pc: {"authenticate", "delete"}, call: Logout, cookie: Cookie]
Creating == [pc: {"authenticate", "project", "insert"}, call: Create, cookie: Cookie]
Ending == [pc: {"unlock", "response"}, cookie: Cookie, answer: Answers]

Serving ==
  {"acquire", "lock", "begin", "recheck", "write", "credential", "session",
   "authenticate", "delete", "project", "insert"}

InProgress == SettingUp \cup SigningIn \cup SigningOut \cup Creating \cup Ending

Locked == {"begin", "recheck", "write", "unlock"}

\* The connections a request keeps between its statements.
Holds(r) ==
  CASE request[r].pc \in {"recheck", "write"} -> 2
    [] request[r].pc \in {"lock", "begin", "unlock"} -> 1
    [] OTHER -> 0

Held(s) == {h \in Request \X {1, 2} : ServerOf[h[1]] = s /\ h[2] <= Holds(h[1])}

\* A connection of the pool is free for r.
Free(r) == Cardinality(Held(ServerOf[r])) < Connections

ManagementTypeOK ==
  /\ users \subseteq Email
  /\ rows \subseteq Row
  /\ issued \in Nat /\ sessions \subseteq Token /\ expired \subseteq Token
  /\ lock \in Request \cup {None} /\ severed \subseteq Request
  /\ inflight \subseteq Email /\ stray \subseteq Email
  /\ request \in [Request -> InProgress \cup {Idle}]
  /\ jar \in [Browser -> Token \cup {NoToken}]
  /\ sends \in Nat

------------------------------------------------------------------------------

ManagementInit ==
  /\ users = {} /\ rows = {}
  /\ sessions = {} /\ expired = {} /\ issued = 0
  /\ lock = None /\ severed = {}
  /\ inflight = {} /\ stray = {}
  /\ request = [r \in Request |-> Idle]
  /\ jar = [b \in Browser |-> NoToken]
  /\ sends = 0

FirstStep(op) ==
  CASE op = "bootstrap" -> "acquire" [] op = "login" -> "credential" [] OTHER -> "authenticate"

\* A browser sends a request with its cookies; what fails decoding or
\* validation is refused without a statement and left out.
Send(r, b, call) ==
  /\ request[r] = Idle
  /\ sends < MaxSends /\ sends' = sends + 1
  /\ request' = [request EXCEPT ![r] =
       [pc |-> FirstStep(call.op), call |-> call,
        cookie |-> [browser |-> b, token |-> jar[b], live |-> jar[b] \in Live]]]
  /\ UNCHANGED <<database, expired, locking, jar>>

At(r, pc) == request[r].pc = pc

Advanced(r, pc) == request' = [request EXCEPT ![r].pc = pc]

\* The handler leaves the repository at `pc` with its answer.
Left(r, pc, answer) ==
  request' = [request EXCEPT ![r] = [pc |-> pc, cookie |-> request[r].cookie, answer |-> answer]]

Respond(r, answer) == Left(r, "response", answer)

outside == <<expired, jar, sends>>

\* Bootstrap, in the order of its calls: a connection, the session's advisory
\* lock on it, a transaction on another connection, the check, the rows.
AcquireLockConnection(r) ==
  /\ At(r, "acquire") /\ Free(r)
  /\ Advanced(r, "lock")
  /\ UNCHANGED <<database, locking, outside>>

\* Faulty variant: a lock that several setups share.
LockShared(r) ==
  /\ At(r, "lock")
  /\ lock' = r
  /\ Advanced(r, "begin")
  /\ UNCHANGED <<database, severed, outside>>

Lock(r) ==
  /\ At(r, "lock") /\ lock = None
  /\ lock' = r
  /\ Advanced(r, "begin")
  /\ UNCHANGED <<database, severed, outside>>

\* The connection with the lock breaks: PostgreSQL releases it, and the
\* handler, which works on the other connection, does not notice.
LoseLock(r) ==
  /\ lock = r
  /\ lock' = None
  /\ severed' = severed \cup {r}
  /\ UNCHANGED <<database, request, outside>>

Begin(r) ==
  /\ At(r, "begin") /\ Free(r)
  /\ Advanced(r, "recheck")
  /\ UNCHANGED <<database, locking, outside>>

\* Any user at all completes the setup: bootstrap_complete.
Recheck(r) ==
  /\ At(r, "recheck")
  /\ IF users = {} THEN Advanced(r, "write") ELSE Left(r, "unlock", Keep)
  /\ UNCHANGED <<database, locking, outside>>

\* A session with a new random token, which the response may or may not carry.
NewSession(r, pc) ==
  /\ issued' = issued + 1
  /\ sessions' = sessions \cup {issued + 1}
  /\ \E answer \in {{issued + 1}, Keep} : Left(r, pc, answer)

\* The commit of the user, credential, organisation, membership and session;
\* its outcome may not reach the handler.
CommitSetup(r) ==
  LET email == request[r].call.email
  IN /\ At(r, "write") /\ email \notin users
     /\ users' = users \cup {email}
     /\ stray' = IF r \in severed THEN stray \cup {email} ELSE stray
     /\ NewSession(r, "unlock")
     /\ UNCHANGED <<rows, inflight, locking, outside>>

\* The unique keys refuse a second user of an address.
ConflictOfSetup(r) ==
  /\ At(r, "write") /\ request[r].call.email \in users
  /\ Left(r, "unlock", Keep)
  /\ UNCHANGED <<database, locking, outside>>

\* The handlers of S are gone; the database may still have a COMMIT of theirs.
Abandoned(S) ==
  \E late \in SUBSET {request[r].call.email : r \in {q \in S : At(q, "write")}} :
    inflight' = inflight \cup late

\* The database executes a COMMIT whose handler is gone, or rolls it back.
LateCommit(email) ==
  /\ email \in inflight
  /\ inflight' = inflight \ {email}
  /\ \/ UNCHANGED <<users, stray, sessions, issued>>
     \/ /\ email \notin users
        /\ users' = users \cup {email} /\ stray' = stray \cup {email}
        /\ issued' = issued + 1 /\ sessions' = sessions \cup {issued + 1}
  /\ UNCHANGED <<rows, locking, request, outside>>

\* Faulty variant: the connection goes back to the pool with the lock.
ReleaseLocked(r) ==
  /\ At(r, "unlock")
  /\ Respond(r, request[r].answer)
  /\ UNCHANGED <<database, locking, outside>>

\* The deferred unlock, with a context that is never cancelled; on a broken
\* connection it does nothing.
Unlock(r) ==
  /\ At(r, "unlock")
  /\ lock' = IF r \in severed THEN lock ELSE None
  /\ severed' = severed \ {r}
  /\ Respond(r, request[r].answer)
  /\ UNCHANGED <<database, outside>>

\* Login: an address without a user and a wrong password are answered alike.
FindCredential(r) ==
  /\ At(r, "credential") /\ Free(r)
  /\ \/ users # {} /\ Advanced(r, "session")
     \/ Respond(r, Keep)
  /\ UNCHANGED <<database, locking, outside>>

\* The row is written first; reading the user for the response may fail.
CreateSession(r) ==
  /\ At(r, "session") /\ Free(r)
  /\ NewSession(r, "response")
  /\ UNCHANGED <<setups, rows, locking, outside>>

\* Faulty variant: a row is enough, whatever its expiry.
AcceptsRow(token) == token \in sessions

Accepts(token) == token \in Live

\* requireAuth: without a session the cookies are cleared, if there were any.
Refuse(r) ==
  /\ At(r, "authenticate") /\ (request[r].cookie.token # NoToken => Free(r))
  /\ ~Accepts(request[r].cookie.token)
  /\ Respond(r, IF request[r].cookie.token = NoToken THEN Keep ELSE Clear)
  /\ UNCHANGED <<database, locking, outside>>

AfterAuthentication(call) ==
  CASE call.op = "logout" -> "delete"
    [] call.op = "create" -> IF call.row.kind = "project" THEN "insert" ELSE "project"

Authenticate(r) ==
  /\ At(r, "authenticate") /\ Free(r)
  /\ Accepts(request[r].cookie.token)
  /\ Advanced(r, AfterAuthentication(request[r].call))
  /\ UNCHANGED <<database, locking, outside>>

\* Faulty variant: the token is blanked and the row stays.
DeleteSessionBlanking(r) ==
  /\ At(r, "delete") /\ Free(r)
  /\ sessions' = (sessions \ {request[r].cookie.token}) \cup {NoToken}
  /\ Respond(r, Clear)
  /\ UNCHANGED <<setups, rows, issued, locking, outside>>

DeleteSession(r) ==
  /\ At(r, "delete") /\ Free(r)
  /\ sessions' = sessions \ {request[r].cookie.token}
  /\ Respond(r, Clear)
  /\ UNCHANGED <<setups, rows, issued, locking, outside>>

\* An environment and a flag need their project: project_not_found.
FindProject(r) ==
  /\ At(r, "project") /\ Free(r)
  /\ IF [kind |-> "project", key |-> request[r].call.row.project] \in rows
       THEN Advanced(r, "insert")
       ELSE Respond(r, Keep)
  /\ UNCHANGED <<database, locking, outside>>

\* INSERT against the unique keys: a second row of a key is a conflict.
Insert(r) ==
  /\ At(r, "insert") /\ Free(r)
  /\ rows' = rows \cup {request[r].call.row}
  /\ Respond(r, Keep)
  /\ UNCHANGED <<setups, sessions, issued, locking, outside>>

\* Faulty variant: an internal error clears the cookies like a missing session.
FailSignedOut(r) ==
  /\ request[r].pc \in Serving
  /\ IF request[r].pc \in Locked THEN Left(r, "unlock", Clear) ELSE Respond(r, Clear)
  /\ UNCHANGED <<database, locking, outside>>

\* A statement fails or the browser gives up: the transaction is rolled back,
\* unless its COMMIT is on its way, and the lock released; a connection that
\* waits for the lock is closed.
Fail(r) ==
  /\ request[r].pc \in Serving
  /\ IF request[r].pc \in Locked THEN Left(r, "unlock", Keep) ELSE Respond(r, Keep)
  /\ Abandoned({r})
  /\ UNCHANGED <<users, stray, rows, sessions, issued, locking, outside>>

\* The response reaches the browser, after whatever other responses, or not.
Receive(r) ==
  /\ At(r, "response")
  /\ jar' \in {jar} \cup {[jar EXCEPT ![request[r].cookie.browser] = t] : t \in request[r].answer}
  /\ request' = [request EXCEPT ![r] = Idle]
  /\ UNCHANGED <<database, expired, locking, sends>>

Expire(t) ==
  /\ expired' = expired \cup {t}
  /\ UNCHANGED <<database, locking, request, jar, sends>>

\* A replica stops: its sessions with the database end, after a COMMIT that
\* is on its way or before it.
Crash(s) ==
  LET here == {r \in Request : ServerOf[r] = s}
  IN /\ \E r \in here : request[r] # Idle
     /\ request' = [r \in Request |-> IF r \in here THEN Idle ELSE request[r]]
     /\ lock' = IF lock \in here THEN None ELSE lock
     /\ severed' = severed \ here
     /\ Abandoned(here)
     /\ UNCHANGED <<users, stray, rows, sessions, issued, outside>>

Serve(r) ==
  \/ AcquireLockConnection(r) \/ Lock(r) \/ Begin(r) \/ Recheck(r)
  \/ CommitSetup(r) \/ ConflictOfSetup(r) \/ Unlock(r)
  \/ FindCredential(r) \/ CreateSession(r)
  \/ Refuse(r) \/ Authenticate(r) \/ DeleteSession(r) \/ FindProject(r) \/ Insert(r)
  \/ Receive(r)

ManagementNext ==
  \/ \E r \in Request :
       \/ \E b \in Browser, call \in Setup \cup Login \cup Logout \cup Create : Send(r, b, call)
       \/ Serve(r)
       \/ Fail(r) \/ LoseLock(r)
  \/ \E email \in Email : LateCommit(email)
  \/ \E t \in Live : Expire(t)
  \/ \E s \in Server : Crash(s)

ManagementSpec == ManagementInit /\ [][ManagementNext]_managementVars

\* The pool and the advisory lock serve those that wait in turn; every other
\* statement ends.  Nothing makes a browser give up.
ManagementFairness == \A r \in Request : SF_managementVars(Serve(r))

FairManagementSpec == ManagementSpec /\ ManagementFairness

------------------------------------------------------------------------------

\* docs/authentication.md: the lock and the check under it prevent concurrent
\* setup requests from creating multiple first owners.  They do, on any number
\* of replicas, beside the owners whose setup committed after the connection
\* of its lock was lost or when its handler was gone.
OneOwnerUnderLock == \A u, v \in users \ stray : u = v

\* A setup has the lock from Lock to Unlock, unless its connection is lost, and
\* a setup that has the lock writes only while no other has written with it:
\* why OneOwnerUnderLock holds.
LockOwned ==
  /\ \A r \in Request : lock = r <=> request[r].pc \in Locked /\ r \notin severed
  /\ \A r \in severed : request[r].pc \in Locked
  /\ \A r \in Request : request[r].pc = "write" /\ r \notin severed => users \subseteq stray

\* Setups have emptied the pool of s: all its connections wait for the lock or
\* stand idle with it, and a setup that had the lock waits for one more.
Jammed(s) ==
  LET holders == {r \in Request : ServerOf[r] = s /\ Holds(r) > 0}
  IN /\ Cardinality(Held(s)) >= Connections
     /\ \A r \in holders : request[r].pc \in {"lock", "begin"}
     /\ \E r \in holders : request[r].pc = "begin"

\* Every request is answered, or finds its replica jammed, or waits for the
\* lock of a setup on a replica that is.
AnsweredUnlessJammed ==
  \A r \in Request :
    []<>(\/ request[r] = Idle
         \/ Jammed(ServerOf[r])
         \/ At(r, "lock") /\ lock # None /\ Jammed(ServerOf[lock]))

\* A browser loses the cookie of a live session only to its own sign out or to
\* a late response to a request it had sent with other cookies.
SignedInUntilEnded ==
  [][\A b \in Browser :
       (jar[b] \in Live /\ jar'[b] = NoToken) =>
          \E r \in Request :
            /\ request[r].pc = "response" /\ request'[r] = Idle
            /\ request[r].cookie.browser = b /\ request[r].cookie.token # jar[b]]_managementVars

\* Whatever a request finds by the time it writes, it creates its row only if
\* it was itself sent with a live session: not after sign out or expiry.
WritesNeedSession ==
  [][rows' # rows =>
       \E r \in Request :
         /\ request[r].pc = "insert" /\ request'[r].pc = "response"
         /\ rows' = rows \cup {request[r].call.row}
         /\ request[r].cookie.live]_managementVars

==============================================================================
