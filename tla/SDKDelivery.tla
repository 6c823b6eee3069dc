----------------------------- MODULE SDKDelivery -----------------------------
(***************************************************************************)
(* How a change reaches the SDKs of one API replica: database triggers     *)
(* notify when a transaction commits (database/migrate.go), the replica's  *)
(* listener (database/sdk_invalidation.go) publishes to the hub            *)
(* (sdkconfig/invalidation.go), each event stream has a channel of one     *)
(* event (httpapi/sdk_config.go), and an SDK that is told, or that polls,  *)
(* downloads the document again with the ETag it has.                      *)
(*                                                                         *)
(* What a document contains is ConfigurationDocument's; here it is a       *)
(* version, the number of changes it includes.  A document whose           *)
(* statements other requests overlap includes at least what was committed  *)
(* before its first one.  Stored definitions may stop to validate, as      *)
(* TargetingDefinitions shows, until another change repairs them: so long, *)
(* every download is answered with 500.  SDKs are external: they do what   *)
(* docs/sdk-delivery.md asks of them.                                      *)
(***************************************************************************)
EXTENDS Naturals, Sequences

CONSTANTS
  Environment,    \* environments of one project
  Everywhere,     \* the scope of a change all of them deliver
  Sdk,            \* SDK processes, each with a credential of its own
  EnvironmentOf,  \* EnvironmentOf[s]: the environment of the credential of s
  Revocable,      \* SDKs whose credential may be revoked
  MaxChanges,     \* bound on the changes of an environment
  MaxFailures     \* bound on failed downloads, lost connections and restarts

ASSUME DeliveryAssumption ==
  /\ EnvironmentOf \in [Sdk -> Environment] /\ Everywhere \notin Environment
  /\ MaxChanges \in Nat /\ MaxFailures \in Nat

VARIABLES
  version,    \* version[e]: changes to what environment e delivers
  broken,     \* environments whose stored definitions do not validate
  active,     \* the SDKs whose credential is not revoked
  listening,  \* the listener has a connection that executed LISTEN
  queue,      \* notifications the connection has not handed over yet
  stream,     \* stream[s]: the request of s for events
  slot,       \* slot[s]: the channel of the subscription of s
  told,       \* SDKs that have a reason to download
  fetch,      \* fetch[s]: the download of s
  held,       \* held[s]: the version s evaluates with, 0 before the first
  failures,   \* counted for MaxFailures
  lost,       \* history: SDKs that missed a signal since their last download
  unheard     \* history: SDKs whose stream missed the revocation

deliveryVars == <<version, broken, active, listening, queue, stream, slot, told,
                  fetch, held, failures, lost, unheard>>

source == <<version, broken, active>>
listener == <<listening, queue>>
streams == <<stream, slot>>
sdks == <<told, fetch, held>>

\* A notification names an environment or the whole project, or a credential.
Invalidation == [scope: Environment \cup {Everywhere}] \cup [credential: Sdk]

IsRevocation(i) == "credential" \in DOMAIN i

NoFetch == [pc |-> "idle"]

Fetch == {NoFetch} \cup [pc: {"authenticated"}] \cup [pc: {"loaded"}, version: Nat, valid: BOOLEAN]

DeliveryTypeOK ==
  /\ version \in [Environment -> Nat] /\ broken \subseteq Environment
  /\ active \subseteq Sdk
  /\ listening \in BOOLEAN
  /\ queue \in Seq(Invalidation)
  /\ stream \in [Sdk -> {"closed", "authenticated", "open"}]
  /\ slot \in [Sdk -> {"empty", "changed", "revoked"}]
  /\ told \subseteq Sdk
  /\ fetch \in [Sdk -> Fetch]
  /\ held \in [Sdk -> Nat]
  /\ failures \in Nat
  /\ lost \subseteq Sdk /\ unheard \subseteq Sdk
  /\ \A s \in Sdk : slot[s] # "empty" => stream[s] = "open"

------------------------------------------------------------------------------

\* An SDK downloads when it starts; it may connect to the event stream.
DeliveryInit ==
  /\ version = [e \in Environment |-> 1] /\ broken = {}
  /\ active = Sdk
  /\ listening = FALSE /\ queue = <<>>
  /\ stream = [s \in Sdk |-> "closed"] /\ slot = [s \in Sdk |-> "empty"]
  /\ told = Sdk
  /\ fetch = [s \in Sdk |-> NoFetch]
  /\ held = [s \in Sdk |-> 0]
  /\ failures = 0
  /\ lost = {} /\ unheard = {}

\* invalidationMatches: a revocation concerns one credential, a change the
\* environment it names or every environment of the project.
Matches(s, i) ==
  IF IsRevocation(i) THEN i.credential = s
                     ELSE i.scope \in {Everywhere, EnvironmentOf[s]}

\* The SDKs in S miss what a notification says.
Miss(S, i) ==
  /\ lost' = lost \cup IF IsRevocation(i) THEN {} ELSE {s \in S : Matches(s, i)}
  /\ unheard' = unheard \cup IF IsRevocation(i) THEN {s \in S : Matches(s, i)} ELSE {}

\* pg_notify takes effect when the transaction commits; a connection that does
\* not listen by then never sees it.
Notify(i) ==
  /\ queue' = IF listening THEN Append(queue, i) ELSE queue
  /\ Miss(IF listening THEN {} ELSE Sdk, i)

Affected(scope) == {e \in Environment : scope \in {e, Everywhere}}

\* What the affected environments deliver changes, and validates or not.
Write(scope) ==
  /\ \A e \in Environment : version[e] <= MaxChanges
  /\ version' = [e \in Environment |-> IF e \in Affected(scope) THEN version[e] + 1 ELSE version[e]]
  /\ \E spoilt \in SUBSET Affected(scope) : broken' = (broken \ Affected(scope)) \cup spoilt

\* Faulty variant: no trigger on the tables the environments share.
ChangeOfRow(scope) ==
  /\ Write(scope)
  /\ IF scope = Everywhere THEN UNCHANGED <<queue, lost, unheard>> ELSE Notify([scope |-> scope])
  /\ UNCHANGED <<active, listening, streams, sdks, failures>>

\* A transaction writes a row of an environment; or a flag or a segment, which
\* every environment of the project delivers.
Change(scope) ==
  /\ Write(scope)
  /\ Notify([scope |-> scope])
  /\ UNCHANGED <<active, listening, streams, sdks, failures>>

\* RevokeCredential reads the row and revokes it, and the trigger fires; of two
\* that race, the second only repeats the notification.
RevokeCredential(s) ==
  /\ s \in active
  /\ active' = active \ {s}
  /\ Notify([credential |-> s])
  /\ UNCHANGED <<version, broken, listening, streams, sdks, failures>>

\* The listener connects and executes LISTEN.
Listen ==
  /\ ~listening
  /\ listening' = TRUE
  /\ UNCHANGED <<source, queue, streams, sdks, failures, lost, unheard>>

ChangeQueued(s) == \E i \in DOMAIN queue : Matches(s, queue[i]) /\ ~IsRevocation(queue[i])

RevocationQueued(s) == \E i \in DOMAIN queue : Matches(s, queue[i]) /\ IsRevocation(queue[i])

\* The connection breaks, with the notifications it has not handed over.
LoseConnection ==
  /\ failures < MaxFailures /\ failures' = failures + 1
  /\ listening' = FALSE
  /\ queue' = <<>>
  /\ unheard' = unheard \cup {s \in Sdk : RevocationQueued(s)}

Disconnect ==
  /\ listening
  /\ LoseConnection
  /\ lost' = lost \cup {s \in Sdk : ChangeQueued(s)}
  /\ UNCHANGED <<source, streams, sdks>>

\* The replica stops: requests fail, streams break and events are gone.
Restart ==
  /\ LoseConnection
  /\ lost' = lost \cup {s \in Sdk : ChangeQueued(s) \/ slot[s] # "empty" \/ fetch[s] # NoFetch}
  /\ stream' = [s \in Sdk |-> "closed"]
  /\ slot' = [s \in Sdk |-> "empty"]
  /\ fetch' = [s \in Sdk |-> NoFetch]
  /\ UNCHANGED <<source, told, held>>

Event(i) == IF IsRevocation(i) THEN "revoked" ELSE "changed"

\* The listener hands a notification to Publish: every matching subscriber
\* whose channel is empty gets it.  A channel that holds an event already
\* tells its SDK to download, but a revocation is lost on it.
Receive ==
  LET i == Head(queue)
      matching == {s \in Sdk : Matches(s, i)}
      open == {s \in matching : stream[s] = "open"}
      full == {s \in open : slot[s] # "empty"}
  IN /\ queue # <<>>
     /\ queue' = Tail(queue)
     /\ slot' = [s \in Sdk |-> IF s \in open \ full THEN Event(i) ELSE slot[s]]
     /\ Miss(matching \ IF IsRevocation(i) THEN open \ full ELSE open, i)
     /\ UNCHANGED <<source, listening, stream, sdks, failures>>

\* The request for events is authenticated first and subscribed afterwards.
Connect(s) ==
  /\ stream[s] = "closed" /\ s \in active
  /\ stream' = [stream EXCEPT ![s] = "authenticated"]
  /\ UNCHANGED <<source, listener, slot, sdks, failures, lost, unheard>>

Subscribe(s) ==
  /\ stream[s] = "authenticated"
  /\ stream' = [stream EXCEPT ![s] = "open"]
  /\ UNCHANGED <<source, listener, slot, sdks, failures, lost, unheard>>

\* The handler returns and unsubscribes: its channel is gone.
Unsubscribe(s) ==
  /\ stream' = [stream EXCEPT ![s] = "closed"]
  /\ slot' = [slot EXCEPT ![s] = "empty"]

\* Faulty variant: a revocation is announced like a change of configuration.
HandleEventAlike(s) ==
  /\ slot[s] # "empty"
  /\ slot' = [slot EXCEPT ![s] = "empty"]
  /\ told' = told \cup {s}
  /\ UNCHANGED <<source, listener, stream, fetch, held, failures, lost, unheard>>

\* The handler takes the event from its channel and writes it; after a
\* revocation it returns.
HandleEvent(s) ==
  /\ slot[s] # "empty"
  /\ IF slot[s] = "revoked"
       THEN Unsubscribe(s) /\ UNCHANGED told
       ELSE slot' = [slot EXCEPT ![s] = "empty"] /\ told' = told \cup {s} /\ UNCHANGED stream
  /\ UNCHANGED <<source, listener, fetch, held, failures, lost, unheard>>

\* Faulty variant: the channel outlives its subscription.
CloseStreamOnly(s) ==
  /\ stream[s] # "closed"
  /\ stream' = [stream EXCEPT ![s] = "closed"]
  /\ lost' = IF slot[s] = "changed" THEN lost \cup {s} ELSE lost
  /\ UNCHANGED <<source, listener, slot, sdks, failures, unheard>>

\* The client goes away, or a write to it fails.
CloseStream(s) ==
  /\ stream[s] # "closed"
  /\ Unsubscribe(s)
  /\ lost' = IF slot[s] = "changed" THEN lost \cup {s} ELSE lost
  /\ UNCHANGED <<source, listener, sdks, failures, unheard>>

\* The SDK polls from time to time (external).
Poll(s) ==
  /\ s \notin told
  /\ told' = told \cup {s}
  /\ UNCHANGED <<source, listener, streams, fetch, held, failures, lost, unheard>>

\* A download is authenticated; a revoked credential is answered with 401.
Authenticate(s) ==
  /\ s \in told /\ fetch[s] = NoFetch
  /\ told' = told \ {s}
  /\ fetch' = IF s \in active THEN [fetch EXCEPT ![s] = [pc |-> "authenticated"]] ELSE fetch
  /\ UNCHANGED <<source, listener, streams, held, failures, lost, unheard>>

\* LoadConfiguration reads what is committed, valid or not.
Load(s) ==
  /\ fetch[s].pc = "authenticated"
  /\ fetch' = [fetch EXCEPT ![s] = [pc |-> "loaded", version |-> version[EnvironmentOf[s]],
                                    valid |-> EnvironmentOf[s] \notin broken]]
  /\ lost' = lost \ {s}
  /\ UNCHANGED <<source, listener, streams, told, held, failures, unheard>>

\* Faulty variant: every conditional request is answered with 304.
AnswerNotModified(s) ==
  /\ fetch[s].pc = "loaded" /\ fetch[s].valid
  /\ held' = IF held[s] = 0 THEN [held EXCEPT ![s] = fetch[s].version] ELSE held
  /\ fetch' = [fetch EXCEPT ![s] = NoFetch]
  /\ UNCHANGED <<source, listener, streams, told, failures, lost, unheard>>

\* A document that validates is answered: with 304 when the SDK holds it
\* already, with 200 and the document if not.
Answer(s) ==
  /\ fetch[s].pc = "loaded" /\ fetch[s].valid
  /\ held' = IF held[s] = fetch[s].version THEN held ELSE [held EXCEPT ![s] = fetch[s].version]
  /\ fetch' = [fetch EXCEPT ![s] = NoFetch]
  /\ UNCHANGED <<source, listener, streams, told, failures, lost, unheard>>

\* A document that does not validate is answered with 500, and the SDK keeps
\* what it holds.  Nothing bounds how often that happens.
Refuse(s) ==
  /\ fetch[s].pc = "loaded" /\ ~fetch[s].valid
  /\ fetch' = [fetch EXCEPT ![s] = NoFetch]
  /\ UNCHANGED <<source, listener, streams, told, held, failures, lost, unheard>>

\* A download fails for another reason, of the network, of the database or of
\* statements that writes overlap: the SDK keeps what it holds and tries again when it polls.
Fail(s) ==
  /\ fetch[s] # NoFetch
  /\ failures < MaxFailures /\ failures' = failures + 1
  /\ fetch' = [fetch EXCEPT ![s] = NoFetch]
  /\ lost' = lost \cup {s}
  /\ UNCHANGED <<source, listener, streams, told, held, unheard>>

Serve(s) == Connect(s) \/ Subscribe(s) \/ HandleEvent(s) \/ CloseStream(s)

Download(s) == Poll(s) \/ Authenticate(s) \/ Load(s) \/ Answer(s) \/ Refuse(s) \/ Fail(s)

DeliveryNext ==
  \/ \E scope \in Environment \cup {Everywhere} : Change(scope)
  \/ \E s \in Revocable : RevokeCredential(s)
  \/ Listen \/ Disconnect \/ Restart \/ Receive
  \/ \E s \in Sdk : Serve(s) \/ Download(s)

\* The listener reconnects after a second and hands over what it receives, a
\* handler waits for its channel, requests are served and SDKs keep polling.
\* Nobody has to connect to the event stream or to stay connected.
DeliveryFairness ==
  /\ WF_deliveryVars(Listen) /\ WF_deliveryVars(Receive)
  /\ \A s \in Sdk :
       /\ WF_deliveryVars(Subscribe(s)) /\ WF_deliveryVars(HandleEvent(s))
       /\ WF_deliveryVars(Poll(s)) /\ WF_deliveryVars(Authenticate(s))
       /\ WF_deliveryVars(Load(s)) /\ WF_deliveryVars(Answer(s)) /\ WF_deliveryVars(Refuse(s))

DeliverySpec == DeliveryInit /\ [][DeliveryNext]_deliveryVars /\ DeliveryFairness

------------------------------------------------------------------------------

Current(s) == version[EnvironmentOf[s]]

\* A download that will bring s the current version, or a signal that leads to
\* one, is on its way.
Underway(s) ==
  \/ s \in told
  \/ fetch[s].pc = "authenticated"
  \/ fetch[s].pc = "loaded" /\ fetch[s].version = Current(s)
  \/ slot[s] # "empty"
  \/ ChangeQueued(s)

\* The stored definitions of its environment do not validate.
Broken(s) == EnvironmentOf[s] \in broken

\* A stale SDK has a signal on its way, unless one was lost with a connection,
\* a stream or a failed download, or came while it had no stream, or the
\* definitions do not validate now.  Channels of one event never lose a
\* change: the event that fills one is enough for every change dropped on it,
\* whatever the SDK is downloading meanwhile; and an SDK that was answered
\* with 500 gets a signal when the definitions are repaired.
NoSignalLost ==
  \A s \in active : held[s] # Current(s) => Underway(s) \/ s \in lost \/ Broken(s)

\* docs/sdk-delivery.md: polling is the reliability fallback, an interrupted
\* stream must never make an SDK permanently stale.  Once nothing changes any
\* more, every SDK with a valid credential ends with the current document,
\* whatever was lost and however often it was answered with 500 before, unless
\* the changes left the definitions of its environment in a state that does
\* not validate: then every download fails and it keeps an older document.
EventuallyCurrent ==
  \A s \in Sdk : <>[](s \in active => held[s] = Current(s) \/ Broken(s))

\* The stream of a revoked credential closes, unless the revocation was lost
\* with a connection, came before the stream was subscribed or met a channel
\* that was full.
RevocationClosesUnlessUnheard ==
  \A s \in Sdk : s \notin active /\ stream[s] = "open" ~> stream[s] # "open" \/ s \in unheard

\* docs/sdk-delivery.md: "Revoking the credential immediately prevents further
\* configuration downloads and closes matching realtime invalidation streams."
RevocationClosesStream ==
  \A s \in Sdk : stream[s] = "open" /\ RevocationQueued(s) ~> stream[s] # "open"

==============================================================================
