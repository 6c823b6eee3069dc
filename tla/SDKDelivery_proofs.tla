-------------------------- MODULE SDKDelivery_proofs -------------------------
(***************************************************************************)
(* A channel of one event is enough: no SDK with a valid credential misses *)
(* a change, whatever it is downloading, unless a signal was lost with a   *)
(* connection, a stream or a download, or the definitions do not validate. *)
(***************************************************************************)
EXTENDS SDKDelivery, SequenceTheorems, TLAPS

\* The two sorts of notifications.
LEMMA Invalidations ==
  /\ \A i \in Invalidation : IsRevocation(i) => i.credential \in Sdk
  /\ \A i \in Invalidation : ~IsRevocation(i) => i.scope \in Environment \cup {Everywhere}
  /\ \A s \in Sdk : [credential |-> s] \in Invalidation /\ IsRevocation([credential |-> s])
  /\ \A e \in Environment \cup {Everywhere} :
       [scope |-> e] \in Invalidation /\ ~IsRevocation([scope |-> e])
BY DEF Invalidation, IsRevocation

\* The SDKs that miss a signal are SDKs.
LEMMA MissTypes ==
  ASSUME NEW S \in SUBSET Sdk, NEW i, Miss(S, i), lost \subseteq Sdk, unheard \subseteq Sdk
  PROVE  lost' \subseteq Sdk /\ unheard' \subseteq Sdk
BY DEF Miss

\* Committing a notification leaves a queue of notifications.
LEMMA NotifyTypes ==
  ASSUME NEW i \in Invalidation, Notify(i), DeliveryTypeOK
  PROVE  queue' \in Seq(Invalidation) /\ lost' \subseteq Sdk /\ unheard' \subseteq Sdk
<1>1. queue' \in Seq(Invalidation)
  BY DEF Notify, DeliveryTypeOK
<1>2. PICK S \in SUBSET Sdk : Miss(S, i)
  BY DEF Notify
<1> QED
  BY <1>1, <1>2, MissTypes DEF DeliveryTypeOK

\* Every step keeps the types.
LEMMA DeliveryTypeStep ==
  ASSUME DeliveryTypeOK, [DeliveryNext]_deliveryVars
  PROVE  DeliveryTypeOK'
<1> USE DeliveryAssumption DEF DeliveryTypeOK, source, listener, streams, sdks
<1>1. ASSUME NEW scope \in Environment \cup {Everywhere}, Change(scope)
      PROVE  DeliveryTypeOK'
  <2>1. queue' \in Seq(Invalidation) /\ lost' \subseteq Sdk /\ unheard' \subseteq Sdk
    BY <1>1, Invalidations, NotifyTypes DEF Change
  <2>2. version' \in [Environment -> Nat] /\ broken' \subseteq Environment
    BY <1>1 DEF Change, Write, Affected
  <2> QED
    BY <1>1, <2>1, <2>2 DEF Change
<1>2. ASSUME NEW s \in Revocable, RevokeCredential(s)
      PROVE  DeliveryTypeOK'
  <2>1. s \in Sdk
    BY <1>2 DEF RevokeCredential
  <2>2. queue' \in Seq(Invalidation) /\ lost' \subseteq Sdk /\ unheard' \subseteq Sdk
    BY <1>2, <2>1, Invalidations, NotifyTypes DEF RevokeCredential
  <2> QED
    BY <1>2, <2>2 DEF RevokeCredential
<1>3. CASE Listen
  BY <1>3 DEF Listen
<1>q. <<>> \in Seq(Invalidation)
  OBVIOUS
<1>4. CASE Disconnect
  <2>1. queue' = <<>> /\ listening' = FALSE /\ failures' = failures + 1
    BY <1>4 DEF Disconnect, LoseConnection
  <2>l. lost' \subseteq Sdk /\ unheard' \subseteq Sdk
    BY <1>4, Zenon DEF Disconnect, LoseConnection
  <2>u. UNCHANGED <<version, broken, active, stream, slot, told, fetch, held>>
    BY <1>4 DEF Disconnect
  <2>q. queue' \in Seq(Invalidation)
    BY <1>q, <2>1
  <2>f. failures' \in Nat
    BY <2>1
  <2>b. listening' \in BOOLEAN
    BY <2>1
  <2> QED
    BY <2>q, <2>f, <2>b, <2>l, <2>u
<1>5. CASE Restart
  <2>1. queue' = <<>> /\ listening' = FALSE /\ failures' = failures + 1
    BY <1>5 DEF Restart, LoseConnection
  <2>l. lost' \subseteq Sdk /\ unheard' \subseteq Sdk
    BY <1>5, Zenon DEF Restart, LoseConnection
  <2>2. /\ stream' = [s \in Sdk |-> "closed"] /\ slot' = [s \in Sdk |-> "empty"]
        /\ fetch' = [s \in Sdk |-> NoFetch]
    BY <1>5 DEF Restart
  <2>3. fetch' \in [Sdk -> Fetch]
    BY <2>2 DEF Fetch
  <2>u. UNCHANGED <<version, broken, active, told, held>>
    BY <1>5 DEF Restart
  <2>q. queue' \in Seq(Invalidation)
    BY <1>q, <2>1
  <2>f. failures' \in Nat
    BY <2>1
  <2>b. listening' \in BOOLEAN
    BY <2>1
  <2> QED
    BY <2>q, <2>f, <2>b, <2>l, <2>u, <2>2, <2>3
<1>6. CASE Receive
  <2>1. Head(queue) \in Invalidation /\ Tail(queue) \in Seq(Invalidation)
    BY <1>6 DEF Receive
  <2>2. PICK S \in SUBSET Sdk : Miss(S, Head(queue))
    BY <1>6 DEF Receive
  <2>3. lost' \subseteq Sdk /\ unheard' \subseteq Sdk
    BY <2>2, MissTypes
  <2>4. slot' \in [Sdk -> {"empty", "changed", "revoked"}]
    BY <1>6 DEF Receive, Event
  <2>5. \A s \in Sdk : slot'[s] # "empty" => stream[s] = "open"
    BY <1>6 DEF Receive
  <2> QED
    BY <1>6, <2>1, <2>3, <2>4, <2>5 DEF Receive
<1>7. ASSUME NEW s \in Sdk, Serve(s)
      PROVE  DeliveryTypeOK'
  <2>1. CASE Connect(s)
    BY <2>1 DEF Connect
  <2>2. CASE Subscribe(s)
    BY <2>2 DEF Subscribe
  <2>3. CASE HandleEvent(s)
    BY <2>3 DEF HandleEvent, Unsubscribe
  <2>4. CASE CloseStream(s)
    BY <2>4 DEF CloseStream, Unsubscribe
  <2> QED
    BY <1>7, <2>1, <2>2, <2>3, <2>4 DEF Serve
<1>8. ASSUME NEW s \in Sdk, Download(s)
      PROVE  DeliveryTypeOK'
  <2>1. CASE Poll(s)
    BY <2>1 DEF Poll
  <2>2. CASE Authenticate(s)
    <3>1. fetch' \in [Sdk -> Fetch]
      BY <2>2 DEF Authenticate, Fetch
    <3> QED
      BY <2>2, <3>1 DEF Authenticate
  <2>3. CASE Load(s)
    <3>1. version[EnvironmentOf[s]] \in Nat
      OBVIOUS
    <3>2. fetch' \in [Sdk -> Fetch]
      BY <2>3, <3>1 DEF Load, Fetch
    <3> QED
      BY <2>3, <3>2 DEF Load
  <2>4. CASE Answer(s)
    <3>0. fetch[s] \in Fetch /\ fetch[s].pc = "loaded"
      BY <2>4 DEF Answer
    <3>1. fetch[s].version \in Nat
      BY <3>0 DEF NoFetch, Fetch
    <3>2. held' \in [Sdk -> Nat] /\ fetch' \in [Sdk -> Fetch]
      BY <2>4, <3>1 DEF Answer, Fetch
    <3> QED
      BY <2>4, <3>2 DEF Answer
  <2>5. CASE Refuse(s)
    <3>1. fetch' \in [Sdk -> Fetch]
      BY <2>5 DEF Refuse, Fetch
    <3> QED
      BY <2>5, <3>1 DEF Refuse
  <2>6. CASE Fail(s)
    <3>1. fetch' \in [Sdk -> Fetch]
      BY <2>6 DEF Fail, Fetch
    <3> QED
      BY <2>6, <3>1 DEF Fail
  <2> QED
    BY <1>8, <2>1, <2>2, <2>3, <2>4, <2>5, <2>6 DEF Download
<1>9. CASE UNCHANGED deliveryVars
  BY <1>9 DEF deliveryVars
<1> QED
  BY <1>1, <1>2, <1>3, <1>4, <1>5, <1>6, <1>7, <1>8, <1>9 DEF DeliveryNext

\* Notifications, streams, channels and downloads are what the model says.
THEOREM DeliveryTypes == DeliverySpec => []DeliveryTypeOK
<1>1. ASSUME DeliveryInit PROVE DeliveryTypeOK
  <2>1. queue \in Seq(Invalidation)
    BY <1>1 DEF DeliveryInit
  <2>2. version \in [Environment -> Nat] /\ held \in [Sdk -> Nat]
    BY <1>1 DEF DeliveryInit
  <2>3. fetch \in [Sdk -> Fetch]
    BY <1>1 DEF DeliveryInit, Fetch
  <2> QED
    BY <1>1, <2>1, <2>2, <2>3 DEF DeliveryInit, DeliveryTypeOK
<1>2. DeliveryTypeOK /\ [DeliveryNext]_deliveryVars => DeliveryTypeOK'
  BY DeliveryTypeStep
<1> QED
  BY <1>1, <1>2, PTL DEF DeliverySpec

------------------------------------------------------------------------------

\* Something will make s download, or made it miss a reason to.
Signal(s) == s \in told \/ slot[s] # "empty" \/ ChangeQueued(s) \/ s \in lost

\* Without a signal, an SDK holds the current version or is about to, or the
\* definitions do not validate.
Informed(s) ==
  \/ Signal(s)
  \/ fetch[s].pc = "authenticated"
  \/ fetch[s].pc = "loaded" /\ fetch[s].version = Current(s) /\ (fetch[s].valid \/ Broken(s))
  \/ fetch[s] = NoFetch /\ (held[s] = Current(s) \/ Broken(s))

\* Only SDKs whose credential is revoked are told so.
RevocationsTrue ==
  /\ \A s \in Sdk : slot[s] = "revoked" => s \notin active
  /\ \A i \in DOMAIN queue : IsRevocation(queue[i]) => queue[i].credential \notin active

DeliveryInv == RevocationsTrue /\ \A s \in active : Informed(s)

\* SDKs that are informed miss no signal.
LEMMA InformedEnough ==
  ASSUME DeliveryTypeOK, DeliveryInv
  PROVE  NoSignalLost
BY DEF DeliveryTypeOK, DeliveryInv, Informed, Signal, NoSignalLost, Underway, Broken

\* A notification that is committed is queued, or every SDK it concerns
\* misses it.
LEMMA Notified ==
  ASSUME DeliveryTypeOK, NEW i \in Invalidation, Notify(i)
  PROVE  /\ \A s \in Sdk : ChangeQueued(s) => ChangeQueued(s)'
         /\ lost \subseteq lost'
         /\ ~IsRevocation(i) => \A s \in Sdk : Matches(s, i) => ChangeQueued(s)' \/ s \in lost'
         /\ \A j \in DOMAIN queue' : queue'[j] = i \/ (j \in DOMAIN queue /\ queue'[j] = queue[j])
<1>0. queue \in Seq(Invalidation)
  BY DEF DeliveryTypeOK
<1>1. CASE listening
  <2>1. queue' = Append(queue, i)
    BY <1>1 DEF Notify
  <2>2. /\ DOMAIN queue' = 1 .. Len(queue) + 1 /\ DOMAIN queue = 1 .. Len(queue)
        /\ queue'[Len(queue) + 1] = i /\ Len(queue) \in Nat
        /\ \A j \in DOMAIN queue : queue'[j] = queue[j]
    BY <1>0, <2>1
  <2>3. lost \subseteq lost'
    BY DEF Notify, Miss
  <2>4. \A s \in Sdk : ChangeQueued(s) => ChangeQueued(s)'
    BY <2>2 DEF ChangeQueued, Matches
  <2>5. ~IsRevocation(i) => \A s \in Sdk : Matches(s, i) => ChangeQueued(s)'
    BY <2>2 DEF ChangeQueued, Matches
  <2>6. \A j \in DOMAIN queue' : queue'[j] = i \/ (j \in DOMAIN queue /\ queue'[j] = queue[j])
    BY <2>2
  <2> QED
    BY <2>3, <2>4, <2>5, <2>6
<1>2. CASE ~listening
  <2>1. queue' = queue /\ Miss(Sdk, i)
    BY <1>2 DEF Notify
  <2>2. \A s \in Sdk : ChangeQueued(s) => ChangeQueued(s)'
    BY <2>1 DEF ChangeQueued, Matches
  <2>3. lost \subseteq lost' /\ (~IsRevocation(i) => \A s \in Sdk : Matches(s, i) => s \in lost')
    BY <2>1 DEF Miss
  <2> QED
    BY <2>1, <2>2, <2>3
<1> QED
  BY <1>1, <1>2

\* A change is queued for every SDK it concerns, or missed by it.
LEMMA ChangeInforms ==
  ASSUME DeliveryTypeOK, DeliveryInv, NEW scope \in Environment \cup {Everywhere}, Change(scope)
  PROVE  DeliveryInv'
<1> USE DEF listener, streams, sdks
<1>1. [scope |-> scope] \in Invalidation /\ ~IsRevocation([scope |-> scope])
  BY Invalidations
<1>2. UNCHANGED <<active, listening, stream, slot, told, fetch, held, failures>>
  BY DEF Change
<1>3. Notify([scope |-> scope]) /\ Write(scope)
  BY DEF Change
<1>4. /\ \A s \in Sdk : ChangeQueued(s) => ChangeQueued(s)'
      /\ lost \subseteq lost'
      /\ \A s \in Sdk : Matches(s, [scope |-> scope]) => ChangeQueued(s)' \/ s \in lost'
      /\ \A j \in DOMAIN queue' : queue'[j] = [scope |-> scope] \/ (j \in DOMAIN queue /\ queue'[j] = queue[j])
  BY <1>1, <1>3, Notified
<1>5. RevocationsTrue'
  BY <1>1, <1>2, <1>4 DEF DeliveryInv, RevocationsTrue, IsRevocation
<1>6. ASSUME NEW s \in active'
      PROVE  Informed(s)'
  <2>1. s \in active /\ s \in Sdk /\ Informed(s)
    BY <1>2, <1>6 DEF DeliveryInv, DeliveryTypeOK
  <2>2. CASE Matches(s, [scope |-> scope])
    BY <1>4, <2>1, <2>2 DEF Informed, Signal
  <2>3. CASE ~Matches(s, [scope |-> scope])
    <3>1. EnvironmentOf[s] \in Environment /\ scope \notin {Everywhere, EnvironmentOf[s]}
      BY <1>1, <2>1, <2>3, DeliveryAssumption DEF Matches
    <3>2. Current(s)' = Current(s) /\ Broken(s)' = Broken(s)
      BY <1>3, <3>1 DEF Current, Broken, Write, Affected
    <3> QED
      BY <1>2, <1>4, <2>1, <3>2 DEF Informed, Signal
  <2> QED
    BY <2>2, <2>3
<1> QED
  BY <1>5, <1>6 DEF DeliveryInv

\* A revocation tells nobody else.
LEMMA RevocationInforms ==
  ASSUME DeliveryTypeOK, DeliveryInv, NEW r \in Revocable, RevokeCredential(r)
  PROVE  DeliveryInv'
<1> USE DEF listener, streams, sdks
<1>0. r \in Sdk
  BY DEF RevokeCredential, DeliveryTypeOK
<1>1. [credential |-> r] \in Invalidation /\ [credential |-> r].credential = r
  BY <1>0, Invalidations
<1>2. UNCHANGED <<version, broken, listening, stream, slot, told, fetch, held, failures>> /\ active' = active \ {r}
  BY DEF RevokeCredential
<1>3. Notify([credential |-> r])
  BY DEF RevokeCredential
<1>4. /\ \A s \in Sdk : ChangeQueued(s) => ChangeQueued(s)'
      /\ lost \subseteq lost'
      /\ \A j \in DOMAIN queue' : queue'[j] = [credential |-> r] \/ (j \in DOMAIN queue /\ queue'[j] = queue[j])
  BY <1>1, <1>3, Notified
<1>5. RevocationsTrue'
  BY <1>1, <1>2, <1>4 DEF DeliveryInv, RevocationsTrue, IsRevocation
<1>6. ASSUME NEW s \in active'
      PROVE  Informed(s)'
  <2>1. s \in active /\ s \in Sdk /\ Informed(s)
    BY <1>2, <1>6 DEF DeliveryInv, DeliveryTypeOK
  <2> QED
    BY <1>2, <1>4, <2>1 DEF Informed, Signal, Current, Broken
<1> QED
  BY <1>5, <1>6 DEF DeliveryInv

\* Signals lost with the connection or the process are counted as lost.
LEMMA LossInforms ==
  ASSUME DeliveryTypeOK, DeliveryInv, Disconnect \/ Restart
  PROVE  DeliveryInv'
<1> USE DEF source, streams, sdks
<1>1. queue' = <<>> /\ UNCHANGED <<version, broken, active, told, held>>
  BY DEF Disconnect, Restart, LoseConnection
<1>2. \A s \in Sdk : (s \in lost \/ ChangeQueued(s)) => s \in lost'
  BY DEF Disconnect, Restart
<1>3. \A s \in Sdk : (slot[s] # "empty" => s \in lost') \/ slot'[s] = slot[s]
  BY DEF Disconnect, Restart
<1>4. \A s \in Sdk : fetch'[s] = fetch[s] \/ (fetch'[s] = NoFetch /\ s \in lost')
  BY DEF Disconnect, Restart, DeliveryTypeOK
<1>5. \A s \in Sdk : slot'[s] \in {slot[s], "empty"}
  BY DEF Disconnect, Restart
<1>6. RevocationsTrue'
  BY <1>1, <1>5 DEF DeliveryInv, RevocationsTrue
<1>7. ASSUME NEW s \in active'
      PROVE  Informed(s)'
  <2>1. s \in active /\ s \in Sdk /\ Informed(s)
    BY <1>1, <1>7 DEF DeliveryInv, DeliveryTypeOK
  <2>2. Signal(s) => Signal(s)'
    BY <1>1, <1>2, <1>3, <2>1 DEF Signal
  <2> QED
    BY <1>1, <1>4, <2>1, <2>2 DEF Informed, Signal, Current, Broken
<1> QED
  BY <1>6, <1>7 DEF DeliveryInv

\* A change is handed to an SDK with a channel that has room, is dropped on
\* one that holds an event, or is missed.
LEMMA ReceiptInforms ==
  ASSUME DeliveryTypeOK, DeliveryInv, Receive
  PROVE  DeliveryInv'
<1> DEFINE i == Head(queue)
<1> USE DEF source, sdks
<1>1. UNCHANGED <<version, broken, active, told, fetch, held>> /\ queue # <<>> /\ queue' = Tail(queue)
  BY DEF Receive
<1>2. queue \in Seq(Invalidation)
  BY DEF DeliveryTypeOK
<1>3. /\ i = queue[1] /\ 1 \in DOMAIN queue
      /\ \A j \in DOMAIN queue \ {1} : j - 1 \in DOMAIN queue' /\ queue'[j - 1] = queue[j]
      /\ \A j \in DOMAIN queue' : j + 1 \in DOMAIN queue /\ queue'[j] = queue[j + 1]
  BY <1>1, <1>2
<1>4. \A s \in Sdk : slot'[s] =
        IF Matches(s, i) /\ stream[s] = "open" /\ slot[s] = "empty" THEN Event(i) ELSE slot[s]
  BY DEF Receive
<1>5. /\ lost \subseteq lost'
      /\ \A s \in Sdk : Matches(s, i) /\ ~IsRevocation(i) /\ stream[s] # "open" => s \in lost'
  BY DEF Receive, Miss
<1> HIDE DEF i
<1>6. RevocationsTrue'
  <2>1. \A s \in Sdk : slot'[s] = "revoked" => s \notin active'
    <3> SUFFICES ASSUME NEW s \in Sdk, slot'[s] = "revoked" PROVE s \notin active
      BY <1>1
    <3>1. CASE slot[s] = "revoked"
      BY <3>1 DEF DeliveryInv, RevocationsTrue
    <3>2. CASE slot[s] # "revoked"
      <4>1. Matches(s, i) /\ Event(i) = "revoked"
        BY <1>4, <3>2
      <4>2. IsRevocation(i) /\ i.credential = s
        BY <4>1 DEF Event, Matches
      <4> QED
        BY <1>3, <4>2 DEF DeliveryInv, RevocationsTrue
    <3> QED
      BY <3>1, <3>2
  <2>2. \A j \in DOMAIN queue' : IsRevocation(queue'[j]) => queue'[j].credential \notin active'
    BY <1>1, <1>3 DEF DeliveryInv, RevocationsTrue
  <2> QED
    BY <2>1, <2>2 DEF RevocationsTrue, IsRevocation
<1>7. ASSUME NEW s \in active'
      PROVE  Informed(s)'
  <2>1. s \in active /\ s \in Sdk /\ Informed(s)
    BY <1>1, <1>7 DEF DeliveryInv, DeliveryTypeOK
  <2>2. slot[s] # "empty" => slot'[s] # "empty"
    BY <1>4, <2>1
  <2>3. ASSUME ChangeQueued(s) PROVE Signal(s)'
    <3>1. PICK j \in DOMAIN queue : Matches(s, queue[j]) /\ ~IsRevocation(queue[j])
      BY <2>3 DEF ChangeQueued
    <3>2. CASE j # 1
      <4>1. j - 1 \in DOMAIN queue' /\ queue'[j - 1] = queue[j]
        BY <1>3, <3>2
      <4> QED
        BY <3>1, <4>1 DEF Signal, ChangeQueued, Matches
    <3>3. CASE j = 1
      <4>1. Matches(s, i) /\ ~IsRevocation(i) /\ Event(i) = "changed"
        BY <1>3, <3>1, <3>3 DEF Event
      <4> QED
        BY <1>4, <1>5, <2>1, <4>1 DEF Signal
    <3> QED
      BY <3>2, <3>3
  <2>4. Signal(s) => Signal(s)'
    BY <1>1, <1>5, <2>2, <2>3 DEF Signal
  <2> QED
    BY <1>1, <2>1, <2>4 DEF Informed, Current, Broken
<1> QED
  BY <1>6, <1>7 DEF DeliveryInv

\* A stream that opens, closes or writes an event leaves its SDK informed.
LEMMA ServingInforms ==
  ASSUME DeliveryTypeOK, DeliveryInv, NEW s \in Sdk, Serve(s)
  PROVE  DeliveryInv'
<1> USE DEF source, listener, sdks, DeliveryTypeOK
<1>1. UNCHANGED <<version, broken, active, queue, fetch, held>>
  BY DEF Serve, Connect, Subscribe, HandleEvent, CloseStream
<1>2. told \subseteq told' /\ lost \subseteq lost'
  BY DEF Serve, Connect, Subscribe, HandleEvent, CloseStream
<1>3. \A q \in Sdk : slot'[q] \in {slot[q], "empty"}
  BY DEF Serve, Connect, Subscribe, HandleEvent, CloseStream, Unsubscribe
<1>4. \A q \in Sdk : slot[q] = "changed" => slot'[q] = "changed" \/ q \in told' \/ q \in lost'
  BY DEF Serve, Connect, Subscribe, HandleEvent, CloseStream, Unsubscribe
<1>5. RevocationsTrue'
  BY <1>1, <1>3 DEF DeliveryInv, RevocationsTrue
<1>6. ASSUME NEW q \in active'
      PROVE  Informed(q)'
  <2>1. q \in active /\ q \in Sdk /\ Informed(q) /\ slot[q] # "revoked"
    BY <1>1, <1>6 DEF DeliveryInv, RevocationsTrue
  <2>2. ChangeQueued(q)' = ChangeQueued(q)
    BY <1>1 DEF ChangeQueued, Matches
  <2>3. Signal(q) => Signal(q)'
    BY <1>2, <1>4, <2>1, <2>2 DEF Signal
  <2> QED
    BY <1>1, <2>1, <2>3 DEF Informed, Current, Broken
<1> QED
  BY <1>5, <1>6 DEF DeliveryInv

\* A download leaves its SDK informed.
LEMMA DownloadInforms ==
  ASSUME DeliveryTypeOK, DeliveryInv, NEW s \in Sdk, Download(s)
  PROVE  DeliveryInv'
<1> USE DEF source, listener, streams, DeliveryTypeOK
<1>1. UNCHANGED <<version, broken, active, queue, stream, slot>>
  BY DEF Download, Poll, Authenticate, Load, Answer, Refuse, Fail
<1>2. RevocationsTrue'
  BY <1>1 DEF DeliveryInv, RevocationsTrue
<1>3. \A q \in Sdk \ {s} : /\ q \in told => q \in told'
                           /\ q \in lost => q \in lost'
                           /\ fetch'[q] = fetch[q] /\ held'[q] = held[q]
  BY DEF Download, Poll, Authenticate, Load, Answer, Refuse, Fail
<1>4. ASSUME NEW q \in active'
      PROVE  Informed(q)'
  <2>1. q \in active /\ q \in Sdk /\ Informed(q)
    BY <1>1, <1>4 DEF DeliveryInv
  <2>2. ChangeQueued(q)' = ChangeQueued(q)
    BY <1>1 DEF ChangeQueued, Matches
  <2>3. CASE q # s
    BY <1>1, <1>3, <2>1, <2>2, <2>3 DEF Informed, Signal, Current, Broken
  <2>4. CASE q = s
    <3>1. CASE Poll(s)
      BY <2>4, <3>1 DEF Poll, Informed, Signal
    <3>2. CASE Authenticate(s)
      <4>1. fetch'[s].pc = "authenticated"
        BY <2>1, <2>4, <3>2 DEF Authenticate
      <4> QED
        BY <2>4, <4>1 DEF Informed
    <3>3. CASE Load(s)
      <4>1. fetch'[s] = [pc |-> "loaded", version |-> Current(s), valid |-> ~Broken(s)]
        BY <3>3 DEF Load, Current, Broken
      <4>2. fetch'[s].pc = "loaded" /\ fetch'[s].version = Current(s)
        BY <4>1
      <4>3. fetch'[s].valid <=> ~Broken(s)
        <5>1. [pc |-> "loaded", version |-> Current(s), valid |-> ~Broken(s)].valid = ~Broken(s)
          BY Zenon
        <5> QED
          BY <4>1, <5>1, Zenon
      <4> QED
        BY <1>1, <2>4, <4>2, <4>3 DEF Informed, Current, Broken
    <3>4. CASE Answer(s)
      <4>1. fetch'[s] = NoFetch /\ held'[s] = fetch[s].version /\ fetch[s].pc = "loaded"
        BY <3>4 DEF Answer
      <4>2. UNCHANGED <<told, lost>>
        BY <3>4 DEF Answer
      <4> QED
        BY <1>1, <2>1, <2>2, <2>4, <4>1, <4>2 DEF Informed, Signal, Current, Broken, NoFetch
    <3>5. CASE Refuse(s)
      <4>1. fetch'[s] = NoFetch /\ fetch[s].pc = "loaded" /\ ~fetch[s].valid
        BY <3>5 DEF Refuse
      <4>2. UNCHANGED <<told, lost, held>>
        BY <3>5 DEF Refuse
      <4>3. Signal(s) \/ Broken(s)
        BY <2>1, <2>4, <4>1 DEF Informed, NoFetch
      <4> QED
        BY <1>1, <2>2, <2>4, <4>1, <4>2, <4>3 DEF Informed, Signal, Broken
    <3>6. CASE Fail(s)
      BY <2>4, <3>6 DEF Fail, Informed, Signal
    <3> QED
      BY <3>1, <3>2, <3>3, <3>4, <3>5, <3>6 DEF Download
  <2> QED
    BY <2>3, <2>4
<1> QED
  BY <1>2, <1>4 DEF DeliveryInv

\* No SDK with a valid credential is stale without a signal on its way, unless
\* one was lost with a connection, a stream or a download, or the definitions
\* of its environment do not validate.
THEOREM DeliverySignals == DeliverySpec => []NoSignalLost
<1>1. ASSUME DeliveryInit PROVE DeliveryInv
  <2>1. \A s \in Sdk : s \in told /\ slot[s] = "empty"
    BY <1>1 DEF DeliveryInit
  <2>2. DOMAIN queue = {}
    BY <1>1 DEF DeliveryInit
  <2> QED
    BY <1>1, <2>1, <2>2 DEF DeliveryInit, DeliveryInv, RevocationsTrue, Informed, Signal
<1>2. ASSUME DeliveryTypeOK, DeliveryInv, [DeliveryNext]_deliveryVars
      PROVE  DeliveryInv'
  <2>1. CASE Listen
    <3>1. UNCHANGED <<version, broken, active, queue, stream, slot, told, fetch, held, lost>>
      BY <2>1 DEF Listen, source, streams, sdks
    <3> QED
      BY <1>2, <3>1 DEF DeliveryInv, RevocationsTrue, Informed, Signal, Current, Broken, ChangeQueued, Matches
  <2>2. CASE UNCHANGED deliveryVars
    BY <1>2, <2>2 DEF deliveryVars, DeliveryInv, RevocationsTrue, Informed, Signal, Current, Broken,
                      ChangeQueued, Matches
  <2> QED
    BY <1>2, <2>1, <2>2, ChangeInforms, RevocationInforms, LossInforms, ReceiptInforms,
       ServingInforms, DownloadInforms DEF DeliveryNext
<1>3. DeliveryTypeOK /\ DeliveryInv => NoSignalLost
  BY InformedEnough
<1> QED
  BY <1>1, <1>2, <1>3, DeliveryTypes, PTL DEF DeliverySpec

==============================================================================
