------------------------- MODULE FlagScheduler_proofs -------------------------
(***************************************************************************)
(* The queue of scheduled changes, proved for any number of replicas,      *)
(* requests, schedules and targets, any lease and any batch limit.         *)
(*                                                                         *)
(* QueueInv is inductive.  Beside the properties it carries the facts they *)
(* lean on (References): what a batch has listed, what a replica has       *)
(* claimed and what a cancel has read exists, a claimed row has left       *)
(* "pending" for good and carries a token, and nothing is claimed early.   *)
(* FlagConfig_proofs supplies the invariant of the configuration rows that *)
(* scheduled changes share with interactive requests.                      *)
(***************************************************************************)
EXTENDS FlagScheduler, FlagConfig_proofs

\* A change a batch has listed, a claim, or a cancel in progress refers to a
\* row that exists; a claimed row is past its due time and carries a token.
References ==
  /\ \A o \in Operator : \A s \in cancelling[o] : schedule[s] # NoSchedule
  /\ \A w \in Worker : \A s \in listed[w] :
       schedule[s] # NoSchedule /\ schedule[s].executeAt <= batchNow[w]
  /\ \A w \in Worker : \A s \in Claimed(w) :
       /\ schedule[s] # NoSchedule
       /\ schedule[s].status # "pending"
       /\ schedule[s].claimToken # NoToken
       /\ schedule[s].executeAt <= now
  /\ \A w \in Worker : batchNow[w] <= now
  /\ \A s \in Schedule : schedule[s].status = "running" => schedule[s].executeAt <= now

QueueInv ==
  /\ TypeOK
  /\ ConfigInv
  /\ References
  /\ AppliedMatchesStatus
  /\ NotBeforeDue

\* A row of the table is not the missing row, and its fields are in range.
LEMMA RowFields ==
  ASSUME NEW r \in ScheduleRow \cup {NoSchedule}
  PROVE  /\ r # NoSchedule <=> r \in ScheduleRow
         /\ r.status = "absent" <=> r = NoSchedule
         /\ r \in ScheduleRow =>
              /\ r.status \in Status
              /\ r.executeAt \in Nat
              /\ r.claimToken \in Nat
              /\ r.claimedAt \in Nat
  BY DEF ScheduleRow, NoSchedule, Status

\* An UPDATE of a row changes the columns it sets.
LEMMA RowStatus ==
  ASSUME NEW r \in ScheduleRow, NEW x \in Status
  PROVE  LET q == [r EXCEPT !.status = x]
         IN  /\ q \in ScheduleRow /\ q.status = x
             /\ q.executeAt = r.executeAt /\ q.claimToken = r.claimToken
             /\ q.claimedAt = r.claimedAt /\ q.target = r.target /\ q.patch = r.patch
  BY DEF ScheduleRow

\* A replica moves to a stage; a replica drops a claim, or all of them.
LEMMA GoesStage ==
  ASSUME QueueInv, NEW w \in Worker, NEW g \in WorkerStage, Goes(w, g)
  PROVE  pc' \in [Worker -> WorkerStage]
  BY DEF Goes, QueueInv, TypeOK

\* What dropping a claim leaves of the claims.
LEMMA DropClaim ==
  ASSUME QueueInv, NEW w \in Worker, NEW s \in Schedule, Drop(w, s)
  PROVE  /\ claim' \in [Worker -> [Schedule -> Nat]]
         /\ \A v \in Worker, u \in Schedule :
              claim'[v][u] = IF v = w /\ u = s THEN NoToken ELSE claim[v][u]
<1>1. claim \in [Worker -> [Schedule -> Nat]] /\ NoToken \in Nat
  BY DEF QueueInv, TypeOK, NoToken
<1>2. claim' = [claim EXCEPT ![w][s] = NoToken]
  BY DEF Drop
<1> HIDE DEF NoToken
<1>3. QED
  BY <1>1, <1>2

------------------------------------------------------------------------------

\* The empty queue satisfies the invariant.
LEMMA QueueInitInv == Init => QueueInv
<1> SUFFICES ASSUME Init PROVE QueueInv
  OBVIOUS
<1>1. ConfigInv /\ ConfigTypeOK
  BY ConfigInitInv DEF Init, ConfigInv
<1>2. NoRow \in Row
  BY ConfigAssumption DEF NoRow, Row
<1>3. TypeOK
  BY <1>1, <1>2 DEF Init, TypeOK, WorkerStage, NoToken
<1>4. References
  BY DEF Init, References, Claimed, NoSchedule, NoToken
<1>5. AppliedMatchesStatus /\ NotBeforeDue
  BY DEF Init, AppliedMatchesStatus, NotBeforeDue, NoSchedule
<1>6. QED
  BY <1>1, <1>3, <1>4, <1>5 DEF QueueInv

\* A step that leaves the queue and the claims alone keeps the invariant.
LEMMA QuietInv ==
  ASSUME QueueInv, ConfigInv',
         UNCHANGED <<schedule, now, batchNow, listed, claim, tokens, applied>>,
         UNCHANGED cancelling \/ \E o \in Operator, s \in Schedule : CancelRead(o, s),
         pc' \in [Worker -> WorkerStage], seen' \in [Worker -> Row], faults' \in Nat
  PROVE  QueueInv'
<1>1. TypeOK'
  <2>1. cancelling' \in [Operator -> SUBSET Schedule]
    BY DEF QueueInv, TypeOK, CancelRead
  <2>2. QED
    BY <2>1 DEF QueueInv, TypeOK, ConfigInv
<1>2. References'
  <2>1. \A o \in Operator : \A s \in cancelling'[o] : schedule[s] # NoSchedule
    <3>1. CASE UNCHANGED cancelling
      BY <3>1 DEF QueueInv, References
    <3>2. ASSUME NEW o \in Operator, NEW s \in Schedule, CancelRead(o, s)
          PROVE  \A q \in Operator : \A u \in cancelling'[q] : schedule[u] # NoSchedule
      <4>1. schedule[s] # NoSchedule
        BY <3>2 DEF CancelRead, NoSchedule
      <4>2. \A q \in Operator : cancelling'[q] \subseteq cancelling[q] \cup {s}
        BY <3>2 DEF CancelRead, QueueInv, TypeOK
      <4>3. QED
        BY <4>1, <4>2 DEF QueueInv, References
    <3>3. QED
      BY <3>1, <3>2
  <2>2. QED
    BY <2>1 DEF QueueInv, References, Claimed
<1>3. AppliedMatchesStatus' /\ NotBeforeDue'
  BY DEF QueueInv, AppliedMatchesStatus, NotBeforeDue
<1>4. QED
  BY <1>1, <1>2, <1>3 DEF QueueInv

\* A new change is pending and has not been applied.
LEMMA CreateInv ==
  ASSUME QueueInv, NEW s \in Schedule, NEW t \in Target, NEW p \in Patch,
         NEW at \in 1 .. MaxExecuteAt, Create(s, t, p, at)
  PROVE  QueueInv'
<1> DEFINE r == [status |-> "pending", target |-> t, patch |-> p, executeAt |-> at,
                 claimToken |-> NoToken, claimedAt |-> 0, late |-> at <= now]
<1>1. r \in ScheduleRow /\ r.status = "pending"
  BY SchedulerAssumption DEF ScheduleRow, Status, NoToken
<1>2. schedule' = [schedule EXCEPT ![s] = r] /\ schedule[s] = NoSchedule
  BY DEF Create
<1> HIDE DEF r
<1>3. r # NoSchedule
  BY <1>1, RowFields
<1>4. ConfigInv'
  BY ConfigStutterInv DEF QueueInv, Create
<1>5. TypeOK'
  BY <1>1, <1>2, <1>4 DEF QueueInv, TypeOK, ConfigInv, Create, workerVars, historyVars
<1>6. References'
  BY <1>1, <1>2, <1>3 DEF QueueInv, TypeOK, References, Claimed, Create, workerVars
<1>7. AppliedMatchesStatus' /\ NotBeforeDue'
  <2>1. applied[s] = 0
    BY <1>2, RowFields DEF QueueInv, TypeOK, AppliedMatchesStatus, NoSchedule
  <2>2. UNCHANGED <<applied, now>> /\ ~(applied[s] > 0)
    BY <2>1 DEF Create, historyVars
  <2>3. \A u \in Schedule : schedule'[u] = IF u = s THEN r ELSE schedule[u]
    BY <1>2 DEF QueueInv, TypeOK
  <2>4. QED
    BY <1>1, <2>2, <2>3 DEF QueueInv, AppliedMatchesStatus, NotBeforeDue
<1>8. QED
  BY <1>4, <1>5, <1>6, <1>7 DEF QueueInv

\* A late status: a cancel, or the end of a claimed change, replaces the status
\* of an existing row that has left the queue or is leaving it.
LEMMA StatusInv ==
  ASSUME QueueInv, ConfigInv', NEW s \in Schedule, schedule[s] # NoSchedule,
         NEW x \in {"cancelled", "failed", "executed"},
         schedule' = [schedule EXCEPT ![s].status = x],
         UNCHANGED <<now, batchNow, listed, tokens>>,
         \A o \in Operator : cancelling'[o] \subseteq cancelling[o],
         cancelling' \in [Operator -> SUBSET Schedule],
         claim' \in [Worker -> [Schedule -> Nat]],
         \A w \in Worker, u \in Schedule : claim'[w][u] \in {claim[w][u], NoToken},
         pc' \in [Worker -> WorkerStage], UNCHANGED seen, faults' \in Nat,
         \/ x = "cancelled" /\ UNCHANGED applied
         \/ x = "failed" /\ applied[s] = 0 /\ UNCHANGED applied
         \/ /\ x = "executed" /\ schedule[s].executeAt <= now
            /\ applied' = [applied EXCEPT ![s] = @ + 1]
  PROVE  QueueInv'
<1> DEFINE r == [schedule[s] EXCEPT !.status = x]
<1>0. schedule[s] \in ScheduleRow
  BY RowFields DEF QueueInv, TypeOK
<1>1. /\ r \in ScheduleRow /\ r.status = x /\ r.executeAt = schedule[s].executeAt
      /\ r.claimToken = schedule[s].claimToken
  <2>1. x \in Status
    BY DEF Status
  <2>2. QED
    BY <1>0, <2>1, RowStatus
<1>2. schedule' = [schedule EXCEPT ![s] = r]
  BY DEF QueueInv, TypeOK
<1> HIDE DEF r
<1>3. r # NoSchedule
  BY <1>1, RowFields
<1>4. TypeOK'
  <2>1. schedule' \in [Schedule -> ScheduleRow \cup {NoSchedule}]
    <3>1. schedule \in [Schedule -> ScheduleRow \cup {NoSchedule}]
      BY DEF QueueInv, TypeOK
    <3>2. r \in ScheduleRow \cup {NoSchedule}
      BY <1>1
    <3>3. QED
      BY <1>2, <3>1, <3>2
  <2>2. applied' \in [Schedule -> Nat]
    <3>1. applied \in [Schedule -> Nat]
      BY DEF QueueInv, TypeOK
    <3>2. applied' = applied \/ applied' = [applied EXCEPT ![s] = @ + 1]
      OBVIOUS
    <3>3. QED
      BY <3>1, <3>2
  <2>3. QED
    BY <2>1, <2>2 DEF QueueInv, TypeOK, ConfigInv
<1>5. References'
  <2>1. \A u \in Schedule : schedule'[u] = IF u = s THEN r ELSE schedule[u]
    BY <1>2 DEF QueueInv, TypeOK
  <2>2. \A u \in Schedule : schedule[u] # NoSchedule => schedule'[u] # NoSchedule
    BY <1>3, <2>1
  <2>3. \A u \in Schedule : schedule'[u].executeAt = schedule[u].executeAt
                           /\ schedule'[u].claimToken = schedule[u].claimToken
    BY <1>1, <2>1
  <2>4. \A u \in Schedule : schedule'[u].status \in {schedule[u].status, x}
    BY <1>1, <2>1
  <2>5. \A w \in Worker : Claimed(w)' \subseteq Claimed(w)
    BY DEF Claimed
  <2>6. \A o \in Operator : \A u \in cancelling'[o] : schedule'[u] # NoSchedule
    BY <2>2 DEF QueueInv, References, TypeOK
  <2>7. \A w \in Worker : \A u \in listed'[w] :
          schedule'[u] # NoSchedule /\ schedule'[u].executeAt <= batchNow'[w]
    BY <2>2, <2>3 DEF QueueInv, References, TypeOK
  <2>8. \A w \in Worker : \A u \in Claimed(w)' :
          /\ u \in Schedule
          /\ schedule'[u] # NoSchedule
          /\ schedule'[u].status # "pending"
          /\ schedule'[u].claimToken # NoToken
          /\ schedule'[u].executeAt <= now'
    <3>1. \A w \in Worker : \A u \in Claimed(w)' : u \in Schedule /\ u \in Claimed(w)
      BY <2>5 DEF Claimed
    <3>2. QED
      BY <2>2, <2>3, <2>4, <3>1 DEF QueueInv, References
  <2>9. \A u \in Schedule : schedule'[u].status = "running" => schedule'[u].executeAt <= now'
    BY <2>3, <2>4 DEF QueueInv, References
  <2>10. \A w \in Worker : batchNow'[w] <= now'
    BY DEF QueueInv, References
  <2>11. QED
    BY <2>6, <2>7, <2>8, <2>9, <2>10 DEF References
<1>6. AppliedMatchesStatus'
  BY <1>1, <1>2 DEF QueueInv, TypeOK, AppliedMatchesStatus
<1>7. NotBeforeDue'
  <2>1. \A u \in Schedule : schedule'[u].executeAt = schedule[u].executeAt
    BY <1>1, <1>2 DEF QueueInv, TypeOK
  <2>2. \A u \in Schedule : applied'[u] > 0 => applied[u] > 0 \/ schedule[u].executeAt <= now
    BY DEF QueueInv, TypeOK
  <2>3. QED
    BY <2>1, <2>2 DEF QueueInv, NotBeforeDue
<1>8. QED
  BY <1>4, <1>5, <1>6, <1>7 DEF QueueInv

\* A batch lists rows that exist and are due at the time it reads.
LEMMA ListDueInv ==
  ASSUME QueueInv, NEW w \in Worker, ListDue(w)
  PROVE  QueueInv'
<1> DEFINE D == {s \in Schedule : Claimable(s, now)}
<1>1. ConfigInv'
  BY ConfigStutterInv DEF QueueInv, ListDue
<1>2. CASE UNCHANGED <<listed, batchNow, pc>>
  BY <1>1, <1>2, QuietInv DEF ListDue, QueueInv, TypeOK, historyVars
<1>3. CASE /\ \E L \in Batch(D) : listed' = [listed EXCEPT ![w] = L]
           /\ batchNow' = [batchNow EXCEPT ![w] = now]
           /\ pc' = [pc EXCEPT ![w] = "claim"]
  <2>1. PICK L \in Batch(D) : listed' = [listed EXCEPT ![w] = L]
    BY <1>3
  <2>2. L \subseteq D
    BY DEF Batch
  <2>3. \A s \in L : s \in Schedule /\ schedule[s] # NoSchedule /\ schedule[s].executeAt <= now
    BY <2>2, RowFields DEF Claimable, QueueInv, TypeOK, References, NoSchedule
  <2> HIDE DEF D
  <2>4. TypeOK'
    BY <1>1, <1>3, <2>1, <2>3 DEF ListDue, QueueInv, TypeOK, ConfigInv, WorkerStage, historyVars
  <2>5. References'
    BY <1>3, <2>1, <2>3 DEF ListDue, QueueInv, TypeOK, References, Claimed
  <2>6. AppliedMatchesStatus' /\ NotBeforeDue'
    BY DEF ListDue, QueueInv, AppliedMatchesStatus, NotBeforeDue, historyVars
  <2>7. QED
    BY <1>1, <2>4, <2>5, <2>6 DEF QueueInv
<1>4. QED
  BY <1>2, <1>3 DEF ListDue

\* A claim takes a due row out of "pending" and gives it a token.
LEMMA ClaimNextInv ==
  ASSUME QueueInv, NEW w \in Worker, NEW s \in Schedule, ClaimNext(w, s)
  PROVE  QueueInv'
<1> DEFINE r == [schedule[s] EXCEPT !.status = "running", !.claimToken = FreshToken,
                                    !.claimedAt = batchNow[w], !.late = FALSE]
<1>0. /\ s \in listed[w]
      /\ schedule[s] # NoSchedule
      /\ schedule[s] \in ScheduleRow
      /\ schedule[s].executeAt <= batchNow[w]
      /\ batchNow[w] \in Nat /\ now \in Nat /\ tokens \in Nat
      /\ batchNow[w] <= now
      /\ schedule[s].executeAt \in Nat
  BY RowFields DEF ClaimNext, Earliest, QueueInv, TypeOK, References
<1>1. ConfigInv'
  BY ConfigStutterInv DEF QueueInv, ClaimNext
<1>2. /\ pc' \in [Worker -> WorkerStage]
      /\ listed' \in [Worker -> SUBSET Schedule]
      /\ \A v \in Worker : listed'[v] \subseteq listed[v]
  BY DEF ClaimNext, QueueInv, TypeOK, WorkerStage
<1>3. CASE UNCHANGED <<tokens, schedule, claim>>
  <2>1. TypeOK'
    BY <1>1, <1>2, <1>3 DEF ClaimNext, QueueInv, TypeOK, ConfigInv, historyVars
  <2>2. References'
    BY <1>2, <1>3 DEF ClaimNext, QueueInv, TypeOK, References, Claimed
  <2>3. AppliedMatchesStatus' /\ NotBeforeDue'
    BY <1>3 DEF ClaimNext, QueueInv, AppliedMatchesStatus, NotBeforeDue, historyVars
  <2>4. QED
    BY <1>1, <2>1, <2>2, <2>3 DEF QueueInv
<1>4. CASE ClaimMatches(w, s)
  <2>1. /\ FreshToken \in Nat /\ FreshToken # NoToken
        /\ r \in ScheduleRow /\ r.status = "running" /\ r.claimToken = FreshToken
        /\ r.executeAt = schedule[s].executeAt
    <3>1. FreshToken \in Nat /\ FreshToken # NoToken
      BY <1>0 DEF FreshToken, NoToken
    <3> HIDE DEF FreshToken
    <3>2. r \in ScheduleRow
      BY <1>0, <3>1 DEF ScheduleRow, Status
    <3>3. r.status = "running" /\ r.claimToken = FreshToken /\ r.executeAt = schedule[s].executeAt
      BY <1>0, <3>1 DEF ScheduleRow, Status
    <3>4. QED
      BY <3>1, <3>2, <3>3
  <2>2. /\ schedule' = [schedule EXCEPT ![s] = r]
        /\ tokens' = FreshToken
        /\ claim' = [claim EXCEPT ![w][s] = FreshToken]
    BY <1>4 DEF ClaimNext, QueueInv, TypeOK
  <2>3. schedule[s].status \in {"pending", "running"}
    BY <1>4 DEF ClaimMatches, Claimable
  <2> HIDE DEF r
  <2>4. r # NoSchedule
    BY <2>1, RowFields
  <2>5. TypeOK'
    BY <1>1, <1>2, <2>1, <2>2 DEF ClaimNext, QueueInv, TypeOK, ConfigInv, historyVars
  <2>6. References'
    <3>1. \A v \in Worker, u \in Schedule :
            claim'[v][u] = IF v = w /\ u = s THEN FreshToken ELSE claim[v][u]
      BY <2>2 DEF QueueInv, TypeOK
    <3>2. \A u \in Schedule : schedule'[u] = IF u = s THEN r ELSE schedule[u]
      BY <2>2 DEF QueueInv, TypeOK
    <3>3. UNCHANGED <<cancelling, now, batchNow>>
      BY DEF ClaimNext
    <3>4. \A u \in Schedule : /\ schedule[u] # NoSchedule => schedule'[u] # NoSchedule
                             /\ schedule'[u].executeAt = schedule[u].executeAt
      BY <2>1, <2>4, <3>2
    <3>5. \A u \in Schedule : u # s => schedule'[u] = schedule[u]
      BY <3>2
    <3>6. \A o \in Operator : \A u \in cancelling'[o] : schedule'[u] # NoSchedule
      BY <3>3, <3>4 DEF QueueInv, TypeOK, References
    <3>7. \A v \in Worker : \A u \in listed'[v] :
            schedule'[u] # NoSchedule /\ schedule'[u].executeAt <= batchNow'[v]
      BY <1>2, <3>3, <3>4 DEF QueueInv, TypeOK, References
    <3>8. \A v \in Worker : \A u \in Claimed(v)' :
            /\ schedule'[u] # NoSchedule
            /\ schedule'[u].status # "pending"
            /\ schedule'[u].claimToken # NoToken
            /\ schedule'[u].executeAt <= now'
      <4> SUFFICES ASSUME NEW v \in Worker, NEW u \in Schedule, claim'[v][u] # NoToken
                   PROVE  /\ schedule'[u] # NoSchedule
                          /\ schedule'[u].status # "pending"
                          /\ schedule'[u].claimToken # NoToken
                          /\ schedule'[u].executeAt <= now'
        BY DEF Claimed
      <4>1. CASE u = s
        <5>1. schedule[s].executeAt <= now
          BY <1>0
        <5>2. QED
          BY <2>1, <2>4, <3>2, <3>3, <4>1, <5>1
      <4>2. CASE u # s
        BY <3>1, <3>3, <3>5, <4>2 DEF QueueInv, References, Claimed
      <4>3. QED
        BY <4>1, <4>2
    <3>9. \A u \in Schedule :
            schedule'[u].status = "running" => schedule'[u].executeAt <= now'
      <4>1. schedule[s].executeAt <= now
        BY <1>0
      <4>2. QED
        BY <3>3, <3>4, <3>5, <4>1 DEF QueueInv, References
    <3>10. \A v \in Worker : batchNow'[v] <= now'
      BY <3>3 DEF QueueInv, References
    <3>11. QED
      BY <3>6, <3>7, <3>8, <3>9, <3>10 DEF References
  <2>7. AppliedMatchesStatus' /\ NotBeforeDue'
    <3>1. \A u \in Schedule : schedule'[u] = IF u = s THEN r ELSE schedule[u]
      BY <2>2 DEF QueueInv, TypeOK
    <3>2. UNCHANGED <<applied, now>>
      BY DEF ClaimNext, historyVars
    <3>3. QED
      BY <2>1, <2>3, <3>1, <3>2 DEF QueueInv, AppliedMatchesStatus, NotBeforeDue
  <2>8. QED
    BY <1>1, <2>5, <2>6, <2>7 DEF QueueInv
<1>5. QED
  BY <1>3, <1>4 DEF ClaimNext

\* Time passing makes no row less due.
LEMMA TickInv == QueueInv /\ Tick => QueueInv'
<1> SUFFICES ASSUME QueueInv, Tick PROVE QueueInv'
  OBVIOUS
<1>1. ConfigInv'
  BY ConfigStutterInv DEF QueueInv, Tick
<1>2. TypeOK'
  BY <1>1 DEF QueueInv, TypeOK, ConfigInv, Tick, workerVars, historyVars
<1>3. References'
  <2>1. /\ now \in Nat /\ now' = now + 1
        /\ UNCHANGED <<schedule, cancelling, listed, batchNow, claim>>
        /\ \A w \in Worker : batchNow[w] \in Nat
        /\ \A s \in Schedule : schedule[s] # NoSchedule => schedule[s].executeAt \in Nat
        /\ \A s \in Schedule : schedule[s].status = "running" => schedule[s] # NoSchedule
    BY RowFields DEF QueueInv, TypeOK, Tick, workerVars, NoSchedule
  <2>2. \A w \in Worker : \A s \in Claimed(w) : s \in Schedule
    BY DEF Claimed
  <2>3. QED
    BY <2>1, <2>2 DEF QueueInv, References, Claimed
<1>4. AppliedMatchesStatus' /\ NotBeforeDue'
  <2>1. UNCHANGED <<schedule, applied>> /\ now' = now + 1 /\ now \in Nat
    BY DEF QueueInv, TypeOK, Tick, historyVars
  <2>2. \A s \in Schedule : applied[s] > 0 => schedule[s].executeAt \in Nat
    BY RowFields DEF QueueInv, TypeOK, AppliedMatchesStatus, NoSchedule
  <2>3. QED
    BY <2>1, <2>2 DEF QueueInv, AppliedMatchesStatus, NotBeforeDue
<1>5. QED
  BY <1>1, <1>2, <1>3, <1>4 DEF QueueInv

\* The rows the scheduler writes are well formed, and a row it changes is at
\* most one revision further than before.
LEMMA PatchRow ==
  ASSUME NEW p \in Patch, NEW r \in Row, NEW q \in Row
  PROVE  /\ CreatedRow(p) \in Row
         /\ CreatedRow(p).revision = 1
         /\ PatchedRow(r, q, p) \in Row
         /\ PatchedRow(r, q, p).revision \in {r.revision, r.revision + 1}
         /\ PatchedRow(r, q, p).revision = r.revision => PatchedRow(r, q, p) = r
<1>1. p.enabled \in BOOLEAN \cup {Unset} /\ p.policy \in Policy \cup {Unset}
  BY SchedulerAssumption
<1>2. r.enabled \in BOOLEAN /\ r.policy \in Policy /\ r.revision \in Nat /\ NoPolicy \in Policy
  BY ConfigAssumption DEF Row
<1>3. CreatedRow(p) \in Row /\ CreatedRow(p).revision = 1
  BY <1>1, <1>2 DEF CreatedRow, Row
<1> DEFINE setsEnabled == p.enabled \notin {Unset, q.enabled}
           setsPolicy == p.policy \notin {Unset, q.policy}
           e == IF setsEnabled THEN p.enabled ELSE r.enabled
           f == IF setsPolicy THEN p.policy ELSE r.policy
           n == IF setsEnabled \/ setsPolicy THEN r.revision + 1 ELSE r.revision
<1>4. PatchedRow(r, q, p) = [enabled |-> e, policy |-> f, revision |-> n]
  BY DEF PatchedRow
<1>5. e \in BOOLEAN /\ f \in Policy /\ n \in Nat
  BY <1>1, <1>2
<1>6. n \in {r.revision, r.revision + 1}
  OBVIOUS
<1>7. n = r.revision => e = r.enabled /\ f = r.policy
  BY <1>2
<1>8. r = [enabled |-> r.enabled, policy |-> r.policy, revision |-> r.revision]
  BY DEF Row
<1> HIDE DEF e, f, n
<1>9. PatchedRow(r, q, p) \in Row /\ PatchedRow(r, q, p).revision = n
  BY <1>4, <1>5 DEF Row
<1>10. n = r.revision => PatchedRow(r, q, p) = r
  BY <1>4, <1>7, <1>8
<1>11. QED
  BY <1>3, <1>6, <1>9, <1>10

\* The commit of a scheduled change writes one well-formed row, and raises its
\* revision if it changes it.
LEMMA CommittedRow ==
  ASSUME QueueInv, NEW w \in Worker, NEW s \in Schedule, Commit(w, s)
  PROVE  \E t \in Target, row \in Row :
           /\ config' = [config EXCEPT ![t] = row]
           /\ commits' = [commits EXCEPT ![t] = IF row = config[t] THEN @ ELSE @ + 1]
           /\ UNCHANGED request
           /\ row.revision \in {config[t].revision, config[t].revision + 1}
           /\ row.revision = config[t].revision => row = config[t]
<1> DEFINE t == schedule[s].target
           p == schedule[s].patch
           row == IF seen[w].revision = 0 THEN CreatedRow(p)
                  ELSE PatchedRow(config[t], seen[w], p)
<1>1. /\ schedule[s] \in ScheduleRow
      /\ t \in Target /\ p \in Patch
      /\ seen[w] \in Row
      /\ config \in [Target -> Row] /\ commits \in [Target -> Nat]
      /\ config[t] \in Row /\ commits[t] \in Nat
  <2>1. schedule[s] # NoSchedule
    BY DEF Commit, Current, Earliest, QueueInv, References, Claimed
  <2>2. schedule[s] \in ScheduleRow
    BY <2>1, RowFields DEF QueueInv, TypeOK
  <2>3. t \in Target /\ p \in Patch
    BY <2>2 DEF ScheduleRow
  <2>4. QED
    BY <2>2, <2>3 DEF QueueInv, TypeOK, ConfigTypeOK
<1>2. /\ config' = [config EXCEPT ![t] = row]
      /\ commits' = [commits EXCEPT ![t] = IF row = config[t] THEN @ ELSE @ + 1]
      /\ seen[w].revision = 0 => ~Exists(t)
      /\ UNCHANGED request
  BY DEF Commit
<1>3. /\ config[t].revision \in Nat
      /\ config[t].revision <= commits[t]
      /\ config[t].revision = 0 => config[t] = NoRow
      /\ NoRow.revision = 0
  BY <1>1 DEF QueueInv, ConfigInv, Row, NoRow
<1>4. /\ row \in Row
      /\ row.revision \in {config[t].revision, config[t].revision + 1}
      /\ row.revision = config[t].revision => row = config[t]
  <2>1. CASE seen[w].revision = 0
    <3>1. config[t].revision = 0
      BY <1>2, <1>3, <2>1 DEF Exists
    <3>2. row = CreatedRow(p)
      BY <2>1
    <3> HIDE DEF row
    <3>3. QED
      BY <1>1, <3>1, <3>2, PatchRow
  <2>2. CASE seen[w].revision # 0
    <3>1. row = PatchedRow(config[t], seen[w], p)
      BY <2>2
    <3> DEFINE patched == PatchedRow(config[t], seen[w], p)
    <3> HIDE DEF row, t, p
    <3>2. /\ patched \in Row
          /\ patched.revision \in {config[t].revision, config[t].revision + 1}
          /\ patched.revision = config[t].revision => patched = config[t]
      BY <1>1, PatchRow
    <3> HIDE DEF patched
    <3>3. row = patched
      BY <3>1 DEF patched
    <3>4. QED
      BY <3>2, <3>3
  <2>3. QED
    BY <2>1, <2>2
<1> HIDE DEF row, t, p
<1>5. QED
  BY <1>1, <1>2, <1>4

\* The commit of a scheduled change keeps the configuration well formed beside
\* the requests that are in progress on the same row.
LEMMA CommitConfigInv ==
  ASSUME QueueInv, NEW w \in Worker, NEW s \in Schedule, Commit(w, s)
  PROVE  ConfigInv'
<1>0. PICK t \in Target, row \in Row :
        /\ config' = [config EXCEPT ![t] = row]
        /\ commits' = [commits EXCEPT ![t] = IF row = config[t] THEN @ ELSE @ + 1]
        /\ UNCHANGED request
        /\ row.revision \in {config[t].revision, config[t].revision + 1}
        /\ row.revision = config[t].revision => row = config[t]
  BY CommittedRow
<1>1. /\ config \in [Target -> Row] /\ commits \in [Target -> Nat]
      /\ config[t] \in Row /\ commits[t] \in Nat
  BY DEF QueueInv, TypeOK, ConfigTypeOK
<1>2. /\ config' = [config EXCEPT ![t] = row]
      /\ commits' = [commits EXCEPT ![t] = IF row = config[t] THEN @ ELSE @ + 1]
      /\ UNCHANGED request
  BY <1>0
<1>3. /\ config[t].revision \in Nat
      /\ config[t].revision <= commits[t]
      /\ config[t].revision = 0 => config[t] = NoRow
      /\ NoRow.revision = 0
  BY <1>1 DEF QueueInv, ConfigInv, Row, NoRow
<1>4. /\ row \in Row
      /\ row.revision \in {config[t].revision, config[t].revision + 1}
      /\ row.revision = config[t].revision => row = config[t]
  BY <1>0
<1>5. /\ \A u \in Target : config'[u] = IF u = t THEN row ELSE config[u]
      /\ \A u \in Target : commits'[u] =
           IF u = t /\ row # config[t] THEN commits[u] + 1 ELSE commits[u]
      /\ config' \in [Target -> Row]
      /\ commits' \in [Target -> Nat]
  BY <1>1, <1>2, <1>4
<1>6. \A u \in Target : /\ config'[u].revision <= commits'[u]
                        /\ commits'[u] >= commits[u]
                        /\ config'[u].revision = 0 => config'[u] = NoRow
  <2> SUFFICES ASSUME NEW u \in Target
               PROVE  /\ config'[u].revision <= commits'[u]
                      /\ commits'[u] >= commits[u]
                      /\ config'[u].revision = 0 => config'[u] = NoRow
    OBVIOUS
  <2>1. commits[u] \in Nat
    BY <1>1
  <2>2. CASE u = t
    <3>1. row.revision = 0 => row = config[t]
      BY <1>3, <1>4
    <3>2. QED
      BY <1>3, <1>4, <1>5, <2>1, <2>2, <3>1
  <2>3. CASE u # t
    BY <1>5, <2>1, <2>3 DEF QueueInv, ConfigInv
  <2>4. QED
    BY <2>2, <2>3
<1>7. ConfigTypeOK'
  BY <1>2, <1>5 DEF QueueInv, ConfigInv, ConfigTypeOK
<1>8. RequestInv'
  <2> SUFFICES ASSUME NEW c \in Client, request[c] # NoRequest
               PROVE  /\ request[c].seen.revision <= commits'[request[c].target]
                      /\ At(c, "insert", "enabled") => request[c].value = TRUE
    BY <1>2 DEF RequestInv, At
  <2>1. /\ request[c].seen.revision <= commits[request[c].target]
        /\ At(c, "insert", "enabled") => request[c].value = TRUE
    BY DEF QueueInv, ConfigInv, RequestInv
  <2>2. /\ request[c].target \in Target
        /\ request[c].seen.revision \in Nat
    BY DEF QueueInv, ConfigInv, ConfigTypeOK, Request, Row
  <2>3. QED
    BY <1>1, <1>5, <1>6, <2>1, <2>2
<1>9. QED
  BY <1>6, <1>7, <1>8 DEF ConfigInv

\* The commit writes a row that is due and whose replica claimed it.
LEMMA CommitInv ==
  ASSUME QueueInv, NEW w \in Worker, NEW s \in Schedule, Commit(w, s)
  PROVE  QueueInv'
<1>1. ConfigInv'
  BY CommitConfigInv
<1>2. schedule[s] # NoSchedule /\ schedule[s].executeAt <= now
  BY DEF Commit, Current, Earliest, QueueInv, References, Claimed
<1>3. /\ schedule' = [schedule EXCEPT ![s].status = "executed"]
      /\ applied' = [applied EXCEPT ![s] = @ + 1]
      /\ UNCHANGED <<now, batchNow, listed, tokens, cancelling, seen>>
  BY DEF Commit
<1>4. /\ claim' \in [Worker -> [Schedule -> Nat]]
      /\ \A v \in Worker, u \in Schedule : claim'[v][u] \in {claim[v][u], NoToken}
      /\ pc' \in [Worker -> WorkerStage]
      /\ faults' \in Nat
  <2>1. "work" \in WorkerStage /\ "fail" \in WorkerStage
    BY DEF WorkerStage
  <2>2. CASE Drop(w, s) /\ Goes(w, "work") /\ UNCHANGED faults
    BY <2>1, <2>2, GoesStage, DropClaim DEF QueueInv, TypeOK
  <2>3. CASE faults' = faults + 1 /\ Goes(w, "fail") /\ UNCHANGED claim
    BY <2>1, <2>3, GoesStage DEF QueueInv, TypeOK
  <2>4. QED
    BY <2>2, <2>3 DEF Commit
<1>5. cancelling \in [Operator -> SUBSET Schedule]
  BY DEF QueueInv, TypeOK
<1>6. QED
  BY <1>1, <1>2, <1>3, <1>4, <1>5, StatusInv

\* A cancel writes a row it has read, whatever became of it.
LEMMA CancelWriteInv ==
  ASSUME QueueInv, NEW o \in Operator, NEW s \in Schedule, CancelWrite(o, s)
  PROVE  QueueInv'
<1>1. ConfigInv'
  BY ConfigStutterInv DEF QueueInv, CancelWrite
<1>2. schedule[s] # NoSchedule
  BY DEF CancelWrite, QueueInv, References
<1>3. /\ schedule' = [schedule EXCEPT ![s].status = "cancelled"]
      /\ UNCHANGED <<now, batchNow, listed, tokens, seen, applied, claim, pc, faults>>
  BY DEF CancelWrite, workerVars, historyVars
<1>4. /\ \A q \in Operator : cancelling'[q] \subseteq cancelling[q]
      /\ cancelling' \in [Operator -> SUBSET Schedule]
      /\ claim' \in [Worker -> [Schedule -> Nat]]
      /\ \A v \in Worker, u \in Schedule : claim'[v][u] \in {claim[v][u], NoToken}
      /\ pc' \in [Worker -> WorkerStage]
      /\ faults' \in Nat
  BY <1>3 DEF CancelWrite, QueueInv, TypeOK
<1>5. QED
  BY <1>1, <1>2, <1>3, <1>4, StatusInv

\* A claim is dropped, whatever becomes of its row.
LEMMA DropInv ==
  ASSUME QueueInv, UNCHANGED <<configVars, schedule, cancelling, now, batchNow, seen, tokens, applied>>,
         claim' \in [Worker -> [Schedule -> Nat]],
         \A v \in Worker, u \in Schedule : claim'[v][u] \in {claim[v][u], NoToken},
         listed' \in [Worker -> SUBSET Schedule],
         \A v \in Worker : listed'[v] \subseteq listed[v],
         pc' \in [Worker -> WorkerStage], faults' \in Nat
  PROVE  QueueInv'
<1>1. ConfigInv'
  BY ConfigStutterInv DEF QueueInv
<1>2. TypeOK'
  BY <1>1 DEF QueueInv, TypeOK, ConfigInv
<1>3. References'
  BY DEF QueueInv, References, Claimed
<1>4. AppliedMatchesStatus' /\ NotBeforeDue'
  BY DEF QueueInv, AppliedMatchesStatus, NotBeforeDue
<1>5. QED
  BY <1>1, <1>2, <1>3, <1>4 DEF QueueInv

\* Only a running row is marked failed, and a running row was never applied.
LEMMA MarkFailedInv ==
  ASSUME QueueInv, NEW w \in Worker, NEW s \in Schedule, MarkFailed(w, s)
  PROVE  QueueInv'
<1>0. "work" \in WorkerStage /\ Drop(w, s) /\ Goes(w, "work")
  BY DEF MarkFailed, WorkerStage
<1>1. /\ UNCHANGED <<configVars, cancelling, now, batchNow, listed, seen, tokens, applied, faults>>
      /\ claim' \in [Worker -> [Schedule -> Nat]]
      /\ \A v \in Worker, u \in Schedule : claim'[v][u] \in {claim[v][u], NoToken}
      /\ pc' \in [Worker -> WorkerStage]
      /\ faults' \in Nat
      /\ cancelling \in [Operator -> SUBSET Schedule]
      /\ listed \in [Worker -> SUBSET Schedule]
  <2>1. UNCHANGED <<configVars, cancelling, now, batchNow, listed, seen, tokens, applied, faults>>
    BY DEF MarkFailed, historyVars
  <2>2. QED
    BY <1>0, <2>1, GoesStage, DropClaim DEF QueueInv, TypeOK
<1>2. CASE ~HoldsRow(w, s)
  <2>1. UNCHANGED schedule
    BY <1>2 DEF MarkFailed
  <2>2. QED
    BY <1>1, <2>1, DropInv
<1>3. CASE HoldsRow(w, s)
  <2>1. schedule' = [schedule EXCEPT ![s].status = "failed"]
    BY <1>3 DEF MarkFailed
  <2>2. schedule[s] # NoSchedule /\ applied[s] = 0
    BY <1>3, RowFields DEF HoldsRow, QueueInv, TypeOK, AppliedMatchesStatus, NoSchedule
  <2>3. ConfigInv'
    BY <1>1, ConfigStutterInv DEF QueueInv
  <2>4. QED
    BY <1>1, <2>1, <2>2, <2>3, StatusInv
<1>4. QED
  BY <1>2, <1>3

\* The steps of a replica that only read, move on, or go wrong.
LEMMA ProgressInv ==
  ASSUME QueueInv, NEW w \in Worker, NEW g \in WorkerStage, Goes(w, g),
         UNCHANGED <<configVars, schedule, cancelling, now, batchNow, listed, claim, tokens,
                     applied>>,
         seen' \in [Worker -> Row], faults' \in {faults, faults + 1}
  PROVE  QueueInv'
<1>1. pc' \in [Worker -> WorkerStage]
  BY GoesStage
<1>2. faults' \in Nat
  BY DEF QueueInv, TypeOK
<1>3. ConfigInv'
  BY ConfigStutterInv DEF QueueInv
<1>4. QED
  BY <1>1, <1>2, <1>3, QuietInv

\* The transaction reads a well-formed row.
LEMMA ReadConfigInv ==
  ASSUME QueueInv, NEW w \in Worker, NEW s \in Schedule, ReadConfig(w, s)
  PROVE  QueueInv'
<1>1. schedule[s] # NoSchedule
  BY DEF ReadConfig, Current, Earliest, QueueInv, References, Claimed
<1>2. schedule[s] \in ScheduleRow
  BY <1>1, RowFields DEF QueueInv, TypeOK
<1>3. schedule[s].target \in Target
  BY <1>2 DEF ScheduleRow
<1>4. seen' \in [Worker -> Row]
  BY <1>3 DEF ReadConfig, QueueInv, TypeOK, ConfigTypeOK
<1>5. /\ Goes(w, "commit") /\ "commit" \in WorkerStage
      /\ UNCHANGED <<configVars, schedule, cancelling, now, batchNow, listed, claim, tokens,
                     applied, faults>>
  BY DEF ReadConfig, WorkerStage, historyVars
<1>6. QED
  BY <1>4, <1>5, ProgressInv

\* Validating, reading the claim and meeting a conflict change no row.
LEMMA MoveOnInv ==
  ASSUME QueueInv, NEW w \in Worker, NEW s \in Schedule,
         Validate(w, s) \/ ReadClaim(w, s) \/ CommitConflict(w, s)
  PROVE  QueueInv'
<1>1. PICK g \in WorkerStage : Goes(w, g)
  BY DEF Validate, ReadClaim, CommitConflict, WorkerStage
<1>2. UNCHANGED <<configVars, schedule, cancelling, now, batchNow, listed, claim, tokens,
                  applied, faults, seen>>
  BY DEF Validate, ReadClaim, CommitConflict, historyVars
<1>3. seen' \in [Worker -> Row]
  BY <1>2 DEF QueueInv, TypeOK
<1>4. QED
  BY <1>1, <1>2, <1>3, ProgressInv

\* Ending a batch and a failing statement change no row.
LEMMA FinishBatchInv ==
  ASSUME QueueInv, NEW w \in Worker, FinishBatch(w) \/ ApplyError(w)
  PROVE  QueueInv'
<1>1. PICK g \in WorkerStage : Goes(w, g)
  BY DEF FinishBatch, ApplyError, WorkerStage
<1>2. /\ UNCHANGED <<configVars, schedule, cancelling, now, batchNow, listed, claim, tokens,
                     applied, seen>>
      /\ faults' \in {faults, faults + 1}
  BY DEF FinishBatch, ApplyError, historyVars
<1>3. seen' \in [Worker -> Row]
  BY <1>2 DEF QueueInv, TypeOK
<1>4. QED
  BY <1>1, <1>2, <1>3, ProgressInv

\* A replica that cannot record a failure drops its claim.
LEMMA MarkFailedErrorInv ==
  ASSUME QueueInv, NEW w \in Worker, NEW s \in Schedule, MarkFailedError(w, s)
  PROVE  QueueInv'
<1>1. /\ UNCHANGED <<configVars, schedule, cancelling, now, batchNow, listed, seen, tokens,
                     applied>>
      /\ faults' = faults + 1
      /\ Drop(w, s) /\ Goes(w, "work") /\ "work" \in WorkerStage
  BY DEF MarkFailedError, WorkerStage
<1>2. /\ claim' \in [Worker -> [Schedule -> Nat]]
      /\ \A v \in Worker, u \in Schedule : claim'[v][u] \in {claim[v][u], NoToken}
  BY <1>1, DropClaim
<1>3. /\ listed' \in [Worker -> SUBSET Schedule]
      /\ \A v \in Worker : listed'[v] \subseteq listed[v]
      /\ faults' \in Nat
  BY <1>1 DEF QueueInv, TypeOK
<1>4. pc' \in [Worker -> WorkerStage]
  BY <1>1, GoesStage
<1>5. QED
  BY <1>1, <1>2, <1>3, <1>4, DropInv

\* A replica that dies drops its batch.
LEMMA AbandonInv ==
  ASSUME QueueInv, NEW w \in Worker, Abandon(w)
  PROVE  QueueInv'
<1>1. /\ UNCHANGED <<configVars, schedule, cancelling, now, batchNow, seen, tokens, applied>>
      /\ faults' = faults + 1
      /\ listed' = [listed EXCEPT ![w] = {}]
      /\ claim' = [claim EXCEPT ![w] = [s \in Schedule |-> NoToken]]
      /\ Goes(w, "idle") /\ "idle" \in WorkerStage
  BY DEF Abandon, WorkerStage
<1>2. claim \in [Worker -> [Schedule -> Nat]] /\ NoToken \in Nat
  BY DEF QueueInv, TypeOK, NoToken
<1>3. claim' \in [Worker -> [Schedule -> Nat]]
  BY <1>1, <1>2
<1>4. \A v \in Worker, u \in Schedule : claim'[v][u] \in {claim[v][u], NoToken}
  BY <1>1, <1>2
<1>5. /\ listed' \in [Worker -> SUBSET Schedule]
      /\ \A v \in Worker : listed'[v] \subseteq listed[v]
      /\ faults' \in Nat
  BY <1>1 DEF QueueInv, TypeOK
<1>6. pc' \in [Worker -> WorkerStage]
  BY <1>1, GoesStage
<1>7. QED
  BY <1>1, <1>3, <1>4, <1>5, <1>6, DropInv

\* Every step of the system keeps the invariant.
LEMMA QueueNextInv == QueueInv /\ Next => QueueInv'
<1> SUFFICES ASSUME QueueInv, Next PROVE QueueInv'
  OBVIOUS
<1>1. CASE RequestStep
  <2>1. ASSUME NEW o \in Operator, NEW s \in Schedule, CancelRead(o, s)
        PROVE  QueueInv'
    <3>1. UNCHANGED <<configVars, schedule, now, batchNow, listed, claim, tokens, applied,
                      pc, seen, faults>>
      BY <2>1 DEF CancelRead, workerVars, historyVars
    <3>2. ConfigInv'
      BY <3>1, ConfigStutterInv DEF QueueInv
    <3>3. QED
      BY <2>1, <3>1, <3>2, QuietInv DEF QueueInv, TypeOK
  <2>2. QED
    BY <1>1, <2>1, CreateInv, CancelWriteInv DEF RequestStep
<1>2. CASE InteractiveStep
  <2>1. UNCHANGED <<schedule, cancelling, now, batchNow, listed, claim, tokens, applied,
                    pc, seen, faults>>
    BY <1>2 DEF InteractiveStep, workerVars, historyVars
  <2>2. ConfigInv'
    BY <1>2, ConfigNextInv DEF QueueInv, InteractiveStep
  <2>3. QED
    BY <2>1, <2>2, QuietInv DEF QueueInv, TypeOK
<1>3. ASSUME NEW w \in Worker, WorkerStep(w) PROVE QueueInv'
  <2>1. ASSUME NEW s \in Schedule,
               \/ ClaimNext(w, s)
               \/ Validate(w, s)
               \/ ReadClaim(w, s)
               \/ ReadConfig(w, s)
               \/ Commit(w, s)
               \/ CommitConflict(w, s)
               \/ MarkFailed(w, s)
        PROVE  QueueInv'
    BY <2>1, ClaimNextInv, MoveOnInv, ReadConfigInv, CommitInv, MarkFailedInv
  <2>2. CASE ListDue(w) \/ FinishBatch(w)
    BY <2>2, ListDueInv, FinishBatchInv
  <2>3. QED
    BY <1>3, <2>1, <2>2 DEF WorkerStep
<1>4. ASSUME NEW w \in Worker, FaultStep(w) PROVE QueueInv'
  <2>1. ASSUME NEW s \in Schedule, MarkFailedError(w, s) PROVE QueueInv'
    BY <2>1, MarkFailedErrorInv
  <2>2. CASE ApplyError(w) \/ Abandon(w)
    BY <2>2, FinishBatchInv, AbandonInv
  <2>3. QED
    BY <1>4, <2>1, <2>2 DEF FaultStep
<1>5. QED
  BY <1>1, <1>2, <1>3, <1>4, TickInv DEF Next

\* So does a step that changes nothing.
LEMMA QueueStutterInv == QueueInv /\ UNCHANGED vars => QueueInv'
<1> SUFFICES ASSUME QueueInv, UNCHANGED vars PROVE QueueInv'
  OBVIOUS
<1>1. UNCHANGED <<configVars, schedule, cancelling, now, batchNow, listed, claim, tokens,
                  applied, pc, seen, faults>>
  BY DEF vars, workerVars, historyVars
<1>2. ConfigInv'
  BY <1>1, ConfigStutterInv DEF QueueInv
<1>3. QED
  BY <1>1, <1>2, QuietInv DEF QueueInv, TypeOK

\* Every reachable state satisfies the inductive invariant.
THEOREM QueueInvariant == Spec => []QueueInv
  BY QueueInitInv, QueueNextInv, QueueStutterInv, PTL DEF Spec

\* Every variable stays in range: rows of the table, claims, batches, history.
THEOREM TypeCorrect == Spec => []TypeOK
<1>1. QueueInv => TypeOK
  BY DEF QueueInv
<1>2. QED
  BY <1>1, QueueInvariant, PTL

\* A change has taken effect exactly if its row says so, or said so before a
\* late cancel wrote over it.
THEOREM AppliedMatchesStatusHolds == Spec => []AppliedMatchesStatus
<1>1. QueueInv => AppliedMatchesStatus
  BY DEF QueueInv
<1>2. QED
  BY <1>1, QueueInvariant, PTL

\* No change is applied before it is due, by any replica.
THEOREM NotBeforeDueHolds == Spec => []NotBeforeDue
<1>1. QueueInv => NotBeforeDue
  BY DEF QueueInv
<1>2. QED
  BY <1>1, QueueInvariant, PTL

------------------------------------------------------------------------------
(* What a step does to the rows of the table *)

\* The only writers of the table, and what each has checked of its row.
Written ==
  \/ UNCHANGED schedule
  \/ \E s \in Schedule, t \in Target, p \in Patch, at \in 1 .. MaxExecuteAt :
       Create(s, t, p, at)
  \/ \E o \in Operator, s \in Schedule : CancelWrite(o, s)
  \/ \E w \in Worker, s \in Schedule :
       \/ ClaimNext(w, s) /\ ClaimMatches(w, s)
       \/ Commit(w, s)
       \/ MarkFailed(w, s) /\ HoldsRow(w, s)

\* Every step that changes the table is one of them.
LEMMA Writers == [Next]_vars => Written
<1>1. CASE UNCHANGED vars
  BY <1>1 DEF vars, Written
<1>2. CASE RequestStep
  BY <1>2 DEF RequestStep, CancelRead, Written
<1>3. CASE InteractiveStep \/ Tick
  BY <1>3 DEF InteractiveStep, Tick, Written
<1>4. ASSUME NEW w \in Worker, WorkerStep(w) \/ FaultStep(w)
      PROVE  Written
  <2>1. ASSUME NEW s \in Schedule, ClaimNext(w, s) PROVE Written
    BY <2>1 DEF ClaimNext, Written
  <2>2. ASSUME NEW s \in Schedule, MarkFailed(w, s) PROVE Written
    BY <2>2 DEF MarkFailed, Written
  <2>3. ASSUME NEW s \in Schedule, Commit(w, s) PROVE Written
    BY <2>3 DEF Written
  <2>4. ASSUME NEW s \in Schedule,
               Validate(w, s) \/ ReadClaim(w, s) \/ ReadConfig(w, s) \/ CommitConflict(w, s)
                 \/ MarkFailedError(w, s)
        PROVE  UNCHANGED schedule
    BY <2>4 DEF Validate, ReadClaim, ReadConfig, CommitConflict, MarkFailedError
  <2>5. CASE ListDue(w) \/ FinishBatch(w) \/ ApplyError(w) \/ Abandon(w)
    BY <2>5 DEF ListDue, FinishBatch, ApplyError, Abandon, Written
  <2>6. Written \/ UNCHANGED schedule
    BY <1>4, <2>1, <2>2, <2>3, <2>4, <2>5 DEF WorkerStep, FaultStep
  <2>7. QED
    BY <2>6 DEF Written
<1>5. QED
  BY <1>1, <1>2, <1>3, <1>4 DEF Next

\* What the row of a claim is in the batch of its replica.
LEMMA CurrentRow ==
  ASSUME QueueInv, NEW w \in Worker, NEW s \in Schedule, Current(w, s)
  PROVE  schedule[s] \in ScheduleRow /\ schedule[s].claimToken # NoToken
<1>1. schedule[s] # NoSchedule /\ schedule[s].claimToken # NoToken
  BY DEF Current, Earliest, QueueInv, References, Claimed
<1>2. QED
  BY <1>1, RowFields DEF QueueInv, TypeOK

\* No step takes a row out of a settled status.
LEMMA SettledStep ==
  ASSUME QueueInv, [Next]_vars, NEW u \in Schedule, schedule[u].status \in Settled
  PROVE  schedule'[u].status \in Settled
<1>0. schedule \in [Schedule -> ScheduleRow \cup {NoSchedule}]
  BY DEF QueueInv, TypeOK
<1>1. CASE UNCHANGED schedule
  BY <1>1
<1>2. ASSUME NEW s \in Schedule, NEW t \in Target, NEW p \in Patch,
             NEW at \in 1 .. MaxExecuteAt, Create(s, t, p, at)
      PROVE  schedule'[u].status \in Settled
  BY <1>0, <1>2 DEF Create, Settled, NoSchedule
<1>3. ASSUME NEW s \in Schedule, schedule[s] # NoSchedule, NEW x \in Settled,
             schedule' = [schedule EXCEPT ![s].status = x]
      PROVE  schedule'[u].status \in Settled
  <2>1. schedule[s] \in ScheduleRow /\ x \in Status
    BY <1>0, <1>3, RowFields DEF Settled, Status
  <2>2. schedule'[s].status = x
    BY <1>0, <1>3, <2>1 DEF ScheduleRow
  <2>3. u # s => schedule'[u] = schedule[u]
    BY <1>0, <1>3
  <2>4. QED
    BY <1>3, <2>2, <2>3
<1>4. ASSUME NEW o \in Operator, NEW s \in Schedule, CancelWrite(o, s)
      PROVE  schedule'[u].status \in Settled
  <2>1. schedule[s] # NoSchedule /\ "cancelled" \in Settled
    BY <1>4 DEF CancelWrite, QueueInv, References, Settled
  <2>2. schedule' = [schedule EXCEPT ![s].status = "cancelled"]
    BY <1>4 DEF CancelWrite
  <2>3. QED
    BY <1>3, <2>1, <2>2
<1>5. ASSUME NEW w \in Worker, NEW s \in Schedule, ClaimNext(w, s), ClaimMatches(w, s)
      PROVE  schedule'[u].status \in Settled
  <2>1. u # s
    BY <1>5 DEF ClaimMatches, Claimable, Settled
  <2>2. schedule'[u] = schedule[u]
    BY <1>0, <1>5, <2>1 DEF ClaimNext
  <2>3. QED
    BY <2>2
<1>6. ASSUME NEW w \in Worker, NEW s \in Schedule, Commit(w, s)
      PROVE  schedule'[u].status \in Settled
  <2>1. Current(w, s) /\ schedule' = [schedule EXCEPT ![s].status = "executed"]
    BY <1>6 DEF Commit
  <2>2. schedule[s] # NoSchedule /\ "executed" \in Settled
    BY <2>1, CurrentRow, RowFields DEF Settled
  <2>3. QED
    BY <1>3, <2>1, <2>2
<1>7. ASSUME NEW w \in Worker, NEW s \in Schedule, MarkFailed(w, s), HoldsRow(w, s)
      PROVE  schedule'[u].status \in Settled
  <2>1. Current(w, s) /\ schedule' = [schedule EXCEPT ![s].status = "failed"]
    BY <1>7 DEF MarkFailed
  <2>2. schedule[s] # NoSchedule /\ "failed" \in Settled
    BY <2>1, CurrentRow, RowFields DEF Settled
  <2>3. QED
    BY <1>3, <2>1, <2>2
<1>8. QED
  BY <1>1, <1>2, <1>4, <1>5, <1>6, <1>7, Writers DEF Written

\* A change that was executed, cancelled or failed never re-enters the queue.
THEOREM SettledStaysSettledHolds == Spec => SettledStaysSettled
<1>1. QueueInv /\ [Next]_vars =>
        [\A s \in Schedule :
           schedule[s].status \in Settled => schedule'[s].status \in Settled]_vars
  BY SettledStep
<1>2. QED
  BY <1>1, QueueInvariant, PTL DEF Spec, SettledStaysSettled

\* No step changes a row that was cancelled without ever being claimed.
LEMMA EarlyCancelStep ==
  ASSUME QueueInv, [Next]_vars, NEW u \in Schedule,
         schedule[u].status = "cancelled", schedule[u].claimToken = NoToken
  PROVE  schedule'[u] = schedule[u]
<1>0. schedule \in [Schedule -> ScheduleRow \cup {NoSchedule}]
  BY DEF QueueInv, TypeOK
<1>1. ASSUME NEW s \in Schedule, NEW t \in Target, NEW p \in Patch,
             NEW at \in 1 .. MaxExecuteAt, Create(s, t, p, at)
      PROVE  schedule'[u] = schedule[u]
  BY <1>0, <1>1 DEF Create, NoSchedule
<1>2. ASSUME NEW o \in Operator, NEW s \in Schedule, CancelWrite(o, s)
      PROVE  schedule'[u] = schedule[u]
  <2>1. schedule' = [schedule EXCEPT ![s] = [schedule[s] EXCEPT !.status = "cancelled"]]
    BY <1>0, <1>2 DEF CancelWrite
  <2>2. schedule[u] \in ScheduleRow
    BY <1>0, RowFields DEF NoSchedule
  <2>3. [schedule[u] EXCEPT !.status = "cancelled"] = schedule[u]
    BY <2>2 DEF ScheduleRow
  <2>4. QED
    BY <1>0, <2>1, <2>3
<1>3. ASSUME NEW w \in Worker, NEW s \in Schedule, ClaimNext(w, s), ClaimMatches(w, s)
      PROVE  schedule'[u] = schedule[u]
  <2>1. u # s
    BY <1>3 DEF ClaimMatches, Claimable
  <2>2. QED
    BY <1>0, <1>3, <2>1 DEF ClaimNext
<1>4. ASSUME NEW w \in Worker, NEW s \in Schedule, Commit(w, s) \/ MarkFailed(w, s)
      PROVE  schedule'[u] = schedule[u]
  <2>1. Current(w, s)
    BY <1>4 DEF Commit, MarkFailed
  <2>2. u # s
    BY <2>1, CurrentRow
  <2>3. QED
    BY <1>0, <1>4, <2>2 DEF Commit, MarkFailed
<1>5. QED
  BY <1>1, <1>2, <1>3, <1>4, Writers DEF Written

\* A cancel that lands before the first claim is final: no replica that listed
\* the change before the cancel touches the row again.
THEOREM EarlyCancelIsFinalHolds == Spec => EarlyCancelIsFinal
<1>1. QueueInv /\ [Next]_vars =>
        [\A s \in Schedule :
           schedule[s].status = "cancelled" /\ schedule[s].claimToken = NoToken
             => schedule'[s] = schedule[s]]_vars
  BY EarlyCancelStep
<1>2. QED
  BY <1>1, QueueInvariant, PTL DEF Spec, EarlyCancelIsFinal

\* A step that marks a row failed is that of the claim that owns it.
LEMMA FailedStep ==
  ASSUME QueueInv, [Next]_vars, NEW u \in Schedule,
         schedule[u].status # "failed", schedule'[u].status = "failed"
  PROVE  \E w \in Worker : MarkFailed(w, u) /\ HoldsRow(w, u)
<1>0. schedule \in [Schedule -> ScheduleRow \cup {NoSchedule}]
  BY DEF QueueInv, TypeOK
<1>1. ASSUME NEW s \in Schedule, NEW t \in Target, NEW p \in Patch,
             NEW at \in 1 .. MaxExecuteAt, Create(s, t, p, at)
      PROVE  FALSE
  BY <1>0, <1>1 DEF Create
<1>2. ASSUME NEW s \in Schedule, schedule[s] # NoSchedule,
             NEW x \in {"cancelled", "executed"},
             schedule' = [schedule EXCEPT ![s].status = x]
      PROVE  FALSE
  <2>1. schedule[s] \in ScheduleRow
    BY <1>0, <1>2, RowFields
  <2>2. schedule'[s].status = x
    BY <1>0, <1>2, <2>1 DEF ScheduleRow
  <2>3. u # s => schedule'[u] = schedule[u]
    BY <1>0, <1>2
  <2>4. QED
    BY <2>2, <2>3
<1>3. ASSUME NEW o \in Operator, NEW s \in Schedule, CancelWrite(o, s)
      PROVE  FALSE
  <2>1. schedule[s] # NoSchedule
    BY <1>3 DEF CancelWrite, QueueInv, References
  <2>2. schedule' = [schedule EXCEPT ![s].status = "cancelled"]
    BY <1>3 DEF CancelWrite
  <2>3. QED
    BY <1>2, <2>1, <2>2
<1>4. ASSUME NEW w \in Worker, NEW s \in Schedule, ClaimNext(w, s), ClaimMatches(w, s)
      PROVE  FALSE
  <2>1. schedule[s] \in ScheduleRow
    BY <1>0, <1>4, RowFields DEF ClaimMatches, Claimable, NoSchedule
  <2>2. schedule'[s].status = "running"
    BY <1>0, <1>4, <2>1 DEF ClaimNext, ScheduleRow
  <2>3. u # s => schedule'[u] = schedule[u]
    BY <1>0, <1>4 DEF ClaimNext
  <2>4. QED
    BY <2>2, <2>3
<1>5. ASSUME NEW w \in Worker, NEW s \in Schedule, Commit(w, s)
      PROVE  FALSE
  <2>1. Current(w, s) /\ schedule' = [schedule EXCEPT ![s].status = "executed"]
    BY <1>5 DEF Commit
  <2>2. schedule[s] # NoSchedule
    BY <2>1, CurrentRow, RowFields
  <2>3. QED
    BY <1>2, <2>1, <2>2
<1>6. ASSUME NEW w \in Worker, NEW s \in Schedule, MarkFailed(w, s), HoldsRow(w, s)
      PROVE  u = s
  BY <1>0, <1>6 DEF MarkFailed
<1>7. QED
  BY <1>1, <1>3, <1>4, <1>5, <1>6, Writers DEF Written

------------------------------------------------------------------------------
(* The rows that scheduled changes share with interactive requests *)

\* A row's revision never runs ahead of the statements that wrote it, with the
\* scheduler as one of the writers.
THEOREM SharedRevisionCountsCommits == Spec => []RevisionCountsCommits
<1>1. QueueInv => RevisionCountsCommits
  BY DEF QueueInv, ConfigInv, RevisionCountsCommits
<1>2. QED
  BY <1>1, QueueInvariant, PTL

\* The steps that change a configuration row: an interactive request, a commit.
LEMMA RowWriters ==
  ASSUME [Next]_vars, config' # config
  PROVE  ConfigNext \/ \E w \in Worker, s \in Schedule : Commit(w, s)
<1>1. CASE RequestStep \/ Tick \/ UNCHANGED vars
  BY <1>1 DEF RequestStep, Create, CancelRead, CancelWrite, Tick, vars, configVars
<1>2. ASSUME NEW w \in Worker, NEW s \in Schedule,
             \/ ClaimNext(w, s) \/ Validate(w, s) \/ ReadClaim(w, s) \/ ReadConfig(w, s)
             \/ CommitConflict(w, s) \/ MarkFailed(w, s) \/ MarkFailedError(w, s)
      PROVE  FALSE
  BY <1>2 DEF ClaimNext, Validate, ReadClaim, ReadConfig, CommitConflict, MarkFailed,
     MarkFailedError, configVars
<1>3. ASSUME NEW w \in Worker, ListDue(w) \/ FinishBatch(w) \/ ApplyError(w) \/ Abandon(w)
      PROVE  FALSE
  BY <1>3 DEF ListDue, FinishBatch, ApplyError, Abandon, configVars
<1>4. CASE InteractiveStep
  BY <1>4 DEF InteractiveStep
<1>5. QED
  BY <1>1, <1>2, <1>3, <1>4 DEF Next, WorkerStep, FaultStep

\* A change of a row's content raises its revision, whoever makes it, unless it
\* is a toggle that read an older one.
LEMMA SharedRevisionStep ==
  ASSUME QueueInv, [Next]_vars, NEW t \in Target,
         Content(config[t])' # Content(config[t]), ~StaleToggle(t)
  PROVE  config'[t].revision > config[t].revision
<1>1. config' # config
  BY DEF Content
<1>2. ASSUME ConfigNext
      PROVE  config'[t].revision > config[t].revision
  BY <1>2, RevisionStep DEF QueueInv
<1>3. ASSUME NEW w \in Worker, NEW s \in Schedule, Commit(w, s)
      PROVE  config'[t].revision > config[t].revision
  <2>1. PICK u \in Target, row \in Row :
          /\ config' = [config EXCEPT ![u] = row]
          /\ row.revision \in {config[u].revision, config[u].revision + 1}
          /\ row.revision = config[u].revision => row = config[u]
    BY <1>3, CommittedRow
  <2>2. config \in [Target -> Row] /\ config[t].revision \in Nat
    BY DEF QueueInv, TypeOK, ConfigTypeOK, Row
  <2>3. config'[t] # config[t]
    BY DEF Content
  <2>4. u = t /\ config'[t] = row
    BY <2>1, <2>2, <2>3
  <2>5. QED
    BY <2>1, <2>2, <2>3, <2>4
<1>4. QED
  BY <1>1, <1>2, <1>3, RowWriters

\* The revision of a row grows with its content under requests and schedules
\* together, except where a toggle has raced.
THEOREM SharedRevisionGrows == Spec => RevisionGrowsUnlessRaced
<1>1. QueueInv /\ [Next]_vars =>
        [\A t \in Target :
           Content(config[t])' # Content(config[t]) /\ ~StaleToggle(t)
             => config'[t].revision > config[t].revision]_configVars
  BY SharedRevisionStep
<1>2. QED
  BY <1>1, QueueInvariant, PTL DEF Spec, RevisionGrowsUnlessRaced

------------------------------------------------------------------------------
(* What a scheduled change leaves in force *)

\* The only step that applies a change is the commit of its transaction.
LEMMA Appliers ==
  ASSUME QueueInv, [Next]_vars, NEW u \in Schedule, applied'[u] # applied[u]
  PROVE  \E w \in Worker : Commit(w, u)
<1>0. applied \in [Schedule -> Nat]
  BY DEF QueueInv, TypeOK
<1>1. ASSUME NEW w \in Worker, NEW s \in Schedule, Commit(w, s)
      PROVE  s = u
  BY <1>0, <1>1 DEF Commit
<1>2. CASE UNCHANGED vars
  BY <1>2 DEF vars, historyVars
<1>3. CASE RequestStep \/ InteractiveStep \/ Tick
  BY <1>3 DEF RequestStep, Create, CancelRead, CancelWrite, InteractiveStep, Tick, historyVars
<1>4. ASSUME NEW w \in Worker, NEW s \in Schedule,
             \/ ClaimNext(w, s) \/ Validate(w, s) \/ ReadClaim(w, s) \/ ReadConfig(w, s)
             \/ CommitConflict(w, s) \/ MarkFailed(w, s) \/ MarkFailedError(w, s)
      PROVE  FALSE
  BY <1>4 DEF ClaimNext, Validate, ReadClaim, ReadConfig, CommitConflict, MarkFailed,
     MarkFailedError, historyVars
<1>5. ASSUME NEW w \in Worker, ListDue(w) \/ FinishBatch(w) \/ ApplyError(w) \/ Abandon(w)
      PROVE  FALSE
  BY <1>5 DEF ListDue, FinishBatch, ApplyError, Abandon, historyVars
<1>6. \E w \in Worker, s \in Schedule : Commit(w, s)
  BY <1>2, <1>3, <1>4, <1>5 DEF Next, WorkerStep, FaultStep
<1>7. QED
  BY <1>1, <1>6

\* A patch written over the row it was computed from is in force as a whole,
\* and so is the row a patch creates.
LEMMA PatchInForce ==
  ASSUME NEW s \in Schedule, schedule[s].patch \in Patch, NEW r \in Row, NEW q \in Row
  PROVE  /\ InForce(s, CreatedRow(schedule[s].patch))
         /\ Content(q) = Content(r) => InForce(s, PatchedRow(r, q, schedule[s].patch))
<1> DEFINE p == schedule[s].patch
<1>1. p.enabled \in BOOLEAN \cup {Unset} /\ p.policy \in Policy \cup {Unset}
  BY SchedulerAssumption
<1>2. InForce(s, CreatedRow(p))
  BY <1>1 DEF InForce, CreatedRow
<1>3. ASSUME Content(q) = Content(r)
      PROVE  InForce(s, PatchedRow(r, q, p))
  <2>1. q.enabled = r.enabled /\ q.policy = r.policy
    BY <1>3 DEF Content
  <2>2. PatchedRow(r, q, p).enabled =
          IF p.enabled \notin {Unset, q.enabled} THEN p.enabled ELSE r.enabled
    BY DEF PatchedRow
  <2>3. PatchedRow(r, q, p).policy =
          IF p.policy \notin {Unset, q.policy} THEN p.policy ELSE r.policy
    BY DEF PatchedRow
  <2>4. p.enabled # Unset => PatchedRow(r, q, p).enabled = p.enabled
    BY <2>1, <2>2
  <2>5. p.policy # Unset => PatchedRow(r, q, p).policy = p.policy
    BY <2>1, <2>3
  <2>6. QED
    BY <2>4, <2>5 DEF InForce
<1>4. QED
  BY <1>2, <1>3

\* A commit leaves its patch in force, or wrote over a row it had not read.
LEMMA AppliedWholeStep ==
  ASSUME QueueInv, [Next]_vars, NEW s \in Schedule, applied'[s] # applied[s]
  PROVE  \/ InForce(s, config'[schedule[s].target])
         \/ \E w \in Worker : pc[w] = "commit" /\ Current(w, s) /\ Overtaken(w, s)
<1>1. PICK w \in Worker : Commit(w, s)
  BY Appliers
<1> DEFINE t == schedule[s].target
           p == schedule[s].patch
           row == IF seen[w].revision = 0 THEN CreatedRow(p)
                  ELSE PatchedRow(config[t], seen[w], p)
<1>2. /\ pc[w] = "commit" /\ Current(w, s)
      /\ config' = [config EXCEPT ![t] = row]
  BY <1>1 DEF Commit
<1>3. /\ t \in Target /\ p \in Patch /\ seen[w] \in Row
      /\ config \in [Target -> Row] /\ config[t] \in Row
  <2>1. t \in Target /\ p \in Patch
    BY <1>2, CurrentRow DEF ScheduleRow
  <2>2. QED
    BY <2>1 DEF QueueInv, TypeOK, ConfigTypeOK
<1>4. config'[t] = row
  BY <1>2, <1>3
<1>5. CASE seen[w].revision = 0
  BY <1>3, <1>4, <1>5, PatchInForce
<1>6. CASE seen[w].revision # 0 /\ Content(seen[w]) = Content(config[t])
  BY <1>3, <1>4, <1>6, PatchInForce
<1>7. CASE Content(seen[w]) # Content(config[t])
  BY <1>2, <1>7 DEF Overtaken
<1>8. QED
  BY <1>5, <1>6, <1>7

\* A scheduled change takes effect as a whole unless a request changed its row
\* between the read and the write of its transaction.
THEOREM AppliedWholeHolds == Spec => AppliedWholeUnlessOvertaken
<1>1. QueueInv /\ [Next]_vars =>
        [\A s \in Schedule :
           applied'[s] # applied[s]
             => \/ InForce(s, config'[schedule[s].target])
                \/ \E w \in Worker : pc[w] = "commit" /\ Current(w, s) /\ Overtaken(w, s)]_vars
  BY AppliedWholeStep
<1>2. QED
  BY <1>1, QueueInvariant, PTL DEF Spec, AppliedWholeUnlessOvertaken

==============================================================================
