----------------------- MODULE FlagSchedulerOnce_proofs -----------------------
(***************************************************************************)
(* What the claim protocol of the scheduler promises about who works on a  *)
(* change and how often: claims are tried in the order of the due times, a *)
(* lease excludes other replicas while it lasts, and, when every batch     *)
(* ends within its lease, no change is applied twice.                      *)
(***************************************************************************)
EXTENDS FlagScheduler_proofs

\* What a step may do to one row of the table.
RowStep(u) ==
  \/ schedule'[u] = schedule[u]
  \/ /\ schedule[u] = NoSchedule
     /\ schedule'[u] \in ScheduleRow
     /\ schedule'[u].status = "pending"
     /\ schedule'[u].late \/ schedule'[u].executeAt > now
     /\ schedule'[u].claimToken = NoToken
  \/ /\ schedule[u] \in ScheduleRow
     /\ schedule'[u] \in ScheduleRow
     /\ schedule'[u].status \in Settled
     /\ schedule'[u].executeAt = schedule[u].executeAt
     /\ schedule'[u].claimToken = schedule[u].claimToken
  \/ /\ schedule[u] \in ScheduleRow
     /\ schedule'[u] \in ScheduleRow
     /\ schedule'[u].status = "running"
     /\ schedule'[u].executeAt = schedule[u].executeAt
     /\ schedule'[u].claimToken # NoToken
     /\ \E w \in Worker : ClaimNext(w, u) /\ ClaimMatches(w, u)
                          /\ schedule'[u].claimedAt = batchNow[w]

\* Every step of the system changes each row in one of these ways.
LEMMA RowSteps ==
  ASSUME QueueInv, [Next]_vars, NEW u \in Schedule
  PROVE  RowStep(u)
<1>0. schedule \in [Schedule -> ScheduleRow \cup {NoSchedule}]
  BY DEF QueueInv, TypeOK
<1>1. CASE UNCHANGED schedule
  BY <1>1 DEF RowStep
<1>2. ASSUME NEW s \in Schedule, NEW t \in Target, NEW p \in Patch,
             NEW at \in 1 .. MaxExecuteAt, Create(s, t, p, at)
      PROVE  RowStep(u)
  <2> DEFINE r == [status |-> "pending", target |-> t, patch |-> p, executeAt |-> at,
                   claimToken |-> NoToken, claimedAt |-> 0, late |-> at <= now]
  <2>1. r \in ScheduleRow /\ r.status = "pending" /\ r.claimToken = NoToken
    BY SchedulerAssumption DEF ScheduleRow, Status, NoToken
  <2>2. schedule' = [schedule EXCEPT ![s] = r] /\ schedule[s] = NoSchedule
    BY <1>2 DEF Create
  <2>3. r.late \/ r.executeAt > now
    <3>1. at > now \/ at <= now
      BY SchedulerAssumption DEF QueueInv, TypeOK
    <3>2. r.late = (at <= now) /\ r.executeAt = at
      BY Zenon
    <3>3. QED
      BY <3>1, <3>2
  <2> HIDE DEF r
  <2>4. schedule'[u] = IF u = s THEN r ELSE schedule[u]
    BY <1>0, <2>2
  <2>5. QED
    BY <2>1, <2>2, <2>3, <2>4 DEF RowStep
<1>3. ASSUME NEW s \in Schedule, schedule[s] \in ScheduleRow, NEW x \in Settled,
             schedule' = [schedule EXCEPT ![s].status = x]
      PROVE  RowStep(u)
  <2> DEFINE r == [schedule[s] EXCEPT !.status = x]
  <2>1. /\ r \in ScheduleRow /\ r.status = x /\ r.executeAt = schedule[s].executeAt
        /\ r.claimToken = schedule[s].claimToken
    <3>1. x \in Status
      BY DEF Settled, Status
    <3>2. QED
      BY <1>3, <3>1, RowStatus
  <2>2. schedule' = [schedule EXCEPT ![s] = r]
    BY <1>0, <1>3
  <2> HIDE DEF r
  <2>3. schedule'[u] = IF u = s THEN r ELSE schedule[u]
    BY <1>0, <2>2
  <2>4. QED
    BY <1>3, <2>1, <2>3 DEF RowStep
<1>4. ASSUME NEW o \in Operator, NEW s \in Schedule, CancelWrite(o, s)
      PROVE  RowStep(u)
  <2>1. schedule[s] \in ScheduleRow /\ "cancelled" \in Settled
    BY <1>0, <1>4 DEF CancelWrite, QueueInv, References, Settled
  <2>2. schedule' = [schedule EXCEPT ![s].status = "cancelled"]
    BY <1>4 DEF CancelWrite
  <2>3. QED
    BY <1>3, <2>1, <2>2
<1>5. ASSUME NEW w \in Worker, NEW s \in Schedule, Commit(w, s)
      PROVE  RowStep(u)
  <2>1. Current(w, s) /\ schedule' = [schedule EXCEPT ![s].status = "executed"]
    BY <1>5 DEF Commit
  <2>2. schedule[s] \in ScheduleRow /\ "executed" \in Settled
    BY <2>1, CurrentRow DEF Settled
  <2>3. QED
    BY <1>3, <2>1, <2>2
<1>6. ASSUME NEW w \in Worker, NEW s \in Schedule, MarkFailed(w, s), HoldsRow(w, s)
      PROVE  RowStep(u)
  <2>1. Current(w, s) /\ schedule' = [schedule EXCEPT ![s].status = "failed"]
    BY <1>6 DEF MarkFailed
  <2>2. schedule[s] \in ScheduleRow /\ "failed" \in Settled
    BY <2>1, CurrentRow DEF Settled
  <2>3. QED
    BY <1>3, <2>1, <2>2
<1>7. ASSUME NEW w \in Worker, NEW s \in Schedule, ClaimNext(w, s), ClaimMatches(w, s)
      PROVE  RowStep(u)
  <2> DEFINE r == [schedule[s] EXCEPT !.status = "running", !.claimToken = FreshToken,
                                      !.claimedAt = batchNow[w], !.late = FALSE]
  <2>1. /\ schedule[s] \in ScheduleRow /\ batchNow[w] \in Nat
        /\ FreshToken \in Nat /\ FreshToken # NoToken
    <3>1. schedule[s] \in ScheduleRow
      BY <1>0, <1>7, RowFields DEF ClaimMatches, Claimable, NoSchedule
    <3>2. QED
      BY <3>1 DEF QueueInv, TypeOK, FreshToken, NoToken
  <2>2. schedule' = [schedule EXCEPT ![s] = r]
    BY <1>0, <1>7 DEF ClaimNext
  <2>3. /\ r \in ScheduleRow /\ r.status = "running" /\ r.claimedAt = batchNow[w]
        /\ r.executeAt = schedule[s].executeAt /\ r.claimToken = FreshToken
    <3> HIDE DEF FreshToken
    <3>1. r \in ScheduleRow
      BY <2>1 DEF ScheduleRow, Status
    <3>2. r.status = "running" /\ r.claimedAt = batchNow[w]
          /\ r.executeAt = schedule[s].executeAt /\ r.claimToken = FreshToken
      BY <2>1 DEF ScheduleRow, Status
    <3>3. QED
      BY <3>1, <3>2
  <2> HIDE DEF r
  <2>4. schedule'[u] = IF u = s THEN r ELSE schedule[u]
    BY <1>0, <2>2
  <2>5. CASE u = s
    BY <1>7, <2>1, <2>3, <2>4, <2>5 DEF RowStep
  <2>6. CASE u # s
    BY <2>4, <2>6 DEF RowStep
  <2>7. QED
    BY <2>5, <2>6
<1>8. QED
  BY <1>1, <1>2, <1>4, <1>5, <1>6, <1>7, Writers DEF Written

\* A row keeps its place in the table and its due time.
LEMMA RowKept ==
  ASSUME QueueInv, [Next]_vars, NEW u \in Schedule, schedule[u] # NoSchedule
  PROVE  schedule'[u] # NoSchedule /\ schedule'[u].executeAt = schedule[u].executeAt
<1>1. RowStep(u)
  BY RowSteps
<1>2. \A r \in ScheduleRow : r # NoSchedule
  BY RowFields
<1>3. QED
  BY <1>1, <1>2 DEF RowStep

\* Before is a strict order of the existing rows.
LEMMA BeforeOrder ==
  ASSUME QueueInv, NEW r \in Schedule, NEW s \in Schedule,
         schedule[r] # NoSchedule, schedule[s] # NoSchedule
  PROVE  /\ ~(Before(r, s) /\ Before(s, r))
         /\ r # s => Before(r, s) \/ Before(s, r)
         /\ Before(r, s) => schedule[r].executeAt <= schedule[s].executeAt
<1>1. schedule[r].executeAt \in Nat /\ schedule[s].executeAt \in Nat
  BY RowFields DEF QueueInv, TypeOK
<1>2. r \in Nat /\ s \in Nat
  BY SchedulerAssumption
<1>3. QED
  BY <1>1, <1>2 DEF Before

------------------------------------------------------------------------------
(* The order of claims *)

\* A batch lists every waiting change that comes before one of its own, less
\* those that came into the table when they were due.
ListedInOrder ==
  \A w \in Worker : \A s \in listed[w] : \A r \in Schedule :
    schedule[r].status = "pending" /\ Before(r, s)
      => r \in listed[w] \/ schedule[r].late

OrderInv == ListedInOrder /\ ClaimsInOrder

\* A change that waits after a step and comes before a due row was waiting
\* before the step, unless the step put it into the table too late.
LEMMA WaitingKept ==
  ASSUME QueueInv, [Next]_vars, NEW r \in Schedule, NEW s \in Schedule,
         schedule[s] # NoSchedule, schedule[s].executeAt <= now,
         schedule'[r].status = "pending", ~schedule'[r].late, Before(r, s)'
  PROVE  schedule[r].status = "pending" /\ schedule'[r] = schedule[r] /\ Before(r, s)
<1>1. schedule'[s].executeAt = schedule[s].executeAt /\ schedule[s].executeAt \in Nat
      /\ now \in Nat
  BY RowKept, RowFields DEF QueueInv, TypeOK
<1>2. schedule'[r] = schedule[r]
  <2>1. RowStep(r)
    BY RowSteps
  <2>2. \A q \in ScheduleRow : q.executeAt \in Nat
    BY DEF ScheduleRow
  <2>3. ~(schedule'[r] \in ScheduleRow /\ schedule'[r].executeAt > now)
    BY <1>1, <2>2 DEF Before
  <2>4. QED
    BY <2>1, <2>3 DEF RowStep, Settled
<1>3. QED
  BY <1>1, <1>2 DEF Before

\* Listing keeps the order of the queue, and so does every later claim.
LEMMA ListedStep ==
  ASSUME QueueInv, OrderInv, [Next]_vars
  PROVE  ListedInOrder'
<1> SUFFICES ASSUME NEW w \in Worker, NEW s \in listed'[w], NEW r \in Schedule,
                    schedule'[r].status = "pending", ~schedule'[r].late, Before(r, s)'
             PROVE  r \in listed'[w]
  BY DEF ListedInOrder
<1>0. listed \in [Worker -> SUBSET Schedule]
  BY DEF QueueInv, TypeOK
<1>1. CASE listed'[w] = listed[w]
  <2>1. s \in Schedule /\ schedule[s] # NoSchedule /\ schedule[s].executeAt <= now
    <3>1. /\ s \in Schedule /\ schedule[s] # NoSchedule
          /\ schedule[s].executeAt <= batchNow[w] /\ batchNow[w] <= now
          /\ batchNow[w] \in Nat /\ now \in Nat
      BY <1>0, <1>1 DEF QueueInv, TypeOK, References
    <3>2. schedule[s].executeAt \in Nat
      BY <3>1, RowFields DEF QueueInv, TypeOK
    <3>3. QED
      BY <3>1, <3>2
  <2>2. schedule[r].status = "pending" /\ ~schedule[r].late /\ Before(r, s)
    BY <2>1, WaitingKept
  <2>3. QED
    BY <1>1, <2>2 DEF OrderInv, ListedInOrder
<1>2. ASSUME ListDue(w) PROVE r \in listed'[w]
  <2> DEFINE D == {q \in Schedule : Claimable(q, now)}
  <2>1. CASE UNCHANGED listed
    BY <1>1, <2>1
  <2>2. CASE \E L \in Batch(D) : listed' = [listed EXCEPT ![w] = L]
    <3>1. PICK L \in Batch(D) : listed' = [listed EXCEPT ![w] = L]
      BY <2>2
    <3>2. listed'[w] = L /\ L \subseteq D
      BY <1>0, <3>1 DEF Batch
    <3>3. UNCHANGED <<schedule, now>>
      BY <1>2 DEF ListDue
    <3>4. /\ s \in Schedule /\ schedule[s] # NoSchedule /\ schedule[s].executeAt <= now
      BY <3>2, RowFields DEF Claimable, QueueInv, TypeOK, References, NoSchedule
    <3>5. schedule[r].status = "pending" /\ Before(r, s) /\ schedule[r] # NoSchedule
      BY <3>3 DEF Before, NoSchedule
    <3>6. schedule[r].executeAt <= now
      <4>1. schedule[r].executeAt <= schedule[s].executeAt
        BY <3>4, <3>5, BeforeOrder
      <4>2. schedule[r].executeAt \in Nat /\ schedule[s].executeAt \in Nat /\ now \in Nat
        BY <3>4, <3>5, RowFields DEF QueueInv, TypeOK
      <4>3. QED
        BY <3>4, <4>1, <4>2
    <3>7. r \in D
      BY <3>5, <3>6 DEF Claimable
    <3>8. ~Before(s, r)
      BY <3>4, <3>5, BeforeOrder
    <3>9. r \in L
      BY <3>2, <3>7, <3>8 DEF Batch
    <3>10. QED
      BY <3>2, <3>9
  <2>3. QED
    BY <1>2, <2>1, <2>2 DEF ListDue
<1>3. ASSUME NEW u \in Schedule, ClaimNext(w, u) PROVE r \in listed'[w]
  <2>1. listed'[w] = listed[w] \ {u}
    BY <1>0, <1>3 DEF ClaimNext
  <2>2. s \in Schedule /\ s \in listed[w]
    BY <1>0, <2>1
  <2>3. /\ schedule[s] # NoSchedule /\ schedule[s].executeAt <= batchNow[w]
        /\ batchNow[w] <= now /\ batchNow[w] \in Nat /\ now \in Nat
    BY <2>2 DEF QueueInv, TypeOK, References
  <2>4. schedule[s].executeAt <= now
    <3>1. schedule[s].executeAt \in Nat
      BY <2>2, <2>3, RowFields DEF QueueInv, TypeOK
    <3>2. QED
      BY <2>3, <3>1
  <2>5. schedule[r].status = "pending" /\ schedule'[r] = schedule[r] /\ Before(r, s)
    BY <2>2, <2>3, <2>4, WaitingKept
  <2>6. r \in listed[w]
    BY <2>2, <2>5 DEF OrderInv, ListedInOrder
  <2>7. r # u
    <3> SUFFICES ASSUME r = u PROVE FALSE
      OBVIOUS
    <3>1. schedule[u].executeAt <= batchNow[w]
      BY <2>6 DEF QueueInv, References
    <3>2. ClaimMatches(w, u)
      BY <2>5, <3>1 DEF ClaimMatches, Claimable
    <3>3. schedule'[u].status = "running"
      <4>1. schedule[u] \in ScheduleRow
        BY <2>5, RowFields DEF QueueInv, TypeOK, NoSchedule
      <4>2. schedule' = [schedule EXCEPT ![u].status = "running",
                                         ![u].claimToken = FreshToken,
                                         ![u].claimedAt = batchNow[w],
                                         ![u].late = FALSE]
        BY <1>3, <3>2 DEF ClaimNext
      <4>3. QED
        BY <4>1, <4>2 DEF QueueInv, TypeOK, ScheduleRow
    <3>4. QED
      BY <2>5, <3>3
  <2>8. QED
    BY <2>1, <2>6, <2>7
<1>4. ASSUME NEW v \in Worker, v # w, WorkerStep(v) \/ FaultStep(v)
      PROVE  listed'[w] = listed[w]
  <2>1. ListDue(v) => listed'[w] = listed[w]
    BY <1>0, <1>4 DEF ListDue
  <2>2. ASSUME NEW u \in Schedule, ClaimNext(v, u) PROVE listed'[w] = listed[w]
    BY <1>0, <1>4, <2>2 DEF ClaimNext
  <2>3. Abandon(v) => listed'[w] = listed[w]
    BY <1>0, <1>4 DEF Abandon
  <2>4. QED
    BY <1>4, <2>1, <2>2, <2>3 DEF WorkerStep, FaultStep, FinishBatch, Validate, ReadClaim,
       ReadConfig, Commit, CommitConflict, MarkFailed, ApplyError, MarkFailedError
<1>5. ASSUME WorkerStep(w) \/ FaultStep(w) PROVE r \in listed'[w]
  <2>1. CASE Abandon(w)
    <3>1. listed'[w] = {}
      BY <1>0, <2>1 DEF Abandon
    <3>2. QED
      BY <3>1
  <2>2. CASE UNCHANGED listed
    BY <1>1, <2>2
  <2>3. QED
    BY <1>2, <1>3, <1>5, <2>1, <2>2 DEF WorkerStep, FaultStep, FinishBatch, Validate,
       ReadClaim, ReadConfig, Commit, CommitConflict, MarkFailed, ApplyError, MarkFailedError
<1>6. CASE RequestStep \/ InteractiveStep \/ Tick \/ UNCHANGED vars
  <2>1. UNCHANGED listed
    BY <1>6 DEF RequestStep, Create, CancelRead, CancelWrite, InteractiveStep, Tick,
       workerVars, vars
  <2>2. QED
    BY <1>1, <2>1
<1>7. QED
  <2>1. ASSUME NEW v \in Worker, WorkerStep(v) \/ FaultStep(v) PROVE r \in listed'[w]
    BY <1>1, <1>4, <1>5, <2>1
  <2>2. QED
    BY <1>6, <2>1 DEF Next

\* A claim takes the earliest change its batch still lists, and nothing that
\* waits comes before it.
LEMMA OrderStep ==
  ASSUME QueueInv, OrderInv, [Next]_vars
  PROVE  ClaimsInOrder'
<1> SUFFICES ASSUME NEW r \in Schedule, NEW s \in Schedule,
                    schedule'[s].status = "running", schedule'[r].status = "pending",
                    ~schedule'[r].late, Before(r, s)'
             PROVE  FALSE
  BY DEF ClaimsInOrder
<1>1. CASE schedule'[s] = schedule[s]
  <2>1. schedule[s].status = "running" /\ schedule[s] # NoSchedule
        /\ schedule[s].executeAt <= now
    BY <1>1 DEF NoSchedule, QueueInv, References
  <2>2. schedule[r].status = "pending" /\ ~schedule[r].late /\ Before(r, s)
    BY <2>1, WaitingKept
  <2>3. QED
    BY <2>1, <2>2 DEF OrderInv, ClaimsInOrder
<1>2. ASSUME NEW w \in Worker, ClaimNext(w, s), schedule[s] \in ScheduleRow
      PROVE  FALSE
  <2>1. Earliest(s, listed[w]) /\ s \in listed[w]
    BY <1>2 DEF ClaimNext, Earliest
  <2>2. /\ schedule[s] # NoSchedule /\ schedule[s].executeAt <= batchNow[w]
        /\ batchNow[w] <= now /\ batchNow[w] \in Nat /\ now \in Nat
        /\ schedule[s].executeAt \in Nat
    BY <1>2, <2>1, RowFields DEF QueueInv, TypeOK, References
  <2>3. schedule[s].executeAt <= now
    BY <2>2
  <2>4. schedule[r].status = "pending" /\ schedule'[r] = schedule[r] /\ Before(r, s)
    BY <2>2, <2>3, WaitingKept
  <2>5. r \in listed[w] /\ schedule[r] # NoSchedule
    BY <2>1, <2>4 DEF OrderInv, ListedInOrder, NoSchedule
  <2>6. ~Before(s, r)
    BY <2>2, <2>4, <2>5, BeforeOrder
  <2>7. r # s
    BY <2>4
  <2>8. QED
    BY <2>1, <2>5, <2>6, <2>7 DEF Earliest
<1>3. QED
  <2>1. RowStep(s)
    BY RowSteps
  <2>2. QED
    BY <1>1, <1>2, <2>1 DEF RowStep, Settled

\* Replicas claim changes in the order of their due times, but for those that
\* came into the table when they were due already.
THEOREM ClaimsInOrderHolds == Spec => []ClaimsInOrder
<1>1. Init => OrderInv
  <2>1. Init => ListedInOrder
    BY DEF Init, ListedInOrder
  <2>2. Init => ClaimsInOrder
    BY DEF Init, ClaimsInOrder, NoSchedule
  <2>3. QED
    BY <2>1, <2>2 DEF OrderInv
<1>2. QueueInv /\ OrderInv /\ [Next]_vars => OrderInv'
  BY ListedStep, OrderStep DEF OrderInv
<1>3. OrderInv => ClaimsInOrder
  BY DEF OrderInv
<1>4. QED
  BY <1>1, <1>2, <1>3, QueueInvariant, PTL DEF Spec

------------------------------------------------------------------------------
(* Who holds a claim *)

\* What a step may do to the batch of one replica.
BatchStep(w) ==
  \/ \* nothing
     pc'[w] = pc[w] /\ claim'[w] = claim[w] /\ batchNow'[w] = batchNow[w]
  \/ \* open a batch
     /\ pc[w] = "idle" /\ pc'[w] = "claim"
     /\ claim'[w] = claim[w] /\ batchNow'[w] = now /\ now' = now
  \/ \* try a claim
     /\ pc[w] = "claim" /\ pc'[w] \in {"claim", "work"} /\ batchNow'[w] = batchNow[w]
     /\ \/ claim'[w] = claim[w]
        \/ \E s \in Schedule :
             /\ ClaimNext(w, s) /\ ClaimMatches(w, s) /\ tokens' = FreshToken
             /\ claim' = [claim EXCEPT ![w][s] = FreshToken]
  \/ \* go on with the current change
     /\ pc[w] \in {"work", "apply", "read", "commit"} /\ pc'[w] \notin {"idle", "work"}
     /\ claim'[w] = claim[w] /\ batchNow'[w] = batchNow[w]
  \/ \* be done with it
     /\ pc[w] \in {"commit", "fail"} /\ pc'[w] = "work" /\ batchNow'[w] = batchNow[w]
     /\ \E s \in Schedule : Current(w, s) /\ Drop(w, s)
  \/ \* end or lose the batch
     /\ pc'[w] = "idle" /\ batchNow'[w] = batchNow[w]
     /\ \A s \in Schedule : claim'[w][s] = NoToken

\* A step of one replica leaves the stage, the batch and the claims of the
\* others alone; requests and the clock leave those of all replicas alone.
LEMMA OwnSteps ==
  ASSUME QueueInv, NEW w \in Worker, [Next]_vars, ~WorkerStep(w), ~FaultStep(w)
  PROVE  claim'[w] = claim[w] /\ pc'[w] = pc[w] /\ batchNow'[w] = batchNow[w]
<1>0. /\ claim \in [Worker -> [Schedule -> Nat]]
      /\ pc \in [Worker -> WorkerStage]
      /\ batchNow \in [Worker -> Nat]
  BY DEF QueueInv, TypeOK
<1>1. CASE RequestStep \/ InteractiveStep \/ Tick \/ UNCHANGED vars
  BY <1>1 DEF RequestStep, Create, CancelRead, CancelWrite, InteractiveStep, Tick,
     workerVars, vars
<1>2. ASSUME NEW v \in Worker, v # w, WorkerStep(v)
      PROVE  claim'[w] = claim[w] /\ pc'[w] = pc[w] /\ batchNow'[w] = batchNow[w]
  <2>1. ASSUME ListDue(v) \/ FinishBatch(v)
        PROVE  claim'[w] = claim[w] /\ pc'[w] = pc[w] /\ batchNow'[w] = batchNow[w]
    BY <1>0, <1>2, <2>1 DEF ListDue, FinishBatch, Goes
  <2>2. ASSUME NEW s \in Schedule,
               Validate(v, s) \/ ReadClaim(v, s) \/ ReadConfig(v, s) \/ CommitConflict(v, s)
        PROVE  claim'[w] = claim[w] /\ pc'[w] = pc[w] /\ batchNow'[w] = batchNow[w]
    BY <1>0, <1>2, <2>2 DEF Validate, ReadClaim, ReadConfig, CommitConflict, Goes
  <2>3. ASSUME NEW s \in Schedule, ClaimNext(v, s)
        PROVE  claim'[w] = claim[w] /\ pc'[w] = pc[w] /\ batchNow'[w] = batchNow[w]
    BY <1>0, <1>2, <2>3 DEF ClaimNext
  <2>4. ASSUME NEW s \in Schedule, Commit(v, s) \/ MarkFailed(v, s)
        PROVE  claim'[w] = claim[w] /\ pc'[w] = pc[w] /\ batchNow'[w] = batchNow[w]
    BY <1>0, <1>2, <2>4 DEF Commit, MarkFailed, Drop, Goes
  <2>5. QED
    BY <1>2, <2>1, <2>2, <2>3, <2>4 DEF WorkerStep
<1>3. ASSUME NEW v \in Worker, v # w, FaultStep(v)
      PROVE  claim'[w] = claim[w] /\ pc'[w] = pc[w] /\ batchNow'[w] = batchNow[w]
  <2>1. ASSUME ApplyError(v) \/ Abandon(v)
        PROVE  claim'[w] = claim[w] /\ pc'[w] = pc[w] /\ batchNow'[w] = batchNow[w]
    BY <1>0, <1>3, <2>1 DEF ApplyError, Abandon, Goes
  <2>2. ASSUME NEW s \in Schedule, MarkFailedError(v, s)
        PROVE  claim'[w] = claim[w] /\ pc'[w] = pc[w] /\ batchNow'[w] = batchNow[w]
    BY <1>0, <1>3, <2>2 DEF MarkFailedError, Drop, Goes
  <2>3. QED
    BY <1>3, <2>1, <2>2 DEF FaultStep
<1>4. QED
  BY <1>1, <1>2, <1>3 DEF Next

\* Every step of the system changes the batch of a replica in one of these ways.
LEMMA BatchSteps ==
  ASSUME QueueInv, NEW w \in Worker, [Next]_vars
  PROVE  BatchStep(w)
<1>0. claim \in [Worker -> [Schedule -> Nat]] /\ pc \in [Worker -> WorkerStage]
      /\ batchNow \in [Worker -> Nat]
  BY DEF QueueInv, TypeOK
<1>1. CASE ~WorkerStep(w) /\ ~FaultStep(w)
  BY <1>1, OwnSteps DEF BatchStep
<1>2. ASSUME ListDue(w)
      PROVE  BatchStep(w)
  <2>1. CASE UNCHANGED <<listed, batchNow, pc>>
    BY <1>2, <2>1 DEF ListDue, BatchStep
  <2>2. CASE batchNow' = [batchNow EXCEPT ![w] = now] /\ pc' = [pc EXCEPT ![w] = "claim"]
    <3>1. batchNow'[w] = now /\ pc'[w] = "claim"
      BY <1>0, <2>2
    <3>2. pc[w] = "idle" /\ claim'[w] = claim[w] /\ now' = now
      BY <1>2 DEF ListDue
    <3>3. QED
      BY <3>1, <3>2 DEF BatchStep
  <2>3. QED
    BY <1>2, <2>1, <2>2 DEF ListDue
<1>3. ASSUME NEW s \in Schedule, ClaimNext(w, s)
      PROVE  BatchStep(w)
  <2>1. pc[w] = "claim" /\ pc'[w] \in {"claim", "work"} /\ batchNow'[w] = batchNow[w]
    BY <1>0, <1>3 DEF ClaimNext
  <2>2. CASE UNCHANGED claim
    BY <2>1, <2>2 DEF BatchStep
  <2>3. CASE ClaimMatches(w, s)
    BY <1>3, <2>1, <2>3 DEF BatchStep, ClaimNext
  <2>4. QED
    BY <1>3, <2>2, <2>3 DEF ClaimNext
<1>4. ASSUME NEW s \in Schedule,
             Validate(w, s) \/ ReadClaim(w, s) \/ ReadConfig(w, s) \/ CommitConflict(w, s)
      PROVE  BatchStep(w)
  <2>1. /\ pc[w] \in {"work", "apply", "read", "commit"} /\ pc'[w] \notin {"idle", "work"}
        /\ claim'[w] = claim[w] /\ batchNow'[w] = batchNow[w]
    BY <1>0, <1>4 DEF Validate, ReadClaim, ReadConfig, CommitConflict, Goes
  <2>2. QED
    BY <2>1 DEF BatchStep
<1>5. ASSUME NEW s \in Schedule, Commit(w, s)
      PROVE  BatchStep(w)
  <2>1. pc[w] = "commit" /\ Current(w, s) /\ batchNow'[w] = batchNow[w]
    BY <1>5 DEF Commit
  <2>2. CASE Drop(w, s) /\ Goes(w, "work")
    <3>1. pc'[w] = "work"
      BY <1>0, <2>2 DEF Goes
    <3>2. QED
      BY <2>1, <2>2, <3>1 DEF BatchStep
  <2>3. CASE Goes(w, "fail") /\ UNCHANGED claim
    <3>1. pc'[w] = "fail"
      BY <1>0, <2>3 DEF Goes
    <3>2. QED
      BY <2>1, <2>3, <3>1 DEF BatchStep
  <2>4. QED
    BY <1>5, <2>2, <2>3 DEF Commit
<1>6. ASSUME NEW s \in Schedule, MarkFailed(w, s) \/ MarkFailedError(w, s)
      PROVE  BatchStep(w)
  <2>1. /\ pc[w] = "fail" /\ Current(w, s) /\ batchNow'[w] = batchNow[w]
        /\ Drop(w, s) /\ Goes(w, "work")
    BY <1>6 DEF MarkFailed, MarkFailedError
  <2>2. pc'[w] = "work"
    BY <1>0, <2>1 DEF Goes
  <2>3. QED
    BY <2>1, <2>2 DEF BatchStep
<1>7. ASSUME FinishBatch(w)
      PROVE  BatchStep(w)
  <2>1. pc'[w] = "idle" /\ batchNow'[w] = batchNow[w] /\ claim'[w] = claim[w]
    BY <1>0, <1>7 DEF FinishBatch, Goes
  <2>2. \A s \in Schedule : claim[w][s] = NoToken
    BY <1>7 DEF FinishBatch, Claimed
  <2>3. QED
    BY <2>1, <2>2 DEF BatchStep
<1>8. ASSUME ApplyError(w)
      PROVE  BatchStep(w)
  <2>1. /\ pc[w] \in {"apply", "read", "commit"} /\ pc'[w] = "fail"
        /\ claim'[w] = claim[w] /\ batchNow'[w] = batchNow[w]
    BY <1>0, <1>8 DEF ApplyError, Goes
  <2>2. QED
    BY <2>1 DEF BatchStep
<1>9. ASSUME Abandon(w)
      PROVE  BatchStep(w)
  <2>1. /\ pc'[w] = "idle" /\ claim'[w] = [s \in Schedule |-> NoToken]
        /\ batchNow'[w] = batchNow[w]
    BY <1>0, <1>9 DEF Abandon, Goes
  <2>2. QED
    BY <2>1 DEF BatchStep
<1>10. QED
  BY <1>1, <1>2, <1>3, <1>4, <1>5, <1>6, <1>7, <1>8, <1>9 DEF WorkerStep, FaultStep

\* Every claim of a replica after a step is a claim it had, or the new one.
LEMMA ClaimKept ==
  ASSUME QueueInv, NEW w \in Worker, NEW s \in Schedule, [Next]_vars
  PROVE  \/ claim'[w][s] \in {claim[w][s], NoToken}
         \/ /\ ClaimNext(w, s) /\ ClaimMatches(w, s)
            /\ claim'[w][s] = FreshToken /\ tokens' = FreshToken
<1>0. claim \in [Worker -> [Schedule -> Nat]] /\ NoToken \in Nat
  BY DEF QueueInv, TypeOK, NoToken
<1>1. ASSUME NEW u \in Schedule, Drop(w, u) PROVE claim'[w][s] \in {claim[w][s], NoToken}
  BY <1>1, DropClaim
<1>2. ASSUME NEW u \in Schedule, u # s, claim' = [claim EXCEPT ![w][u] = FreshToken]
      PROVE  claim'[w][s] = claim[w][s]
  BY <1>0, <1>2
<1>3. ASSUME claim' = [claim EXCEPT ![w][s] = FreshToken]
      PROVE  claim'[w][s] = FreshToken
  BY <1>0, <1>3
<1>4. BatchStep(w)
  BY BatchSteps
<1>5. QED
  BY <1>1, <1>2, <1>3, <1>4 DEF BatchStep

\* A replica holds claims only within a batch.
ClaimsInBatch == \A w \in Worker : pc[w] = "idle" => Claimed(w) = {}

\* The running row of a claim carries the time of its batch or a later one.
RowNotOlder ==
  \A w \in Worker : \A s \in Claimed(w) :
    schedule[s].status = "running" => batchNow[w] <= schedule[s].claimedAt

LeaseInv == ClaimsInBatch /\ RowNotOlder /\ LeaseExcludes

\* Only the passing of time moves the clock.
LEMMA ClockStep == [Next]_vars /\ now' # now => Tick
<1> SUFFICES ASSUME [Next]_vars, ~Tick PROVE now' = now
  OBVIOUS
<1>1. CASE RequestStep \/ InteractiveStep \/ UNCHANGED vars
  BY <1>1 DEF RequestStep, Create, CancelRead, CancelWrite, InteractiveStep, vars
<1>2. ASSUME NEW w \in Worker, NEW s \in Schedule,
             \/ ClaimNext(w, s) \/ Validate(w, s) \/ ReadClaim(w, s) \/ ReadConfig(w, s)
             \/ Commit(w, s) \/ CommitConflict(w, s) \/ MarkFailed(w, s)
             \/ MarkFailedError(w, s)
      PROVE  now' = now
  BY <1>2 DEF ClaimNext, Validate, ReadClaim, ReadConfig, Commit, CommitConflict, MarkFailed,
     MarkFailedError
<1>3. ASSUME NEW w \in Worker, ListDue(w) \/ FinishBatch(w) \/ ApplyError(w) \/ Abandon(w)
      PROVE  now' = now
  BY <1>3 DEF ListDue, FinishBatch, ApplyError, Abandon
<1>4. QED
  BY <1>1, <1>2, <1>3 DEF Next, WorkerStep, FaultStep

\* A batch ends with no claim left, or loses all of them.
LEMMA ClaimsInBatchStep ==
  ASSUME QueueInv, ClaimsInBatch, [Next]_vars
  PROVE  ClaimsInBatch'
<1> SUFFICES ASSUME NEW w \in Worker, pc'[w] = "idle", NEW s \in Schedule
             PROVE  claim'[w][s] = NoToken
  BY DEF ClaimsInBatch, Claimed
<1>1. CASE pc[w] = "idle" /\ claim'[w] = claim[w]
  BY <1>1 DEF ClaimsInBatch, Claimed
<1>2. BatchStep(w)
  BY BatchSteps
<1>3. QED
  BY <1>1, <1>2 DEF BatchStep

\* While a replica keeps a claim, its batch keeps its time.
LEMMA BatchKept ==
  ASSUME QueueInv, LeaseInv, [Next]_vars, NEW w \in Worker, NEW s \in Claimed(w)
  PROVE  batchNow'[w] = batchNow[w]
<1>1. pc[w] # "idle"
  BY DEF LeaseInv, ClaimsInBatch
<1>2. BatchStep(w)
  BY BatchSteps
<1>3. QED
  BY <1>1, <1>2 DEF BatchStep

\* The clock does not run backwards.
LEMMA ClockForward ==
  ASSUME QueueInv, [Next]_vars
  PROVE  now \in Nat /\ now' \in Nat /\ now <= now'
<1>1. now \in Nat
  BY DEF QueueInv, TypeOK
<1>2. now' = now \/ now' = now + 1
  BY ClockStep DEF Tick
<1>3. QED
  BY <1>1, <1>2

\* A replica that claims a change another one holds finds the row running, and
\* the lease of that claim has run out.
LEMMA Takeover ==
  ASSUME QueueInv, LeaseInv, NEW v \in Worker, NEW w \in Worker, NEW s \in Schedule,
         ClaimMatches(v, s), s \in Claimed(w)
  PROVE  batchNow[w] + Lease <= batchNow[v] /\ batchNow[v] <= now
<1>1. /\ now \in Nat /\ batchNow[v] \in Nat /\ batchNow[w] \in Nat /\ Lease \in Nat
      /\ batchNow[v] <= now
  BY SchedulerAssumption DEF QueueInv, TypeOK, References
<1>2. schedule[s].status = "running" /\ schedule[s].claimedAt + Lease <= batchNow[v]
  BY DEF ClaimMatches, Claimable, QueueInv, References
<1>3. batchNow[w] <= schedule[s].claimedAt
  BY <1>2 DEF LeaseInv, RowNotOlder
<1>4. schedule[s].claimedAt \in Nat
  BY <1>2, RowFields DEF QueueInv, TypeOK, NoSchedule
<1>5. QED
  BY <1>1, <1>2, <1>3, <1>4

\* A claim writes the time of its batch, and a row changes hands only to a
\* batch that is younger than every claim on it.
LEMMA RowNotOlderStep ==
  ASSUME QueueInv, LeaseInv, [Next]_vars
  PROVE  RowNotOlder'
<1> SUFFICES ASSUME NEW w \in Worker, NEW s \in Schedule, claim'[w][s] # NoToken,
                    schedule'[s].status = "running"
             PROVE  batchNow'[w] <= schedule'[s].claimedAt
  BY DEF RowNotOlder, Claimed
<1>0. \A v \in Worker : batchNow[v] \in Nat
  BY DEF QueueInv, TypeOK
<1>1. CASE ClaimNext(w, s) /\ ClaimMatches(w, s)
  <2>1. schedule[s] \in ScheduleRow
    BY <1>1, RowFields DEF ClaimMatches, Claimable, QueueInv, TypeOK, NoSchedule
  <2>2. /\ batchNow' = batchNow
        /\ schedule' = [schedule EXCEPT ![s].status = "running",
                                        ![s].claimToken = FreshToken,
                                        ![s].claimedAt = batchNow[w],
                                        ![s].late = FALSE]
    BY <1>1 DEF ClaimNext
  <2>3. schedule'[s].claimedAt = batchNow[w]
    BY <2>1, <2>2 DEF QueueInv, TypeOK, ScheduleRow
  <2>4. QED
    BY <1>0, <2>2, <2>3
<1>2. CASE s \in Claimed(w)
  <2>1. batchNow'[w] = batchNow[w]
    BY <1>2, BatchKept
  <2>2. CASE schedule'[s] = schedule[s]
    BY <1>2, <2>1, <2>2 DEF LeaseInv, RowNotOlder
  <2>3. ASSUME NEW v \in Worker, ClaimMatches(v, s), schedule'[s].claimedAt = batchNow[v]
        PROVE  batchNow'[w] <= schedule'[s].claimedAt
    <3>1. batchNow[w] + Lease <= batchNow[v] /\ Lease \in Nat
      BY <1>2, <2>3, Takeover, SchedulerAssumption
    <3>2. QED
      BY <1>0, <2>1, <2>3, <3>1
  <2>4. RowStep(s)
    BY RowSteps
  <2>5. schedule[s].status # "absent" /\ schedule[s] # NoSchedule
    BY <1>2, RowFields DEF QueueInv, TypeOK, References
  <2>6. QED
    BY <2>2, <2>3, <2>4, <2>5 DEF RowStep, Settled
<1>3. QED
  BY <1>1, <1>2, ClaimKept DEF Claimed

\* A second claim on a change comes after the lease of the first.
LEMMA LeaseExcludesStep ==
  ASSUME QueueInv, LeaseInv, [Next]_vars
  PROVE  LeaseExcludes'
<1> SUFFICES ASSUME NEW s \in Schedule, NEW v \in Worker, NEW w \in Worker, v # w,
                    claim'[v][s] # NoToken, claim'[w][s] # NoToken
             PROVE  \E u \in {v, w} : batchNow'[u] + Lease <= now'
  BY DEF LeaseExcludes, Claimed
<1>0. /\ \A u \in Worker : batchNow[u] \in Nat
      /\ Lease \in Nat /\ now \in Nat /\ now' \in Nat /\ now <= now'
  BY SchedulerAssumption, ClockForward DEF QueueInv, TypeOK
<1>1. CASE s \in Claimed(v) /\ s \in Claimed(w)
  <2>1. batchNow'[v] = batchNow[v] /\ batchNow'[w] = batchNow[w]
    BY <1>1, BatchKept
  <2>2. PICK u \in {v, w} : batchNow[u] + Lease <= now
    BY <1>1 DEF LeaseInv, LeaseExcludes
  <2>3. QED
    BY <1>0, <2>1, <2>2
<1>2. ASSUME NEW x \in Worker, NEW y \in Worker, x # y,
             ClaimNext(x, s), ClaimMatches(x, s), claim'[y][s] # NoToken
      PROVE  batchNow'[y] + Lease <= now'
  <2>1. claim' = [claim EXCEPT ![x][s] = FreshToken] /\ batchNow' = batchNow
    BY <1>2 DEF ClaimNext
  <2>2. claim'[y][s] = claim[y][s]
    BY <1>2, <2>1 DEF QueueInv, TypeOK
  <2>3. batchNow[y] + Lease <= batchNow[x] /\ batchNow[x] <= now
    BY <1>2, <2>2, Takeover DEF Claimed
  <2>4. QED
    BY <1>0, <2>1, <2>3
<1>3. QED
  BY <1>1, <1>2, ClaimKept DEF Claimed

LEMMA LeaseInvariant == Spec => []LeaseInv
<1>1. Init => LeaseInv
  BY DEF Init, LeaseInv, ClaimsInBatch, RowNotOlder, LeaseExcludes, Claimed, NoToken
<1>2. QueueInv /\ LeaseInv /\ [Next]_vars => LeaseInv'
  BY ClaimsInBatchStep, RowNotOlderStep, LeaseExcludesStep DEF LeaseInv
<1>3. QED
  BY <1>1, <1>2, QueueInvariant, PTL DEF Spec

\* Two replicas have claims on the same change only after the lease of one of
\* them has run out: the claiming UPDATE checks the row again, whatever the
\* replicas have listed.
THEOREM LeaseExcludesHolds == Spec => []LeaseExcludes
<1>1. LeaseInv => LeaseExcludes
  BY DEF LeaseInv
<1>2. QED
  BY <1>1, LeaseInvariant, PTL

------------------------------------------------------------------------------
(* Batches that end within their lease *)

\* A batch that is being worked on is younger than the lease of its claims.
InLease == \A w \in Worker : pc[w] # "idle" => now < batchNow[w] + Lease

\* A replica that still holds a change that was applied has lost the reply to
\* its commit and is about to try to mark the change failed.
AppliedClaim ==
  \A w \in Worker : \A s \in Claimed(w) : applied[s] > 0 => pc[w] = "fail" /\ Current(w, s)

\* No replica holds a claim on a change that was marked failed.
FailedUnclaimed ==
  \A w \in Worker : \A s \in Claimed(w) : schedule[s].status # "failed"

PromptInv ==
  /\ InLease
  /\ LeaseInv
  /\ AppliedClaim
  /\ FailedUnclaimed
  /\ AppliedAtMostOnce

\* The clock waits for the batches, and a batch opens at the time of the clock.
LEMMA InLeaseStep ==
  ASSUME QueueInv, InLease, PromptWorkers, [Next]_vars
  PROVE  InLease'
<1> SUFFICES ASSUME NEW w \in Worker, pc'[w] # "idle"
             PROVE  now' < batchNow'[w] + Lease
  BY DEF InLease
<1>0. /\ now \in Nat /\ batchNow[w] \in Nat
      /\ Lease \in Nat /\ Lease > 0
  BY SchedulerAssumption DEF QueueInv, TypeOK
<1>1. CASE Tick
  <2>1. pc[w] # "idle" /\ batchNow'[w] = batchNow[w] /\ now' = now + 1
    BY <1>1 DEF Tick, workerVars
  <2>2. now + 1 < batchNow[w] + Lease
    BY <1>1, <2>1 DEF Tick
  <2>3. QED
    BY <2>1, <2>2
<1>2. CASE now' = now
  <2>1. CASE batchNow'[w] = now
    BY <1>0, <1>2, <2>1
  <2>2. CASE batchNow'[w] = batchNow[w] /\ pc[w] # "idle"
    BY <1>2, <2>2 DEF InLease
  <2>3. BatchStep(w)
    BY BatchSteps
  <2>4. QED
    BY <2>1, <2>2, <2>3 DEF BatchStep
<1>3. QED
  BY <1>1, <1>2, ClockStep

\* No lease runs out, so no replica claims a change that a batch still holds.
LEMMA NoTakeover ==
  ASSUME QueueInv, PromptInv, NEW v \in Worker, NEW w \in Worker, NEW s \in Schedule,
         ClaimMatches(v, s), s \in Claimed(w)
  PROVE  FALSE
<1>1. /\ now \in Nat /\ batchNow[v] \in Nat /\ batchNow[w] \in Nat /\ Lease \in Nat
  BY SchedulerAssumption DEF QueueInv, TypeOK
<1>2. batchNow[w] + Lease <= batchNow[v] /\ batchNow[v] <= now
  BY Takeover DEF PromptInv
<1>3. now < batchNow[w] + Lease
  BY DEF PromptInv, InLease, LeaseInv, ClaimsInBatch
<1>4. QED
  BY <1>1, <1>2, <1>3

\* At most one replica holds a claim on a change, whatever the token.
LEMMA SoleClaim ==
  ASSUME QueueInv, PromptInv, NEW v \in Worker, NEW w \in Worker, NEW s \in Schedule,
         s \in Claimed(v), s \in Claimed(w)
  PROVE  v = w
<1>1. \A u \in {v, w} : now < batchNow[u] + Lease
  BY DEF PromptInv, InLease, LeaseInv, ClaimsInBatch
<1>2. now \in Nat /\ Lease \in Nat /\ \A u \in {v, w} : batchNow[u] \in Nat
  BY SchedulerAssumption DEF QueueInv, TypeOK
<1>3. QED
  BY <1>1, <1>2 DEF PromptInv, LeaseInv, LeaseExcludes

\* The current change of a batch is unique, and stays it while the claims stay.
LEMMA CurrentKept ==
  ASSUME QueueInv, [Next]_vars, NEW w \in Worker, NEW s \in Schedule, Current(w, s)
  PROVE  /\ \A u \in Schedule : Current(w, u) => u = s
         /\ claim'[w] = claim[w] => Current(w, s)'
<1>1. s \in Claimed(w) /\ \A u \in Claimed(w) \ {s} : Before(s, u)
  BY DEF Current, Earliest
<1>2. \A u \in Claimed(w) : u \in Schedule /\ schedule[u] # NoSchedule
  BY DEF Claimed, QueueInv, References
<1>3. \A u \in Schedule : Current(w, u) => u = s
  <2> SUFFICES ASSUME NEW u \in Schedule, Current(w, u), u # s PROVE FALSE
    OBVIOUS
  <2>1. u \in Claimed(w) /\ Before(u, s) /\ Before(s, u)
    BY <1>1 DEF Current, Earliest
  <2>2. QED
    BY <1>1, <1>2, <2>1, BeforeOrder
<1>4. ASSUME claim'[w] = claim[w] PROVE Current(w, s)'
  <2>1. Claimed(w)' = Claimed(w)
    BY <1>4 DEF Claimed
  <2>2. \A u \in Claimed(w) : schedule'[u].executeAt = schedule[u].executeAt
    BY <1>2, RowKept
  <2>3. \A u \in Claimed(w) \ {s} : Before(s, u)'
    BY <1>1, <2>2 DEF Before
  <2>4. QED
    BY <1>1, <2>1, <2>3 DEF Current, Earliest
<1>5. QED
  BY <1>3, <1>4

\* Only a commit counts as an application.
LEMMA AppliedStep ==
  ASSUME QueueInv, [Next]_vars, NEW s \in Schedule
  PROVE  \/ applied'[s] = applied[s]
         \/ applied'[s] = applied[s] + 1 /\ \E w \in Worker : Commit(w, s)
<1>1. CASE RequestStep \/ InteractiveStep \/ Tick \/ UNCHANGED vars
  BY <1>1 DEF RequestStep, Create, CancelRead, CancelWrite, InteractiveStep, Tick,
     historyVars, vars
<1>2. ASSUME NEW w \in Worker, NEW u \in Schedule,
             \/ ClaimNext(w, u) \/ Validate(w, u) \/ ReadClaim(w, u) \/ ReadConfig(w, u)
             \/ CommitConflict(w, u) \/ MarkFailed(w, u) \/ MarkFailedError(w, u)
      PROVE  applied' = applied
  BY <1>2 DEF ClaimNext, Validate, ReadClaim, ReadConfig, CommitConflict, MarkFailed,
     MarkFailedError, historyVars
<1>3. ASSUME NEW w \in Worker, ListDue(w) \/ FinishBatch(w) \/ ApplyError(w) \/ Abandon(w)
      PROVE  applied' = applied
  BY <1>3 DEF ListDue, FinishBatch, ApplyError, Abandon, historyVars
<1>4. ASSUME NEW w \in Worker, NEW u \in Schedule, Commit(w, u)
      PROVE  \/ applied'[s] = applied[s]
             \/ applied'[s] = applied[s] + 1 /\ Commit(w, s)
  <2>1. applied \in [Schedule -> Nat] /\ applied' = [applied EXCEPT ![u] = @ + 1]
    BY <1>4 DEF Commit, QueueInv, TypeOK
  <2>2. CASE u = s
    BY <1>4, <2>1, <2>2
  <2>3. CASE u # s
    BY <2>1, <2>3
  <2>4. QED
    BY <2>2, <2>3
<1>5. QED
  BY <1>1, <1>2, <1>3, <1>4 DEF Next, WorkerStep, FaultStep

\* Whoever commits a change holds it, alone, for the first time.
LEMMA FirstCommit ==
  ASSUME QueueInv, PromptInv, NEW w \in Worker, NEW s \in Schedule, Commit(w, s)
  PROVE  s \in Claimed(w) /\ applied[s] = 0
<1>1. s \in Claimed(w) /\ pc[w] = "commit"
  BY DEF Commit, Current, Earliest
<1>2. ~(applied[s] > 0) /\ applied[s] \in Nat
  BY <1>1 DEF PromptInv, AppliedClaim, QueueInv, TypeOK
<1>3. QED
  BY <1>1, <1>2

\* A change once applied is held only on the way to the failure branch.
LEMMA AppliedClaimStep ==
  ASSUME QueueInv, PromptInv, [Next]_vars
  PROVE  AppliedClaim'
<1> SUFFICES ASSUME NEW w \in Worker, NEW s \in Schedule, claim'[w][s] # NoToken,
                    applied'[s] > 0
             PROVE  pc'[w] = "fail" /\ Current(w, s)'
  BY DEF AppliedClaim, Claimed
<1>1. CASE applied[s] > 0
  <2>1. ~ClaimMatches(w, s)
    BY <1>1 DEF ClaimMatches, Claimable, QueueInv, AppliedMatchesStatus
  <2>2. claim'[w][s] = claim[w][s] /\ s \in Claimed(w)
    BY <2>1, ClaimKept DEF Claimed
  <2>3. pc[w] = "fail" /\ Current(w, s)
    BY <1>1, <2>2 DEF PromptInv, AppliedClaim
  <2>4. ASSUME NEW u \in Schedule, Current(w, u), Drop(w, u) PROVE FALSE
    <3>1. u = s
      BY <2>3, <2>4, CurrentKept
    <3>2. QED
      BY <2>4, <3>1, DropClaim
  <2>5. pc'[w] = pc[w] /\ claim'[w] = claim[w]
    <3>1. BatchStep(w)
      BY BatchSteps
    <3>2. QED
      BY <2>3, <2>4, <3>1 DEF BatchStep
  <2>6. QED
    BY <2>3, <2>5, CurrentKept
<1>2. ASSUME NEW v \in Worker, Commit(v, s)
      PROVE  pc'[w] = "fail" /\ Current(w, s)'
  <2>1. s \in Claimed(v) /\ Current(v, s)
    BY <1>2, FirstCommit DEF Commit
  <2>2. s \in Claimed(w)
    <3>1. schedule[s].status # "pending"
      BY <2>1 DEF QueueInv, References
    <3>2. ~ClaimMatches(w, s)
      BY <2>1, NoTakeover
    <3>3. QED
      BY <3>2, ClaimKept DEF Claimed
  <2>3. v = w
    BY <2>1, <2>2, SoleClaim
  <2>4. ~Drop(w, s)
    BY DropClaim
  <2>5. Goes(w, "fail") /\ UNCHANGED claim
    BY <1>2, <2>3, <2>4 DEF Commit
  <2>6. pc'[w] = "fail"
    BY <2>5 DEF Goes, QueueInv, TypeOK
  <2>7. QED
    BY <2>1, <2>3, <2>5, <2>6, CurrentKept
<1>3. applied[s] \in Nat
  BY DEF QueueInv, TypeOK
<1>4. QED
  BY <1>1, <1>2, AppliedStep

\* No step applies a change for a second time.
LEMMA OnceStep ==
  ASSUME QueueInv, PromptInv, [Next]_vars
  PROVE  AppliedAtMostOnce'
<1> SUFFICES ASSUME NEW s \in Schedule PROVE applied'[s] <= 1
  BY DEF AppliedAtMostOnce
<1>1. applied[s] <= 1
  BY DEF PromptInv, AppliedAtMostOnce
<1>2. CASE applied'[s] = applied[s]
  BY <1>1, <1>2
<1>3. ASSUME NEW w \in Worker, Commit(w, s), applied'[s] = applied[s] + 1
      PROVE  applied'[s] <= 1
  BY <1>3, FirstCommit
<1>4. QED
  BY <1>2, <1>3, AppliedStep

\* Whoever marks a change failed drops the only claim on it.
LEMMA FailedUnclaimedStep ==
  ASSUME QueueInv, PromptInv, [Next]_vars
  PROVE  FailedUnclaimed'
<1> SUFFICES ASSUME NEW w \in Worker, NEW s \in Schedule, claim'[w][s] # NoToken,
                    schedule'[s].status = "failed"
             PROVE  FALSE
  BY DEF FailedUnclaimed, Claimed
<1>1. CASE schedule[s].status = "failed"
  <2>1. s \notin Claimed(w)
    BY <1>1 DEF PromptInv, FailedUnclaimed
  <2>2. ~ClaimMatches(w, s)
    BY <1>1 DEF ClaimMatches, Claimable
  <2>3. QED
    BY <2>1, <2>2, ClaimKept DEF Claimed
<1>2. CASE schedule[s].status # "failed"
  <2>1. PICK v \in Worker : MarkFailed(v, s) /\ HoldsRow(v, s)
    BY <1>2, FailedStep
  <2>2. s \in Claimed(v) /\ Drop(v, s)
    BY <2>1 DEF MarkFailed, Current, Earliest
  <2>3. claim'[w][s] = IF w = v THEN NoToken ELSE claim[w][s]
    BY <2>2, DropClaim
  <2>4. QED
    BY <2>2, <2>3, SoleClaim DEF Claimed
<1>3. QED
  BY <1>1, <1>2

\* The claims of replicas whose batches end within their lease.
LEMMA PromptInvariant ==
  ASSUME PromptWorkers
  PROVE  Spec => []PromptInv
<1>1. Init => PromptInv
  <2> SUFFICES ASSUME Init PROVE PromptInv
    OBVIOUS
  <2>1. \A w \in Worker : pc[w] = "idle" /\ Claimed(w) = {}
    BY DEF Init, Claimed, NoToken
  <2>2. InLease /\ AppliedClaim /\ FailedUnclaimed
    BY <2>1 DEF InLease, AppliedClaim, FailedUnclaimed
  <2>3. AppliedAtMostOnce
    BY DEF Init, AppliedAtMostOnce
  <2>4. LeaseInv
    BY <2>1 DEF LeaseInv, ClaimsInBatch, RowNotOlder, LeaseExcludes
  <2>5. QED
    BY <2>2, <2>3, <2>4 DEF PromptInv
<1>2. QueueInv /\ PromptInv /\ [Next]_vars => PromptInv'
  <2> SUFFICES ASSUME QueueInv, PromptInv, [Next]_vars PROVE PromptInv'
    OBVIOUS
  <2>1. InLease'
    BY InLeaseStep DEF PromptInv
  <2>2. LeaseInv'
    BY ClaimsInBatchStep, RowNotOlderStep, LeaseExcludesStep DEF PromptInv, LeaseInv
  <2>3. AppliedClaim' /\ FailedUnclaimed' /\ AppliedAtMostOnce'
    BY AppliedClaimStep, FailedUnclaimedStep, OnceStep
  <2>4. QED
    BY <2>1, <2>2, <2>3 DEF PromptInv
<1>3. QED
  BY <1>1, <1>2, QueueInvariant, PTL DEF Spec

\* When every batch ends within the lease of its claims, no change is applied
\* twice: not across replicas, crashes, lost replies, cancels or reclaimed rows.
THEOREM AppliedAtMostOnceHolds ==
  ASSUME PromptWorkers
  PROVE  Spec => []AppliedAtMostOnce
<1>1. PromptInv => AppliedAtMostOnce
  BY DEF PromptInv
<1>2. QED
  BY <1>1, PromptInvariant, PTL

------------------------------------------------------------------------------
(* FlagScheduler implements ScheduledFlagStore *)

\* A row carries a token from its first claim on and not before.
TokensTellClaims ==
  \A s \in Schedule :
    /\ schedule[s].status = "pending" => schedule[s].claimToken = NoToken
    /\ schedule[s].status \in {"running", "failed"} => schedule[s].claimToken # NoToken

\* Only a claim gives a row its token, and only a claimed row fails.
LEMMA TokensTellClaimsStep ==
  ASSUME QueueInv, TokensTellClaims, [Next]_vars
  PROVE  TokensTellClaims'
<1> SUFFICES ASSUME NEW s \in Schedule
             PROVE  /\ schedule'[s].status = "pending" => schedule'[s].claimToken = NoToken
                    /\ schedule'[s].status \in {"running", "failed"}
                         => schedule'[s].claimToken # NoToken
  BY DEF TokensTellClaims
<1>1. ASSUME schedule[s].status # "failed", schedule'[s].status = "failed"
      PROVE  schedule[s].claimToken # NoToken
  BY <1>1, FailedStep DEF HoldsRow, TokensTellClaims
<1>2. RowStep(s)
  BY RowSteps
<1>3. QED
  BY <1>1, <1>2 DEF RowStep, TokensTellClaims, Settled

\* Rows tell the changes they stand for apart by status, token and history.
LEMMA Outcomes ==
  ASSUME NEW r \in ScheduleRow
  PROVE  /\ \A n \in Nat \ {0} : Outcome(r, n) = "applied"
         /\ r.status = "pending" => Outcome(r, 0) = "waiting"
         /\ r.status = "running" => Outcome(r, 0) = "taken"
         /\ r.status = "failed" => Outcome(r, 0) = "failed"
         /\ r.status = "cancelled" =>
              Outcome(r, 0) = IF r.claimToken = NoToken THEN "cancelled" ELSE "withdrawn"
  BY DEF Outcome

\* A change is what its row and its history say.
LEMMA ChangeOfRow ==
  ASSUME NEW s \in Schedule, schedule[s] \in ScheduleRow
  PROVE  Changes[s] = [state |-> Outcome(schedule[s], applied[s]),
                       target |-> schedule[s].target, patch |-> schedule[s].patch]
<1>1. schedule[s] # NoSchedule
  BY RowFields
<1>2. QED
  BY <1>1 DEF Changes

\* An UPDATE of a row moves its change and no other to a new state.
LEMMA ChangeStep ==
  ASSUME QueueInv, NEW s \in Schedule, NEW r \in ScheduleRow, NEW n \in Nat,
         schedule[s] \in ScheduleRow,
         r.target = schedule[s].target, r.patch = schedule[s].patch,
         schedule' = [schedule EXCEPT ![s] = r], applied' = [applied EXCEPT ![s] = n]
  PROVE  Changes' = [Changes EXCEPT ![s].state = Outcome(r, n)]
<1>0. /\ schedule \in [Schedule -> ScheduleRow \cup {NoSchedule}]
      /\ applied \in [Schedule -> Nat]
  BY DEF QueueInv, TypeOK
<1> DEFINE k == [state |-> Outcome(r, n), target |-> r.target, patch |-> r.patch]
<1>1. Changes'[s] = k
  <2>1. schedule'[s] = r /\ applied'[s] = n /\ r # NoSchedule
    BY <1>0, RowFields
  <2>2. QED
    BY <2>1 DEF Changes
<1>2. \A u \in Schedule \ {s} : Changes'[u] = Changes[u]
  <2>1. \A u \in Schedule \ {s} : schedule'[u] = schedule[u] /\ applied'[u] = applied[u]
    BY <1>0
  <2>2. QED
    BY <2>1 DEF Changes
<1>3. [Changes[s] EXCEPT !.state = Outcome(r, n)] = k
  <2>1. Changes[s] = [state |-> Outcome(schedule[s], applied[s]),
                      target |-> schedule[s].target, patch |-> schedule[s].patch]
    BY ChangeOfRow
  <2>2. QED
    BY <2>1
<1> HIDE DEF k
<1>4. /\ Changes = [u \in Schedule |-> Changes[u]]
      /\ Changes' = [u \in Schedule |-> Changes'[u]]
  BY DEF Changes
<1>5. QED
  BY <1>1, <1>2, <1>3, <1>4

\* Requests write the registers of the abstract changes and the calls of
\* FlagStore: its steps are steps of ScheduledFlagStore.
LEMMA PromiseOfStore ==
  /\ Store!Init => Promise!Init
  /\ Store!Next => Promise!Next
  /\ UNCHANGED Store!vars => UNCHANGED Promise!vars
<1>1. Store!Init => Promise!Init
  BY DEF Store!Init, Promise!Init, Store!NoCall, Promise!NoCall
<1>2. ASSUME NEW c \in Client
      PROVE  /\ Store!Invoke(c) => Promise!Invoke(c)
             /\ Store!TakeEffect(c) => Promise!TakeEffect(c)
             /\ Store!Return(c) => Promise!Return(c)
             /\ Store!Abort(c) => Promise!Abort(c)
  BY DEF Store!Invoke, Store!TakeEffect, Store!Return, Store!Abort, Store!Call,
     Store!NoCall, Store!Written, Promise!Invoke, Promise!TakeEffect, Promise!Return,
     Promise!Abort, Promise!Call, Promise!NoCall, Promise!Written
<1>3. Store!Next => Promise!Next
  BY <1>2 DEF Store!Next, Promise!Next
<1>4. UNCHANGED Store!vars => UNCHANGED Promise!vars
  BY DEF Store!vars, Promise!vars
<1>5. QED
  BY <1>1, <1>3, <1>4

\* Changes stay what they are while the rows and their history do.
LEMMA ChangesKept == UNCHANGED <<schedule, applied>> => Changes' = Changes
  BY DEF Changes

\* Registers and calls stay what they are while no request or commit moves.
LEMMA RegistersKept == UNCHANGED <<config, request>> => UNCHANGED Promise!vars
<1>1. UNCHANGED <<config, request>> => Flags' = Flags /\ Calls' = Calls
  BY DEF Flags, Calls, CallOf
<1>2. QED
  BY <1>1 DEF Promise!vars, Flags, Calls, CallOf

\* An UPDATE of a row turns its change from one state to another, or leaves it
\* as it was.
LEMMA PromiseTurn ==
  ASSUME QueueInv, NEW s \in Schedule, NEW r \in ScheduleRow, NEW n \in Nat,
         schedule[s] \in ScheduleRow,
         r.target = schedule[s].target, r.patch = schedule[s].patch,
         schedule' = [schedule EXCEPT ![s] = r], applied' = [applied EXCEPT ![s] = n]
  PROVE  /\ \A from : Outcome(schedule[s], applied[s]) \in from
                        => Promise!Turn(s, from, Outcome(r, n))
         /\ Outcome(schedule[s], applied[s]) = Outcome(r, n) => Changes' = Changes
<1>1. Changes' = [Changes EXCEPT ![s].state = Outcome(r, n)]
  BY ChangeStep
<1>2. Changes[s] = [state |-> Outcome(schedule[s], applied[s]),
                    target |-> schedule[s].target, patch |-> schedule[s].patch]
  BY ChangeOfRow
<1>3. Changes[s].state = Outcome(schedule[s], applied[s])
  BY <1>2
<1>4. Outcome(schedule[s], applied[s]) = Outcome(r, n) => Changes' = Changes
  <2> SUFFICES ASSUME Outcome(r, n) = Changes[s].state PROVE Changes' = Changes
    BY <1>3
  <2>1. [Changes[s] EXCEPT !.state = Outcome(r, n)] = Changes[s]
    BY <1>2
  <2>2. Changes = [u \in Schedule |-> Changes[u]]
    BY DEF Changes
  <2>3. QED
    BY <1>1, <2>1, <2>2
<1>5. QED
  BY <1>1, <1>3, <1>4 DEF Promise!Turn, Changes

\* A change that is created is one that is added.
LEMMA PromiseAdd ==
  ASSUME QueueInv, NEW s \in Schedule, NEW t \in Target, NEW p \in Patch,
         NEW at \in 1 .. MaxExecuteAt, Create(s, t, p, at)
  PROVE  Promise!Add(s)
<1> DEFINE r == [status |-> "pending", target |-> t, patch |-> p, executeAt |-> at,
                 claimToken |-> NoToken, claimedAt |-> 0, late |-> at <= now]
           k == [state |-> "waiting", target |-> t, patch |-> p]
<1>1. /\ schedule[s] = NoSchedule /\ schedule' = [schedule EXCEPT ![s] = r]
      /\ applied' = applied /\ UNCHANGED <<config, request>>
  BY DEF Create, configVars, historyVars
<1>2. r \in ScheduleRow /\ r.status = "pending" /\ r.target = t /\ r.patch = p
  BY SchedulerAssumption DEF ScheduleRow, Status, NoToken
<1> HIDE DEF r
<1>3. applied[s] = 0
  BY <1>1, RowFields DEF QueueInv, TypeOK, AppliedMatchesStatus, NoSchedule
<1>4. Changes[s] = Promise!NoChange
  BY <1>1 DEF Changes, Promise!NoChange
<1>5. \A u \in Schedule : Changes'[u] = IF u = s THEN k ELSE Changes[u]
  <2>1. \A u \in Schedule : schedule'[u] = IF u = s THEN r ELSE schedule[u]
    BY <1>1 DEF QueueInv, TypeOK
  <2>2. r # NoSchedule /\ Outcome(r, 0) = "waiting"
    BY <1>2, RowFields, Outcomes
  <2>3. QED
    BY <1>1, <1>2, <1>3, <2>1, <2>2 DEF Changes
<1> HIDE DEF k
<1>6. Changes' = [Changes EXCEPT ![s] = k]
  <2>1. /\ Changes = [u \in Schedule |-> Changes[u]]
        /\ Changes' = [u \in Schedule |-> Changes'[u]]
    BY DEF Changes
  <2>2. QED
    BY <1>5, <2>1
<1>7. UNCHANGED Promise!vars
  BY <1>1, RegistersKept
<1>8. QED
  BY <1>4, <1>6, <1>7 DEF Promise!Add, k, Changes

\* A claim takes a change up, or changes nothing for one already taken.
LEMMA PromiseTakeUp ==
  ASSUME QueueInv, NEW w \in Worker, NEW s \in Schedule, ClaimNext(w, s), ClaimMatches(w, s)
  PROVE  Promise!TakeUp(s) \/ UNCHANGED Promise!promiseVars
<1> DEFINE r == [schedule[s] EXCEPT !.status = "running", !.claimToken = FreshToken,
                                    !.claimedAt = batchNow[w], !.late = FALSE]
<1>1. /\ schedule[s] \in ScheduleRow
      /\ schedule[s].status \in {"pending", "running"}
      /\ batchNow[w] \in Nat /\ FreshToken \in Nat
  <2>1. schedule[s].status \in {"pending", "running"}
    BY DEF ClaimMatches, Claimable
  <2>2. schedule[s] \in ScheduleRow
    BY <2>1, RowFields DEF QueueInv, TypeOK, NoSchedule
  <2>3. QED
    BY <2>1, <2>2 DEF QueueInv, TypeOK, FreshToken
<1>2. schedule' = [schedule EXCEPT ![s] = r] /\ applied' = [applied EXCEPT ![s] = 0]
  <2>1. applied[s] = 0
    BY <1>1 DEF QueueInv, TypeOK, AppliedMatchesStatus
  <2>2. schedule' = [schedule EXCEPT ![s] = r] /\ applied' = applied
    BY DEF ClaimNext, QueueInv, TypeOK, historyVars
  <2>3. applied = [applied EXCEPT ![s] = applied[s]]
    BY DEF QueueInv, TypeOK
  <2>4. QED
    BY <2>1, <2>2, <2>3
<1>3. /\ r \in ScheduleRow /\ r.status = "running"
      /\ r.target = schedule[s].target /\ r.patch = schedule[s].patch
  <2> HIDE DEF FreshToken
  <2>1. r \in ScheduleRow /\ r.status = "running"
    BY <1>1 DEF ScheduleRow, Status
  <2>2. r.target = schedule[s].target /\ r.patch = schedule[s].patch
    BY <1>1 DEF ScheduleRow
  <2>3. QED
    BY <2>1, <2>2
<1> HIDE DEF r
<1>4. /\ Outcome(schedule[s], applied[s]) \in {"waiting", "taken"}
      /\ Outcome(r, 0) = "taken"
  <2>1. applied[s] = 0
    BY <1>1 DEF QueueInv, TypeOK, AppliedMatchesStatus
  <2>2. QED
    BY <1>1, <1>3, <2>1, Outcomes
<1>5. UNCHANGED Promise!vars
  BY RegistersKept DEF ClaimNext, configVars
<1>6. CASE Outcome(schedule[s], applied[s]) = "waiting"
  <2>1. Promise!Turn(s, {"waiting"}, "taken")
    BY <1>1, <1>2, <1>3, <1>4, <1>6, PromiseTurn
  <2>2. QED
    BY <1>5, <2>1 DEF Promise!TakeUp
<1>7. CASE Outcome(schedule[s], applied[s]) = "taken"
  <2>1. Changes' = Changes
    BY <1>1, <1>2, <1>3, <1>4, <1>7, PromiseTurn
  <2>2. QED
    BY <1>5, <2>1 DEF Promise!promiseVars
<1>8. QED
  BY <1>4, <1>6, <1>7

\* A row whose status alone is updated, with what it stands for afterwards.
LEMMA PromiseStatus ==
  ASSUME QueueInv, NEW s \in Schedule, schedule[s] \in ScheduleRow, NEW x \in Status,
         schedule' = [schedule EXCEPT ![s].status = x],
         NEW n \in Nat, applied' = [applied EXCEPT ![s] = n]
  PROVE  \E r \in ScheduleRow :
           /\ r.status = x /\ r.claimToken = schedule[s].claimToken
           /\ \A from : Outcome(schedule[s], applied[s]) \in from
                          => Promise!Turn(s, from, Outcome(r, n))
           /\ Outcome(schedule[s], applied[s]) = Outcome(r, n) => Changes' = Changes
<1> DEFINE r == [schedule[s] EXCEPT !.status = x]
<1>1. /\ r \in ScheduleRow /\ r.status = x /\ r.claimToken = schedule[s].claimToken
      /\ r.target = schedule[s].target /\ r.patch = schedule[s].patch
  BY RowStatus
<1>2. schedule' = [schedule EXCEPT ![s] = r]
  BY DEF QueueInv, TypeOK
<1> HIDE DEF r
<1>3. /\ \A from : Outcome(schedule[s], applied[s]) \in from
                     => Promise!Turn(s, from, Outcome(r, n))
      /\ Outcome(schedule[s], applied[s]) = Outcome(r, n) => Changes' = Changes
  BY <1>1, <1>2, PromiseTurn
<1>4. QED
  BY <1>1, <1>3

\* The history of a row that no commit counts.
LEMMA AppliedKept ==
  ASSUME QueueInv, NEW s \in Schedule, UNCHANGED applied
  PROVE  applied[s] \in Nat /\ applied' = [applied EXCEPT ![s] = applied[s]]
  BY DEF QueueInv, TypeOK

\* A cancel withdraws a change that was taken up, cancels one that waits, and
\* changes nothing for one that is applied or cancelled already.
LEMMA PromiseCancel ==
  ASSUME QueueInv, TokensTellClaims, NEW o \in Operator, NEW s \in Schedule,
         CancelWrite(o, s)
  PROVE  Promise!Cancel(s) \/ UNCHANGED Promise!promiseVars
<1>1. schedule[s] \in ScheduleRow /\ "cancelled" \in Status
  <2>1. schedule[s] # NoSchedule
    BY DEF CancelWrite, QueueInv, References
  <2>2. QED
    BY <2>1, RowFields DEF QueueInv, TypeOK, Status
<1>2. /\ schedule' = [schedule EXCEPT ![s].status = "cancelled"]
      /\ applied[s] \in Nat /\ applied' = [applied EXCEPT ![s] = applied[s]]
  BY AppliedKept DEF CancelWrite, historyVars
<1>3. PICK r \in ScheduleRow :
        /\ r.status = "cancelled" /\ r.claimToken = schedule[s].claimToken
        /\ \A from : Outcome(schedule[s], applied[s]) \in from
                       => Promise!Turn(s, from, Outcome(r, applied[s]))
        /\ Outcome(schedule[s], applied[s]) = Outcome(r, applied[s]) => Changes' = Changes
  BY <1>1, <1>2, PromiseStatus
<1>4. UNCHANGED Promise!vars
  BY RegistersKept DEF CancelWrite, configVars
<1>5. CASE applied[s] > 0
  <2>1. Outcome(schedule[s], applied[s]) = "applied" /\ Outcome(r, applied[s]) = "applied"
    BY <1>1, <1>2, <1>5, Outcomes
  <2>2. QED
    BY <1>3, <1>4, <2>1 DEF Promise!promiseVars
<1>6. CASE applied[s] = 0 /\ schedule[s].status = "pending"
  <2>1. Outcome(schedule[s], applied[s]) = "waiting" /\ Outcome(r, applied[s]) = "cancelled"
    BY <1>1, <1>3, <1>6, Outcomes DEF TokensTellClaims
  <2>2. Promise!Turn(s, {"waiting"}, "cancelled")
    BY <1>3, <2>1
  <2>3. QED
    BY <1>4, <2>2 DEF Promise!Cancel
<1>7. CASE applied[s] = 0 /\ schedule[s].status \in {"running", "failed"}
  <2>1. /\ Outcome(schedule[s], applied[s]) \in {"taken", "failed"}
        /\ Outcome(r, applied[s]) = "withdrawn"
    BY <1>1, <1>3, <1>7, Outcomes DEF TokensTellClaims
  <2>2. Promise!Turn(s, {"taken", "failed"}, "withdrawn")
    BY <1>3, <2>1
  <2>3. QED
    BY <1>4, <2>2 DEF Promise!Cancel
<1>8. CASE applied[s] = 0 /\ schedule[s].status = "cancelled"
  <2>1. Outcome(schedule[s], applied[s]) = Outcome(r, applied[s])
    BY <1>1, <1>3, <1>8, Outcomes
  <2>2. QED
    BY <1>3, <1>4, <2>1 DEF Promise!promiseVars
<1>9. schedule[s].status = "executed" => applied[s] > 0
  BY DEF QueueInv, AppliedMatchesStatus
<1>10. schedule[s].status \in Status
  BY <1>1, RowFields
<1>11. QED
  BY <1>2, <1>5, <1>6, <1>7, <1>8, <1>9, <1>10 DEF Status

\* A failure that is recorded is that of a change that was taken up.
LEMMA PromiseFail ==
  ASSUME QueueInv, NEW w \in Worker, NEW s \in Schedule, MarkFailed(w, s), HoldsRow(w, s)
  PROVE  Promise!Fail(s)
<1>1. schedule[s] \in ScheduleRow /\ "failed" \in Status
  BY CurrentRow DEF MarkFailed, Status
<1>2. /\ schedule' = [schedule EXCEPT ![s].status = "failed"]
      /\ applied[s] \in Nat /\ applied' = [applied EXCEPT ![s] = applied[s]]
  BY AppliedKept DEF MarkFailed, historyVars
<1>3. applied[s] = 0
  BY <1>2 DEF HoldsRow, QueueInv, AppliedMatchesStatus
<1>4. PICK r \in ScheduleRow :
        /\ r.status = "failed"
        /\ \A from : Outcome(schedule[s], applied[s]) \in from
                       => Promise!Turn(s, from, Outcome(r, applied[s]))
  BY <1>1, <1>2, PromiseStatus
<1>5. Outcome(schedule[s], applied[s]) = "taken" /\ Outcome(r, applied[s]) = "failed"
  BY <1>1, <1>3, <1>4, Outcomes DEF HoldsRow
<1>6. Promise!Turn(s, {"taken"}, "failed")
  BY <1>4, <1>5
<1>7. UNCHANGED Promise!vars
  BY RegistersKept DEF MarkFailed, configVars
<1>8. QED
  BY <1>6, <1>7 DEF Promise!Fail

\* A field of a row that a commit writes has what it had or what the patch sets.
LEMMA PatchedFields ==
  ASSUME NEW p \in Patch, NEW r \in Row, NEW q \in Row
  PROVE  /\ PatchedRow(r, q, p).enabled \in Promise!Patched(r.enabled, p.enabled)
         /\ PatchedRow(r, q, p).policy \in Promise!Patched(r.policy, p.policy)
         /\ r = NoRow =>
              /\ CreatedRow(p).enabled \in Promise!Patched(r.enabled, p.enabled)
              /\ CreatedRow(p).policy \in Promise!Patched(r.policy, p.policy)
<1>1. /\ p.enabled \in BOOLEAN \cup {Unset} /\ p.policy \in Policy \cup {Unset}
      /\ r.enabled \in BOOLEAN /\ r.policy \in Policy
      /\ Unset \notin BOOLEAN /\ Unset \notin Policy
  BY SchedulerAssumption DEF Row
<1>2. /\ PatchedRow(r, q, p).enabled \in {r.enabled, p.enabled} \ {Unset}
      /\ PatchedRow(r, q, p).policy \in {r.policy, p.policy} \ {Unset}
  BY <1>1 DEF PatchedRow
<1>3. ASSUME r = NoRow
      PROVE  /\ CreatedRow(p).enabled \in {r.enabled, p.enabled} \ {Unset}
             /\ CreatedRow(p).policy \in {r.policy, p.policy} \ {Unset}
  <2>1. r.enabled = FALSE /\ r.policy = NoPolicy
    BY <1>3 DEF NoRow
  <2>2. CreatedRow(p).enabled = (p.enabled = TRUE)
        /\ CreatedRow(p).policy = IF p.policy = Unset THEN NoPolicy ELSE p.policy
    BY DEF CreatedRow
  <2>3. (p.enabled = TRUE) \in {FALSE, p.enabled} \ {Unset}
    BY <1>1
  <2>4. QED
    BY <1>1, <2>1, <2>2, <2>3
<1>4. QED
  BY <1>2, <1>3 DEF Promise!Patched

\* What a commit writes to the registers of its target.
LEMMA CommittedRegisters ==
  ASSUME QueueInv, NEW w \in Worker, NEW s \in Schedule, Commit(w, s)
  PROVE  LET t == schedule[s].target
             p == schedule[s].patch
         IN  \E e \in Promise!Patched(Flags[t].enabled, p.enabled),
                q \in Promise!Patched(Flags[t].policy, p.policy) :
               Flags' = [Flags EXCEPT ![t] = [enabled |-> e, policy |-> q]]
<1> DEFINE t == schedule[s].target
           p == schedule[s].patch
           row == IF seen[w].revision = 0 THEN CreatedRow(p)
                  ELSE PatchedRow(config[t], seen[w], p)
<1>1. /\ Current(w, s)
      /\ seen[w].revision = 0 => ~Exists(t)
      /\ config' = [config EXCEPT ![t] = row]
  BY DEF Commit
<1>2. t \in Target /\ p \in Patch
  BY <1>1, CurrentRow DEF ScheduleRow
<1>3. /\ seen[w] \in Row /\ config \in [Target -> Row] /\ config[t] \in Row
      /\ config[t].revision \in Nat
  BY <1>2 DEF QueueInv, TypeOK, ConfigTypeOK, Row
<1>4. seen[w].revision = 0 => config[t] = NoRow
  <2>1. ~Exists(t) => config[t].revision = 0
    BY <1>3 DEF Exists
  <2>2. QED
    BY <1>1, <1>2, <2>1 DEF QueueInv, ConfigInv
<1>5. /\ row.enabled \in Promise!Patched(config[t].enabled, p.enabled)
      /\ row.policy \in Promise!Patched(config[t].policy, p.policy)
  BY <1>2, <1>3, <1>4, PatchedFields
<1> HIDE DEF t, p, row
<1>6. Flags[t].enabled = config[t].enabled /\ Flags[t].policy = config[t].policy
  BY <1>2 DEF Flags
<1>7. Flags' = [Flags EXCEPT ![t] = [enabled |-> row.enabled, policy |-> row.policy]]
  BY <1>1, <1>2, <1>3 DEF Flags
<1>8. \E e \in Promise!Patched(Flags[t].enabled, p.enabled),
         q \in Promise!Patched(Flags[t].policy, p.policy) :
        Flags' = [Flags EXCEPT ![t] = [enabled |-> e, policy |-> q]]
  BY <1>5, <1>6, <1>7
<1>9. QED
  BY <1>8 DEF t, p

\* A commit applies its change: to a replica that works within its lease, one
\* that was taken up and neither failed nor applied.
LEMMA PromiseApply ==
  ASSUME QueueInv, TokensTellClaims, PromptWorkers => PromptInv,
         NEW w \in Worker, NEW s \in Schedule, Commit(w, s)
  PROVE  Promise!Apply(s)
<1>1. /\ schedule[s] \in ScheduleRow /\ schedule[s].claimToken # NoToken
      /\ s \in Claimed(w) /\ "executed" \in Status
  BY CurrentRow DEF Commit, Current, Earliest, Status
<1>2. /\ schedule' = [schedule EXCEPT ![s].status = "executed"]
      /\ applied[s] \in Nat /\ applied' = [applied EXCEPT ![s] = applied[s] + 1]
  BY DEF Commit, QueueInv, TypeOK
<1>3. applied[s] + 1 \in Nat \ {0}
  BY <1>2
<1>4. PICK r \in ScheduleRow :
        \A from : Outcome(schedule[s], applied[s]) \in from
                    => Promise!Turn(s, from, Outcome(r, applied[s] + 1))
  BY <1>1, <1>2, <1>3, PromiseStatus
<1>5. Outcome(schedule[s], applied[s]) \in Promise!Applicable
  <2>1. schedule[s].status \in {"running", "cancelled", "failed"} \/ applied[s] > 0
    <3>1. schedule[s].status \in Status /\ schedule[s].status # "pending"
      BY <1>1, RowFields DEF QueueInv, References
    <3>2. QED
      BY <3>1 DEF Status, QueueInv, AppliedMatchesStatus
  <2>2. Outcome(schedule[s], applied[s]) \in {"taken", "withdrawn", "failed", "applied"}
    BY <1>1, <1>2, <2>1, Outcomes
  <2>3. CASE PromptWorkers
    <3>1. applied[s] = 0 /\ schedule[s].status # "failed"
      BY <1>1, <2>3, FirstCommit DEF PromptInv, FailedUnclaimed
    <3>2. Outcome(schedule[s], applied[s]) \in {"taken", "withdrawn"}
      BY <1>1, <2>1, <3>1, Outcomes
    <3>3. QED
      BY <3>2 DEF Promise!Applicable
  <2>4. CASE ~PromptWorkers
    BY <2>2, <2>4 DEF Promise!Applicable
  <2>5. QED
    BY <2>3, <2>4
<1>6. Promise!Turn(s, Promise!Applicable, "applied")
  BY <1>3, <1>4, <1>5, Outcomes
<1>7. Changes[s].target = schedule[s].target /\ Changes[s].patch = schedule[s].patch
  <2>1. Changes[s] = [state |-> Outcome(schedule[s], applied[s]),
                      target |-> schedule[s].target, patch |-> schedule[s].patch]
    BY <1>1, ChangeOfRow
  <2>2. QED
    BY <2>1
<1>8. Calls' = Calls
  BY DEF Commit, Calls, CallOf
<1>9. \E e \in Promise!Patched(Flags[Changes[s].target].enabled, Changes[s].patch.enabled),
         q \in Promise!Patched(Flags[Changes[s].target].policy, Changes[s].patch.policy) :
        Flags' = [Flags EXCEPT ![Changes[s].target] = [enabled |-> e, policy |-> q]]
  BY <1>7, CommittedRegisters
<1>10. QED
  BY <1>6, <1>8, <1>9 DEF Promise!Apply

\* A step that neither writes a row nor counts an application nor moves a
\* request is one the abstract store does not see.
LEMMA PromiseStutter ==
  UNCHANGED <<config, request, schedule, applied>> => UNCHANGED Promise!promiseVars
  BY RegistersKept, ChangesKept DEF Promise!promiseVars

\* Every step of the system is a step of ScheduledFlagStore or a stutter.
LEMMA PromiseStep ==
  ASSUME QueueInv, TokensTellClaims, PromptWorkers => PromptInv, [Next]_vars
  PROVE  Promise!PromiseNext \/ UNCHANGED Promise!promiseVars
<1>1. CASE UNCHANGED vars \/ Tick
  BY <1>1, PromiseStutter DEF vars, Tick, configVars, historyVars
<1>2. CASE InteractiveStep
  <2>1. Changes' = Changes
    BY <1>2, ChangesKept DEF InteractiveStep, historyVars
  <2>2. Promise!Next \/ UNCHANGED Promise!vars
    BY <1>2, StoreNext, PromiseOfStore DEF InteractiveStep, QueueInv
  <2>3. QED
    BY <2>1, <2>2 DEF Promise!PromiseNext, Promise!promiseVars
<1>3. ASSUME NEW s \in Schedule,
             \/ Promise!Add(s) \/ Promise!TakeUp(s) \/ Promise!Cancel(s)
             \/ Promise!Fail(s) \/ Promise!Apply(s)
      PROVE  Promise!PromiseNext
  BY <1>3 DEF Promise!PromiseNext
<1>4. CASE RequestStep
  <2>1. ASSUME NEW o \in Operator, NEW s \in Schedule, CancelRead(o, s)
        PROVE  UNCHANGED Promise!promiseVars
    BY <2>1, PromiseStutter DEF CancelRead, configVars, historyVars
  <2>2. QED
    BY <1>3, <1>4, <2>1, PromiseAdd, PromiseCancel DEF RequestStep
<1>5. ASSUME NEW w \in Worker, NEW s \in Schedule,
             \/ Validate(w, s) \/ ReadClaim(w, s) \/ ReadConfig(w, s)
             \/ CommitConflict(w, s) \/ MarkFailedError(w, s)
      PROVE  UNCHANGED Promise!promiseVars
  BY <1>5, PromiseStutter DEF Validate, ReadClaim, ReadConfig, CommitConflict,
     MarkFailedError, configVars, historyVars
<1>6. ASSUME NEW w \in Worker, ListDue(w) \/ FinishBatch(w) \/ ApplyError(w) \/ Abandon(w)
      PROVE  UNCHANGED Promise!promiseVars
  BY <1>6, PromiseStutter DEF ListDue, FinishBatch, ApplyError, Abandon, configVars,
     historyVars
<1>7. ASSUME NEW w \in Worker, NEW s \in Schedule, ClaimNext(w, s)
      PROVE  Promise!PromiseNext \/ UNCHANGED Promise!promiseVars
  <2>1. CASE ClaimMatches(w, s)
    BY <1>3, <1>7, <2>1, PromiseTakeUp
  <2>2. CASE ~ClaimMatches(w, s)
    BY <1>7, <2>2, PromiseStutter DEF ClaimNext, configVars, historyVars
  <2>3. QED
    BY <2>1, <2>2
<1>8. ASSUME NEW w \in Worker, NEW s \in Schedule, MarkFailed(w, s)
      PROVE  Promise!PromiseNext \/ UNCHANGED Promise!promiseVars
  <2>1. CASE HoldsRow(w, s)
    BY <1>3, <1>8, <2>1, PromiseFail
  <2>2. CASE ~HoldsRow(w, s)
    BY <1>8, <2>2, PromiseStutter DEF MarkFailed, configVars, historyVars
  <2>3. QED
    BY <2>1, <2>2
<1>9. ASSUME NEW w \in Worker, NEW s \in Schedule, Commit(w, s)
      PROVE  Promise!PromiseNext
  BY <1>3, <1>9, PromiseApply
<1>10. QED
  BY <1>1, <1>2, <1>4, <1>5, <1>6, <1>7, <1>8, <1>9 DEF Next, WorkerStep, FaultStep

\* The claims, leases and transactions of the replicas implement changes that
\* take effect in one step, beside requests that do; and when every batch ends
\* within its lease, never after a failure was recorded and never again.
THEOREM SchedulerImplementsScheduledFlagStore == Spec => ImplementsScheduledFlagStore
<1>1. Init => Promise!PromiseInit
  <2>1. Init => Promise!Init
    BY StoreInit, PromiseOfStore DEF Init
  <2>2. Init => Changes = [s \in Schedule |-> Promise!NoChange]
    BY DEF Init, Changes, Promise!NoChange
  <2>3. QED
    BY <2>1, <2>2 DEF Promise!PromiseInit
<1>2. Init => TokensTellClaims
  BY DEF Init, TokensTellClaims, NoSchedule
<1>3. QueueInv /\ TokensTellClaims /\ [Next]_vars => TokensTellClaims'
  BY TokensTellClaimsStep
<1>4. CASE PromptWorkers
  <2>1. QueueInv /\ TokensTellClaims /\ PromptInv /\ [Next]_vars
          => [Promise!PromiseNext]_(Promise!promiseVars)
    BY PromiseStep
  <2>2. Spec => []PromptInv
    BY <1>4, PromptInvariant
  <2>3. QED
    BY <1>1, <1>2, <1>3, <2>1, <2>2, QueueInvariant, PTL
       DEF Spec, ImplementsScheduledFlagStore, Promise!PromiseSpec
<1>5. CASE ~PromptWorkers
  <2>1. QueueInv /\ TokensTellClaims /\ [Next]_vars
          => [Promise!PromiseNext]_(Promise!promiseVars)
    BY <1>5, PromiseStep
  <2>2. QED
    BY <1>1, <1>2, <1>3, <2>1, QueueInvariant, PTL
       DEF Spec, ImplementsScheduledFlagStore, Promise!PromiseSpec
<1>6. QED
  BY <1>4, <1>5

==============================================================================
