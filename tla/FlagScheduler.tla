---------------------------- MODULE FlagScheduler ----------------------------
(***************************************************************************)
(* Scheduled flag changes: rows of scheduled_flag_changes, the requests    *)
(* that create and cancel them, and the scheduler loop of every replica    *)
(* (app/app.go runScheduler, targeting/targeting.go RunDueScheduledChanges *)
(* and the claim, apply and fail statements of targeting_repository.go).   *)
(*                                                                         *)
(* The module extends FlagConfig: schedules and interactive requests write *)
(* the same rows.  A replica runs its batch serially; replicas interleave. *)
(*                                                                         *)
(* The transaction that applies a change is three steps: it reads the      *)
(* schedule, reads the configuration, and writes both rows and commits.    *)
(* Its reads take no lock under READ COMMITTED.  Its writes hold row locks *)
(* until the commit and are invisible before it, so no other statement can *)
(* tell them from one step at the commit.                                  *)
(***************************************************************************)
EXTENDS FlagConfig, FiniteSets

CONSTANTS
  Schedule,       \* primary keys of scheduled_flag_changes, in ID order
  Worker,         \* replicas, each running one scheduler loop
  Operator,       \* concurrent cancel requests
  Patch,          \* patches that may be scheduled
  Unset,          \* a field a patch leaves alone (a nil pointer)
  Lease,          \* scheduleClaimLease
  BatchLimit,     \* the limit of one claim query
  MaxTime,        \* bound: the clock stops here
  MaxExecuteAt,   \* bound: no schedule is due later
  MaxFaults,      \* bound: crashes and database errors of the schedulers
  PromptWorkers   \* TRUE: a batch never outlives the lease of its claims

ASSUME SchedulerAssumption ==
  /\ Schedule \subseteq Nat
  /\ Unset \notin BOOLEAN \cup Policy
  /\ Patch \subseteq [enabled: BOOLEAN \cup {Unset}, policy: Policy \cup {Unset}]
  /\ Lease \in Nat \ {0}
  /\ BatchLimit \in Nat \ {0}
  /\ MaxTime \in Nat
  /\ MaxExecuteAt \in Nat
  /\ MaxFaults \in Nat
  /\ PromptWorkers \in BOOLEAN

VARIABLES
  schedule,   \* schedule[s]: the row of s, or NoSchedule
  cancelling, \* cancelling[o]: schedules o has read as pending and will cancel
  now,        \* the clock the replicas and the database share
  pc,         \* pc[w]: where replica w is in its batch
  batchNow,   \* batchNow[w]: time.Now() of w's batch, the claimed_at it writes
  listed,     \* listed[w]: changes listed as due whose claim is not yet tried
  claim,      \* claim[w][s]: the token of w's unfinished claim on s, or NoToken
  seen,       \* seen[w]: the configuration row w's transaction has read
  tokens,     \* claim tokens handed out; a token is a fresh UUID
  applied,    \* history: applied[s] counts the committed applications of s
  faults      \* history: faults that have happened

workerVars == <<pc, batchNow, listed, claim, seen>>
historyVars == <<applied, faults>>
vars == <<configVars, schedule, cancelling, now, workerVars, tokens, historyVars>>

NoSchedule == [status |-> "absent"]
NoToken == 0

Status == {"pending", "running", "executed", "cancelled", "failed"}
Settled == {"executed", "cancelled", "failed"}

\* late is history of a change that waits: its row appeared when it was due.
ScheduleRow ==
  [status: Status, target: Target, patch: Patch, executeAt: Nat,
   claimToken: Nat, claimedAt: Nat, late: BOOLEAN]

WorkerStage == {"idle", "claim", "work", "apply", "read", "commit", "fail"}

TypeOK ==
  /\ ConfigTypeOK
  /\ schedule \in [Schedule -> ScheduleRow \cup {NoSchedule}]
  /\ cancelling \in [Operator -> SUBSET Schedule]
  /\ now \in Nat
  /\ pc \in [Worker -> WorkerStage]
  /\ batchNow \in [Worker -> Nat]
  /\ listed \in [Worker -> SUBSET Schedule]
  /\ claim \in [Worker -> [Schedule -> Nat]]
  /\ seen \in [Worker -> Row]
  /\ tokens \in Nat
  /\ applied \in [Schedule -> Nat]
  /\ faults \in Nat

------------------------------------------------------------------------------

Init ==
  /\ ConfigInit
  /\ schedule = [s \in Schedule |-> NoSchedule]
  /\ cancelling = [o \in Operator |-> {}]
  /\ now = 0
  /\ pc = [w \in Worker |-> "idle"]
  /\ batchNow = [w \in Worker |-> 0]
  /\ listed = [w \in Worker |-> {}]
  /\ claim = [w \in Worker |-> [s \in Schedule |-> NoToken]]
  /\ seen = [w \in Worker |-> NoRow]
  /\ tokens = 0
  /\ applied = [s \in Schedule |-> 0]
  /\ faults = 0

------------------------------------------------------------------------------
(* Requests *)

\* CreateScheduledChange: an accepted patch.  Its time was in the future when
\* the request checked it, before it read the flag, the segments and the
\* targets; the INSERT comes after these, and the change may be due by then.
Create(s, t, p, at) ==
  /\ schedule[s] = NoSchedule
  /\ \E checked \in 0 .. now : at > checked
  /\ schedule' = [schedule EXCEPT ![s] =
       [status |-> "pending", target |-> t, patch |-> p, executeAt |-> at,
        claimToken |-> NoToken, claimedAt |-> 0, late |-> at <= now]]
  /\ UNCHANGED <<configVars, cancelling, now, workerVars, tokens, historyVars>>

\* CancelScheduledChange reads the row and refuses any that is not pending...
CancelRead(o, s) ==
  /\ cancelling[o] = {}
  /\ schedule[s].status = "pending"
  /\ cancelling' = [cancelling EXCEPT ![o] = {s}]
  /\ UNCHANGED <<configVars, schedule, now, workerVars, tokens, historyVars>>

\* ...then updates it by primary key, whatever its status has become.
CancelWrite(o, s) ==
  /\ s \in cancelling[o]
  /\ schedule' = [schedule EXCEPT ![s].status = "cancelled"]
  /\ cancelling' = [cancelling EXCEPT ![o] = {}]
  /\ UNCHANGED <<configVars, now, workerVars, tokens, historyVars>>

------------------------------------------------------------------------------
(* The scheduler loop of a replica *)

\* Faulty variants of Claimable: the due time, the lease, the recovery of
\* running rows forgotten.
ClaimableEarly(s, at) ==
  \/ schedule[s].status = "pending"
  \/ schedule[s].status = "running" /\ schedule[s].claimedAt + Lease <= at

ClaimableWithoutLease(s, at) ==
  \/ schedule[s].status = "pending" /\ schedule[s].executeAt <= at
  \/ schedule[s].status = "running"

ClaimableOnce(s, at) == schedule[s].status = "pending" /\ schedule[s].executeAt <= at

\* The predicate of the claim query and of the claiming UPDATE.
Claimable(s, at) ==
  \/ schedule[s].status = "pending" /\ schedule[s].executeAt <= at
  \/ schedule[s].status = "running" /\ schedule[s].claimedAt + Lease <= at

\* ORDER BY execute_at, id.
Before(r, s) ==
  \/ schedule[r].executeAt < schedule[s].executeAt
  \/ schedule[r].executeAt = schedule[s].executeAt /\ r < s

\* Faulty variant: rows come in any order.
EarliestUnordered(s, S) == s \in S

Earliest(s, S) == s \in S /\ \A r \in S \ {s} : Before(s, r)

Claimed(w) == {s \in Schedule : claim[w][s] # NoToken}

\* The first `BatchLimit` rows of the claim query.
Batch(D) ==
  {L \in SUBSET D :
     /\ \A r \in D \ L, s \in L : Before(s, r)
     /\ Cardinality(L) <= BatchLimit
     /\ L = D \/ Cardinality(L) = BatchLimit}

\* ClaimDueScheduledChanges takes the time and lists due rows; when there are
\* none the loop waits for its next tick.
ListDue(w) ==
  /\ pc[w] = "idle"
  /\ LET D == {s \in Schedule : Claimable(s, now)} IN
       \/ /\ D # {}
          /\ listed' \in {[listed EXCEPT ![w] = L] : L \in Batch(D)}
          /\ batchNow' = [batchNow EXCEPT ![w] = now]
          /\ pc' = [pc EXCEPT ![w] = "claim"]
       \/ D = {} /\ UNCHANGED <<listed, batchNow, pc>>
  /\ UNCHANGED <<configVars, schedule, cancelling, now, claim, seen, tokens, historyVars>>

\* Faulty variant: the UPDATE trusts the list.
ClaimMatchesAlways(w, s) == TRUE

\* The WHERE clause of the claiming UPDATE, with the time of the batch.
ClaimMatches(w, s) == Claimable(s, batchNow[w])

\* uuid.New()
FreshToken == tokens + 1

\* One conditional UPDATE of the claim loop; a row another replica or a
\* cancel got to first no longer matches and is skipped.
ClaimNext(w, s) ==
  /\ pc[w] = "claim"
  /\ Earliest(s, listed[w])
  /\ listed' = [listed EXCEPT ![w] = @ \ {s}]
  /\ IF ClaimMatches(w, s)
       THEN /\ tokens' = FreshToken
            /\ schedule' = [schedule EXCEPT ![s].status = "running",
                                            ![s].claimToken = FreshToken,
                                            ![s].claimedAt = batchNow[w],
                                            ![s].late = FALSE]
            /\ claim' = [claim EXCEPT ![w][s] = FreshToken]
       ELSE UNCHANGED <<tokens, schedule, claim>>
  /\ pc' = [pc EXCEPT ![w] = IF listed[w] = {s} THEN "work" ELSE "claim"]
  /\ UNCHANGED <<configVars, cancelling, now, batchNow, seen, historyVars>>

\* The change the replica works on: its claims in the order it made them.
Current(w, s) == Earliest(s, Claimed(w))

Goes(w, stage) == pc' = [pc EXCEPT ![w] = stage]

Drop(w, s) == claim' = [claim EXCEPT ![w][s] = NoToken]

\* Faulty variant: the status is forgotten.
HoldsToken(w, s) == schedule[s].claimToken = claim[w][s]

\* The row still carries the status and the token of w's claim.
HoldsRow(w, s) ==
  schedule[s].status = "running" /\ schedule[s].claimToken = claim[w][s]

\* validateClaimedChange: the patch is checked against the flag's current
\* variants and segments (opaque here), and either outcome is possible.
Validate(w, s) ==
  /\ pc[w] = "work"
  /\ Current(w, s)
  /\ Goes(w, "apply") \/ Goes(w, "fail")
  /\ UNCHANGED <<configVars, schedule, cancelling, now, batchNow, listed, claim,
                 seen, tokens, historyVars>>

\* The transaction begins and reads the schedule by status and token.
ReadClaim(w, s) ==
  /\ pc[w] = "apply"
  /\ Current(w, s)
  /\ Goes(w, IF HoldsRow(w, s) THEN "read" ELSE "fail")
  /\ UNCHANGED <<configVars, schedule, cancelling, now, batchNow, listed, claim,
                 seen, tokens, historyVars>>

ReadConfig(w, s) ==
  /\ pc[w] = "read"
  /\ Current(w, s)
  /\ seen' = [seen EXCEPT ![w] = config[schedule[s].target]]
  /\ Goes(w, "commit")
  /\ UNCHANGED <<configVars, schedule, cancelling, now, batchNow, listed, claim,
                 tokens, historyVars>>

\* The row a patch creates where the transaction found none.
CreatedRow(patch) ==
  [enabled |-> patch.enabled = TRUE,
   policy |-> IF patch.policy = Unset THEN NoPolicy ELSE patch.policy,
   revision |-> 1]

\* Faulty variant: the revision does not count the change.
PatchedRowUncounted(row, read, patch) ==
  [enabled |-> IF patch.enabled = Unset THEN row.enabled ELSE patch.enabled,
   policy |-> IF patch.policy = Unset THEN row.policy ELSE patch.policy,
   revision |-> row.revision]

\* Faulty variant: every column that changes is counted by itself.
PatchedRowPerField(row, read, patch) ==
  LET setsEnabled == patch.enabled \notin {Unset, read.enabled}
      setsPolicy == patch.policy \notin {Unset, read.policy}
  IN  [enabled |-> IF setsEnabled THEN patch.enabled ELSE row.enabled,
       policy |-> IF setsPolicy THEN patch.policy ELSE row.policy,
       revision |-> row.revision + (IF setsEnabled THEN 1 ELSE 0)
                                 + (IF setsPolicy THEN 1 ELSE 0)]

\* Faulty variant: a patch that changes the toggle leaves the policy alone.
PatchedRowEither(row, read, patch) ==
  LET setsEnabled == patch.enabled \notin {Unset, read.enabled}
      setsPolicy == ~setsEnabled /\ patch.policy \notin {Unset, read.policy}
  IN  [enabled |-> IF setsEnabled THEN patch.enabled ELSE row.enabled,
       policy |-> IF setsPolicy THEN patch.policy ELSE row.policy,
       revision |-> IF setsEnabled \/ setsPolicy THEN row.revision + 1 ELSE row.revision]

\* Faulty variant: the whole row is written back as it was read.
PatchedRowAsRead(row, read, patch) ==
  [enabled |-> IF patch.enabled = Unset THEN read.enabled ELSE patch.enabled,
   policy |-> IF patch.policy = Unset THEN read.policy ELSE patch.policy,
   revision |-> row.revision + 1]

\* The fields of a patch that differ from the row the transaction has read
\* are written to the row as it is at the UPDATE, and AddRevision(1) counts
\* the change.
PatchedRow(row, read, patch) ==
  LET setsEnabled == patch.enabled \notin {Unset, read.enabled}
      setsPolicy == patch.policy \notin {Unset, read.policy}
  IN  [enabled |-> IF setsEnabled THEN patch.enabled ELSE row.enabled,
       policy |-> IF setsPolicy THEN patch.policy ELSE row.policy,
       revision |-> IF setsEnabled \/ setsPolicy THEN row.revision + 1 ELSE row.revision]

\* The writes and the commit of the transaction: configuration and schedule
\* change together.  The schedule is updated by primary key only.  The reply
\* to a successful commit may be lost, and then the replica takes the error
\* path ("fail") for a change that was applied.
Commit(w, s) ==
  /\ pc[w] = "commit"
  /\ Current(w, s)
  /\ LET t == schedule[s].target
         patch == schedule[s].patch
         row == IF seen[w].revision = 0 THEN CreatedRow(patch)
                                        ELSE PatchedRow(config[t], seen[w], patch)
     IN  /\ seen[w].revision = 0 => ~Exists(t)
         /\ config' = [config EXCEPT ![t] = row]
         /\ commits' = [commits EXCEPT ![t] = IF row = config[t] THEN @ ELSE @ + 1]
  /\ schedule' = [schedule EXCEPT ![s].status = "executed"]
  /\ applied' = [applied EXCEPT ![s] = @ + 1]
  /\ \/ Drop(w, s) /\ Goes(w, "work") /\ UNCHANGED faults
     \/ /\ faults < MaxFaults
        /\ faults' = faults + 1
        /\ Goes(w, "fail")
        /\ UNCHANGED claim
  /\ UNCHANGED <<request, cancelling, now, batchNow, listed, seen, tokens>>

\* The INSERT of the transaction meets a row created since it looked: the
\* constraint error rolls everything back.
CommitConflict(w, s) ==
  /\ pc[w] = "commit"
  /\ Current(w, s)
  /\ seen[w].revision = 0 /\ Exists(schedule[s].target)
  /\ Goes(w, "fail")
  /\ UNCHANGED <<configVars, schedule, cancelling, now, batchNow, listed, claim,
                 seen, tokens, historyVars>>

\* Faulty variant: a status the table does not know.
MarkFailedAsError(w, s) ==
  /\ pc[w] = "fail"
  /\ Current(w, s)
  /\ schedule' = [schedule EXCEPT ![s].status = "error"]
  /\ Drop(w, s)
  /\ Goes(w, "work")
  /\ UNCHANGED <<configVars, cancelling, now, batchNow, listed, seen, tokens, historyVars>>

\* FailClaimedScheduledChange: a conditional UPDATE whose error is ignored.
MarkFailed(w, s) ==
  /\ pc[w] = "fail"
  /\ Current(w, s)
  /\ schedule' = IF HoldsRow(w, s)
                   THEN [schedule EXCEPT ![s].status = "failed"] ELSE schedule
  /\ Drop(w, s)
  /\ Goes(w, "work")
  /\ UNCHANGED <<configVars, cancelling, now, batchNow, listed, seen, tokens, historyVars>>

\* Every claim of the batch has been worked off.
FinishBatch(w) ==
  /\ pc[w] = "work"
  /\ Claimed(w) = {}
  /\ Goes(w, "idle")
  /\ UNCHANGED <<configVars, schedule, cancelling, now, batchNow, listed, claim,
                 seen, tokens, historyVars>>

\* Faults come early enough for the lease of a dropped claim to run out
\* before the bounded clock stops.
FaultAllowed == faults < MaxFaults /\ now + Lease <= MaxTime

\* A statement of the transaction fails: it rolls back and the change is
\* marked failed.
ApplyError(w) ==
  /\ pc[w] \in {"apply", "read", "commit"}
  /\ FaultAllowed
  /\ faults' = faults + 1
  /\ Goes(w, "fail")
  /\ UNCHANGED <<configVars, schedule, cancelling, now, batchNow, listed, claim,
                 seen, tokens, applied>>

\* The failing UPDATE itself fails: its error is ignored, and the row stays
\* "running" until its lease expires.
MarkFailedError(w, s) ==
  /\ pc[w] = "fail"
  /\ Current(w, s)
  /\ FaultAllowed
  /\ faults' = faults + 1
  /\ Drop(w, s)
  /\ Goes(w, "work")
  /\ UNCHANGED <<configVars, schedule, cancelling, now, batchNow, listed, seen,
                 tokens, applied>>

\* The replica dies or shuts down, or a claiming statement fails and
\* RunDueScheduledChanges returns without the claims it already made.
Abandon(w) ==
  /\ pc[w] # "idle"
  /\ FaultAllowed
  /\ faults' = faults + 1
  /\ listed' = [listed EXCEPT ![w] = {}]
  /\ claim' = [claim EXCEPT ![w] = [s \in Schedule |-> NoToken]]
  /\ Goes(w, "idle")
  /\ UNCHANGED <<configVars, schedule, cancelling, now, batchNow, seen, tokens, applied>>

\* Time passes.  Under PromptWorkers it does not reach the end of the lease
\* of a batch that is still being worked on.
Tick ==
  /\ now < MaxTime
  /\ PromptWorkers => \A w \in Worker : pc[w] # "idle" => now + 1 < batchNow[w] + Lease
  /\ now' = now + 1
  /\ UNCHANGED <<configVars, schedule, cancelling, workerVars, tokens, historyVars>>

------------------------------------------------------------------------------

RequestStep ==
  \/ \E s \in Schedule, t \in Target, p \in Patch, at \in 1 .. MaxExecuteAt :
       Create(s, t, p, at)
  \/ \E o \in Operator, s \in Schedule : CancelRead(o, s) \/ CancelWrite(o, s)

InteractiveStep ==
  /\ ConfigNext
  /\ UNCHANGED <<schedule, cancelling, now, workerVars, tokens, historyVars>>

\* What a replica does when nothing goes wrong around it.
WorkerStep(w) ==
  \/ ListDue(w)
  \/ FinishBatch(w)
  \/ \E s \in Schedule :
       \/ ClaimNext(w, s)
       \/ Validate(w, s)
       \/ ReadClaim(w, s)
       \/ ReadConfig(w, s)
       \/ Commit(w, s)
       \/ CommitConflict(w, s)
       \/ MarkFailed(w, s)

FaultStep(w) ==
  ApplyError(w) \/ Abandon(w) \/ \E s \in Schedule : MarkFailedError(w, s)

Next ==
  \/ RequestStep
  \/ InteractiveStep
  \/ \E w \in Worker : WorkerStep(w) \/ FaultStep(w)
  \/ Tick

Spec == Init /\ [][Next]_vars

\* runScheduler wakes every schedulerInterval for as long as the replica is
\* up and takes every step of its batch itself, and time passes.
Fairness == WF_vars(Tick) /\ \A w \in Worker : WF_vars(WorkerStep(w))

FairSpec == Spec /\ Fairness

------------------------------------------------------------------------------
(* Properties *)

\* A change took effect exactly if its row says so, or said so before a late
\* cancel wrote over it: an applied change is never marked failed, never
\* waits to be applied again, and no row is marked executed without its
\* patch having been committed.
AppliedMatchesStatus ==
  \A s \in Schedule :
    /\ applied[s] > 0 => schedule[s].status \in {"executed", "cancelled"}
    /\ schedule[s].status = "executed" => applied[s] > 0

\* No change is applied before it is due.
NotBeforeDue == \A s \in Schedule : applied[s] > 0 => schedule[s].executeAt <= now

\* Replicas never claim past an older change that waits, unless its row came
\* into the table when it was due already: when a change has been claimed,
\* every other change ordered before it has left the queue, so the steps of a
\* progressive rollout start in the order of their times.
ClaimsInOrder ==
  \A r, s \in Schedule :
    schedule[s].status = "running" /\ schedule[r].status = "pending" /\ Before(r, s)
      => schedule[r].late

\* Two replicas have unfinished claims on the same change only after the lease
\* of one of them has run out, whatever both listed before either claimed.
LeaseExcludes ==
  \A s \in Schedule : \A v, w \in Worker :
    v # w /\ s \in Claimed(v) /\ s \in Claimed(w)
      => \E u \in {v, w} : batchNow[u] + Lease <= now

\* A change that was executed, cancelled or failed never re-enters the queue,
\* whatever replicas, cancels and lapsed claims are still in flight.
SettledStaysSettled ==
  [][\A s \in Schedule :
        schedule[s].status \in Settled => schedule'[s].status \in Settled]_vars

\* A cancel that lands before any replica has claimed the change is final:
\* replicas that listed it as due before the cancel do not resurrect it.
EarlyCancelIsFinal ==
  [][\A s \in Schedule :
        schedule[s].status = "cancelled" /\ schedule[s].claimToken = NoToken
          => schedule'[s] = schedule[s]]_vars

\* Every field the patch of s sets has its value in the row.
InForce(s, row) ==
  LET patch == schedule[s].patch IN
    /\ patch.enabled # Unset => row.enabled = patch.enabled
    /\ patch.policy # Unset => row.policy = patch.policy

\* Another writer changed the row since the transaction of w read it.
Overtaken(w, s) == Content(seen[w]) # Content(config[schedule[s].target])

\* An applied change is in force as a whole when it commits, unless a request
\* changed the row between the transaction's read and its write: then a field
\* that agreed with the row as it was read is not written again.
AppliedWholeUnlessOvertaken ==
  [][\A s \in Schedule :
        applied'[s] # applied[s]
          => \/ InForce(s, config'[schedule[s].target])
             \/ \E w \in Worker : pc[w] = "commit" /\ Current(w, s) /\ Overtaken(w, s)]_vars

\* What has become of a change: whether it took effect (n > 0), and otherwise
\* what its row says and whether it was ever claimed.
Outcome(row, n) ==
  IF n > 0 THEN "applied"
  ELSE CASE row.status = "pending" -> "waiting"
         [] row.status = "running" -> "taken"
         [] row.status = "cancelled" /\ row.claimToken # NoToken -> "withdrawn"
         [] OTHER -> row.status

\* The changes of ScheduledFlagStore.
Changes ==
  [s \in Schedule |->
     LET row == schedule[s] IN
       IF row = NoSchedule THEN [state |-> "absent"]
       ELSE [state |-> Outcome(row, applied[s]), target |-> row.target, patch |-> row.patch]]

(***************************************************************************)
(* Requests and replicas together implement ScheduledFlagStore: a toggle   *)
(* and a policy remain atomic when scheduled changes create and write the  *)
(* same rows, and a change takes effect in one step, at its commit.  No    *)
(* sequence of claims, cancels, lost replies, failures and lapsed leases   *)
(* does anything that single steps on registers and changes cannot.        *)
(***************************************************************************)
Promise == INSTANCE ScheduledFlagStore WITH
  flag <- Flags, call <- Calls, change <- Changes

ImplementsScheduledFlagStore == Promise!PromiseSpec

\* When every batch ends within its lease, a change is applied at most once,
\* across replicas, crashes, lost replies, cancels and reclaimed rows.
AppliedAtMostOnce == \A s \in Schedule : applied[s] <= 1

\* Every change that waits is settled in the end: a replica that dies holding
\* it delays it by a lease and does not strand it.
EventuallySettled ==
  \A s \in Schedule :
    schedule[s].status = "pending" ~> schedule[s].status \in Settled

\* docs/data-model.md: "The claim token prevents the stale worker from later
\* committing the same scheduled change."
StaleWorkerNeverCommits ==
  [][\A s \in Schedule :
        applied'[s] # applied[s]
          => \E w \in Worker : pc[w] = "commit" /\ Current(w, s) /\ HoldsRow(w, s)]_vars

\* httpapi/targeting.go answers a conflict with "Only pending scheduled
\* changes can be modified.": a cancel changes pending rows only.
OnlyPendingCancelled ==
  [][\A s \in Schedule :
        schedule[s].status # "cancelled" /\ schedule'[s].status = "cancelled"
          => schedule[s].status = "pending"]_vars

==============================================================================
