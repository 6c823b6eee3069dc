# Formal verification of the Switch On Your Code control plane

TLA+ models of the control plane in `src/backend`, checked with TLC on small
instances and, where marked, proved with TLAPS for every instance. `PROJECT.json`
lists the runs, the code lines every definition stands for, the seeded faults
each property detects, the hazards and the theorems.

    cd tla
    tlc -workers 2 -config MCFlagConfig.cfg MCFlagConfig
    tlapm FlagConfig_proofs.tla

## 1. The system

One Go binary (`cmd/switchonyourcode`), run as any number of identical replicas
over one PostgreSQL database. Every replica serves the management API, the SDK
endpoints and the dashboard, and runs two goroutines beside them: a scheduler
loop and a listener for SDK invalidations (`internal/app/app.go`). Replicas
share nothing but the database. `ent` issues each statement as its own
transaction at READ COMMITTED except where the code opens one (the scheduler's
apply, bootstrap).

| Component | State | Operations | Interacts with |
|---|---|---|---|
| Environment flag configuration (`flag_config_repository.go`, `flagconfig`) | `environment_flag_configs`: enabled, policy, revision; sparse | list, set enabled | policies and schedules write the same rows; row changes raise SDK invalidations |
| Targeting definitions (`targeting`, `targeting_repository.go`) | flag variants, policies, segments | set variants, set policy, create/update segment, preview | validation reads across tables before a write |
| Scheduled changes (same files, `app.go`) | `scheduled_flag_changes`: status, claim token, claimed at | create, cancel, claim, apply, fail | writes configurations; replicas compete through conditional UPDATEs |
| Evaluation (`evaluation`) | none | evaluate, bucket, validate definitions and segments | preview, scheduler, SDK documents |
| SDK credentials and documents (`sdkconfig`, `sdk_config_repository.go`) | `sdk_credentials` | create, revoke, authenticate, configuration document with ETag | reads all of the above |
| SDK invalidation (`invalidation.go`, `sdk_invalidation.go`, triggers in `migrate.go`) | subscribers and one-slot channels of a replica | publish, subscribe, listen, stream, heartbeat | NOTIFY from row triggers; revocations close streams |
| Authentication (`auth`, `auth_repository.go`) | users, sessions, the bootstrap lock | bootstrap, log in, log out, resolve a session | connection pool |
| Projects, environments, flags | one table each | create, list | referenced by everything |
| Migration, process lifecycle, dashboard | schema; none; browser state | run once; start, stop; user interface | |

What is hard in each, and what makes it correct:

* **Configuration.** A toggle is SELECT, then INSERT or UPDATE, each alone; a
  policy update likewise, on the same row. Correct means that neither loses the
  other's write, that an early return is true when it is taken, that colliding
  INSERTs end well, and that revisions order the contents of a row.
* **Scheduled changes.** Replicas list the same due rows, claim them one by one
  under a two-minute lease, work a batch off serially, and may die, lose a reply
  or outlive the lease at any point; cancels race with all of it. Correct means
  that a change is applied once, when due, in order, that what its row says is
  what happened, and that no crash strands it.
* **Targeting definitions.** Every validation reads first and writes later in
  another statement: variants against policies, policies against segments,
  segments against each other. Correct means that the stored definitions always
  validate; one that does not fails the document of every SDK in its environment.
* **SDK delivery.** A document is assembled by five statements; an event may
  coalesce with or be displaced by another, arrive between authentication and
  subscription, or be lost while the listener reconnects. Correct means that an
  SDK ends up with the current configuration and that a revoked credential ends
  up with nothing.
* **Bootstrap.** An advisory lock on one pooled connection guards a transaction
  on another. Correct means at most one first owner, and no pool deadlock; neither
  holds without exception.
* **Sessions.** A request is authenticated once and writes later; responses reach
  a browser in any order and set or clear its cookies. Correct means that nothing
  is written without a session and nobody is signed out by accident.
* **Evaluation.** Rollout boundaries, the growth of a cohort, nested segments.
  Correct means that what validation accepts never fails at an SDK, and that a
  subject is served the share it falls into.

`PROJECT.json` lists the hazards one by one, at their lines.

## 2. Modules

| Module | Stands for |
|---|---|
| `FlagStore` | the promise: toggle and policy of a flag are registers, a call takes effect in one step between invocation and answer or ends in an error without effect |
| `FlagConfig` | `environment_flag_configs`, `SetEnabled`, `SetPolicy`, one action per statement; refines `FlagStore` |
| `ScheduledFlagStore` | the promise with scheduled changes: extends `FlagStore` with changes that wait, are taken up, and then take effect in one step, fail, or are cancelled |
| `FlagScheduler` | extends `FlagConfig` with `scheduled_flag_changes`, create and cancel requests, and the scheduler loop of each replica; refines `ScheduledFlagStore` |
| `Evaluation` | `internal/evaluation`: evaluation and validation as operators; no state |
| `EvaluatedFlag` | extends `Evaluation` with a flag, segments and a subject, and with what evaluation and validation promise each other |
| `TargetingDefinitions` | extends `Evaluation` with the variants, policies and segments of a project, and the requests that read, validate and write them |
| `ConfigurationDocument` | extends `TargetingDefinitions` with the documents SDKs download |
| `SDKDelivery` | triggers, listener, hub, event streams, polling, revocation: how a change reaches the SDKs |
| `Management` | first setup, sessions and cookies, connection pool, creation of projects, environments and flags |
| `MCFlagConfig`, `MCFlagScheduler`, `MCEvaluation`, `MCConfigurationDocument`, `MCSDKDelivery`, `MCManagement` | instances for TLC |
| `FlagConfig_proofs` | theorems of `FlagConfig`, the refinement of `FlagStore` among them |
| `FlagScheduler_proofs` | theorems of `FlagScheduler`: the rows of the queue |
| `FlagSchedulerOnce_proofs` | theorems of `FlagScheduler`: the order of claims, the lease, at most one application, the refinement of `ScheduledFlagStore` |
| `Evaluation_proofs` | lemmas about the operators of `Evaluation`: its recursions end and compute what they should |
| `EvaluatedFlag_proofs` | theorems of `EvaluatedFlag` |
| `ConfigurationDocument_proofs` | theorems of `ConfigurationDocument` and of `TargetingDefinitions` within it |
| `SDKDelivery_proofs`, `Management_proofs` | theorems of those modules |

Three interfaces connect them. `FlagScheduler` extends `FlagConfig`: both write the
same rows. `ConfigurationDocument` extends `TargetingDefinitions`, which extends
`Evaluation`: requests write what documents read, and all of them validate and
evaluate with the same operators. In the other direction detail is abstracted:
for `FlagScheduler` a policy is a model value and validation has either outcome;
`TargetingDefinitions` writes a policy row in one step, because `FlagConfig` is shown
to take effect in one; `SDKDelivery` knows of a document only how many
changes it includes.

**FlagConfig.** `config[t]` is the row of an (environment, flag) pair; a missing
row is revision 0, which the table's check constraint forbids for a stored one.
`request[c]` is the handler a client is in: `pc` names the statement it issues
next, `seen` the entity it read. `FindForEnabled`, `InsertEnabled`,
`ReloadEnabled`, `UpdateEnabled` are the statements of
`FlagConfigRepository.SetEnabled` in their order, with the early return
(`EnabledAfterRead`) as part of the step that reads. `FindForPolicy`,
`InsertPolicy`, `UpdatePolicy` are those of `TargetingRepository.SetPolicy`. The
difference that matters is kept: a toggle writes `SetRevision(entity.Revision +
1)`, from what it read, a policy `AddRevision(1)`, on what is there. Authorisation,
decoding, and the existence checks precede `Begin`; nothing in the program
deletes or archives a flag or an environment, so they stay true. `Reject` is
every way a handler ends early: failed validation (policies are opaque), a
database error, the end of the request's context. `commits` is a history variable.

**FlagScheduler.** `schedule[s]` is a row, its key its position in ID order.
A replica's batch is `pc`, `batchNow` (its one `time.Now()`), `listed` (due rows
whose claiming UPDATE is yet to come) and `claim` (tokens of claims not worked
off). `ListDue` is the SELECT with its order and limit, `ClaimNext` one
conditional UPDATE, `Validate` the revalidation (either outcome, since
definitions are opaque), `ReadClaim`, `ReadConfig` and `Commit` the transaction,
`CommitConflict` its INSERT losing to a row created meanwhile, `MarkFailed` the
conditional failure. `Abandon` is a crash, a shutdown, or a claiming statement
that fails and discards the claims made before it; `ApplyError` and
`MarkFailedError` are failing statements; `Commit` may lose its reply.
`cancelling[o]` is a cancel between its SELECT and its UPDATE. `Create` is the INSERT
of a change whose time was found to be in the future several statements earlier
(`targeting.go:230`): the row may be due when it appears, which its field `late`
records. `applied` and `faults` are history variables.

*Why the writes of the transaction are one step.* At READ COMMITTED its SELECTs
see the last committed rows and lock nothing: two steps. Its two UPDATEs hold row
locks until the commit and nobody sees them before. A statement of another
session on the configuration row is ordered before the first of them or waits for
the commit. A cancel or claim that commits between the two UPDATEs touches the
schedule row only, and commutes with the UPDATE of the configuration row: it is
the same as if it had come before both. A claiming or failing UPDATE that waited
for the lock has its WHERE clause evaluated again on the new row, as at a later
step.

*What is abstracted.* In these two modules policies, environments and users are model values; the
text of errors, timestamps other than `execute_at` and `claimed_at`, and the
response bodies are left out. All replicas read one clock.

**Evaluation.** A flag is a record, a context a function from attribute paths to
values, the segments of a project a function from key to match mode and
conditions. `Evaluate` follows `Evaluate` of the source: validate, look at the
toggle, try the rules in order (`DecidingRule`), resolve the outcome
(`ResolveOutcome`), fall through. An answer of a condition or segment is "yes",
"no" or "error", and the first one that decides wins, as in the loops of the code
(`MatchConditions`). `MatchSegment` and `VisitFindsNoCycle` are the two recursions over
segments, with the keys being visited as an argument. Weights are added in
two's complement (`Wrapped`). Recursions are over functions on the sets of keys, so that
they can be proved about; `Key` is finite because a request body is (32 KiB,
`httpapi/auth.go:19`). `IsFlag` and `IsSegments` say what decoding yields; every theorem
holds for all of that. `ValidDefinition`, `ValidSegmentSet` and
`ValidPolicySegments` are the three entry points of `validation.go`. Constants stand
for the data: `Meets` and `Accepts` say for each operator which pairs of values
satisfy it and which expected values it accepts, `Trim` strips white space,
`Bucket` is the hash, `Portable` the expressions every SDK can execute.

**EvaluatedFlag.** The inputs of `Evaluate` as a state: `flag`, `segments`, `context`.
`Republish` gives the flag another rollout, `NextSubject` changes the context; neither
validates, so that the properties are about valid and invalid definitions alike.
`MCEvaluation` publishes again only under one set of segments, which rollouts do
not depend on.

**TargetingDefinitions.** One flag of one project: `variants`, `policies[e]` for the
environments that have a row, `segments` by key. `request[c]` is a handler of
`httpapi/targeting.go`: `pc` names the statement it issues next, `read` what it has
read. `ReadFlag` and `ReadConfigs` are the SELECTs of `GetFlagState` and
`LoadEvaluation`, `ReadSegments` that of `ListSegments`; a step that reads last also
decides (`Decide`) whether the request goes on to write. `WriteVariants`,
`WritePolicy`, `InsertSegment` and `UpdateSegment` are the writes, and validate
nothing. A scheduled policy is the same sequence run by the scheduler. An update of
a segment keeps its quirk: it is validated under the key it carries and stored
under the one it has (`Candidate`, `UpdateSegment`). `Leave` is a failing statement
or an abandoned request. Nothing in the program archives or removes a flag
or a segment. Reads a request makes no use of are left out.

**ConfigurationDocument.** `load[s]` is the document being assembled for an SDK:
`LoadFlags`, `LoadConfigs`, `LoadSegments` are the statements of
`LoadConfiguration` that read definitions, the last one with the validation of the
document (`ValidDocument`) and its reduction to the segments it needs
(`ReferencedSegments`). `SetClientVisible` decides whether a client credential gets
the flag.

**SDKDelivery.** `version[e]` counts the changes to what environment `e` delivers. A
change bumps it and notifies in one step, since a trigger's `pg_notify` takes effect
at commit. `listening` and `queue` are the listener's connection (its own, outside
the pool); `Receive` is `Publish` for one notification: a channel
that is full keeps the event it has. `stream[s]` is the handler of an event stream,
authenticated before it is subscribed; `HandleEvent` closes it after a
revocation. `told`, `fetch` and `held` are the SDK: whether it has a reason to
download, where the download is, what it evaluates with. SDKs are external and
do what `docs/sdk-delivery.md` asks of them. `broken` holds the environments whose
stored definitions do not validate, a state `TargetingDefinitions` shows to be reachable:
any change may leave them so or repair them (`Write`), and as long as they are,
`Refuse` answers every download with 500. `Fail` is every other failure. `Disconnect`, `Restart`, `CloseStream` and
`Fail` lose what they lose. `lost` and `unheard` are history variables that say
which SDK missed a signal.

**Management.** `request[r]` is a handler on replica `ServerOf[r]`; its place tells
how many connections of the pool it keeps (`Holds`). `AcquireLockConnection`, `Lock`,
`Begin`, `Recheck`, `CommitSetup`, `Unlock` are the calls of `Bootstrap` in their order.
The advisory lock is one of the session: it is taken on a connection of the pool
before the transaction asks the same pool for another one. So the lock may go and the
transaction go on: `LoseLock` breaks the connection with the lock, unnoticed by the
handler (`severed`), and a handler that fails or a replica that stops may leave its
COMMIT to the database (`inflight`, `LateCommit`). `stray` is a history variable: the
users that were committed in one of these ways. An address stands for all unique keys of a
setup. `Authenticate` and
`Refuse` are `requireAuth`; `FindCredential`, `CreateSession`, `DeleteSession`,
`FindProject`, `Insert` are statements. `jar[b]` is a browser's session
cookie; `Receive` lets a response arrive at any later time, or never. The CSRF token is
issued and cleared with the session token and is left out; the member
of an organisation is its owner, so no role check refuses.

## 3. Properties and runs

`flag_config` (passes; 3 requests, 1 row, 2 policies, rows written up to 3 times
before requests stop; 18 719 states under symmetry). Three requests are what a
stale toggle needs: two writers to overtake it, itself to write. One row
suffices because a request touches one.

* `ImplementsFlagStore`: every behaviour of the statements is one of an atomic
  store: no lost update between toggles and policies, no untrue early return, no
  half-effective error.
* `RevisionCountsCommits`: no interleaving makes a revision run ahead of the
  writes it counts.
* `RevisionGrowsUnlessRaced`: a change of content raises the revision, except
  when a toggle is about to write one that it read before another writer's.
* `ConfigTypeOK`.

`revision_monotonic` (violated). `docs/data-model.md` calls the revision
"monotonically increasing". It is not: a toggle reads revision 1, a policy
update makes it 2, the toggle writes 2 again; with two policy updates it goes
back from 3 to 2.

`scheduler` (passes; 2 schedules, 2 replicas, a cancel, a patch that enables,
lease 1, clock to 3, a fault; replicas may be slower than their lease; 1 191 064
states under symmetry). Two schedules are needed for order and for a batch, two
replicas and a clock past due time plus lease for a reclaim. The properties are
about the queue, so one patch is enough.

* `AppliedMatchesStatus`: a change was applied exactly if its row says executed,
  or a late cancel overwrote that; no applied change is failed or queued again,
  also when the commit's reply is lost.
* `NotBeforeDue`: no change early.
* `ClaimsInOrder`: none is claimed past an older one that waits, unless the row of that
  one was inserted when it was due already. The exception is real: the time is
  checked before the request reads the flag and the segments, and a replica that
  lists in between does not see the row.
* `LeaseExcludes`: two replicas have unfinished claims on the same change only after
  the lease of one has run out, although both may have listed it before either claimed.
* `SettledStaysSettled`, `EarlyCancelIsFinal`: nothing settled re-enters the
  queue, and a cancel that precedes every claim is never undone by a replica that
  had listed the row.
* `TypeOK`.

`scheduler_live` (passes; the same with lease 2 and batches that end within
their lease, `PromptWorkers`; no symmetry, 240 212 states).

* `AppliedAtMostOnce`: across replicas, crashes, lost replies, cancels and
  reclaims.
* `EventuallySettled`: every waiting change is executed, cancelled or failed in
  the end.

`shared_row` (passes; one schedule, one replica and one cancel beside two interactive
requests on the same row, patches that set one column or both; 782 952 states
under symmetry). The scheduler is a third kind of writer of the row: it checks
what a patch changes against the row it read, and writes to the row as it is.

* `RevisionCountsCommits`, `RevisionGrowsUnlessRaced`, as above.
* `AppliedWholeUnlessOvertaken`: after a change took effect, both of its columns
  are in the row, unless a request wrote the row after the change had read it. The
  exception is real: a column that equals what was read is not written, so a toggle
  in between stays in force beside the other half of the patch.
* `ImplementsScheduledFlagStore`: every behaviour of the statements is one of
  `ScheduledFlagStore`, where a change writes both registers in one step, beside
  requests that write one, and only after it was taken up. A register may keep what
  it had there; the property before says when. A row maps to its change
  by status, by whether it was ever claimed, and by whether it was applied
  (`Outcome`): a cancel that finds a token in the row only withdraws the change, and a
  withdrawn change may still be applied (`cancel_race`), a cancelled one never.
  Without `PromptWorkers` a change may also be applied after it failed or for a
  second time, which is `stale_worker` again. The batch, the
  lease and the transaction are invisible: they are stuttering.

`stale_worker` (violated). `docs/data-model.md`: "The claim token prevents the
stale worker from later committing the same scheduled change." The token is
compared in a SELECT; the UPDATE at the end is by primary key. A replica that
outlives its lease between the two commits a row that another replica has
claimed, and both may apply the change. This is why `AppliedAtMostOnce` assumes
`PromptWorkers`.

`cancel_race` (violated). The API answers a cancel that comes too late with
"Only pending scheduled changes can be modified."; a cancel that read the row as
pending writes `cancelled` over whatever it has become, `executed` included.

`evaluation` (passes; every set of up to three segments over the chosen forms, cycles
and unknown references included, and every small definition with its rollouts on a
scale of 4; 81 972 states). The states are inputs, the steps publish a definition
again or evaluate another subject. A cycle of three is the first that neither
segment nor its neighbour shows; a scale of 4 has every order of boundaries three
allocations can have.

* `ValidDefinitionsEvaluate`: what validation accepts never evaluates to
  PARSE_ERROR, for any subject. Stated for keys without white space around them:
  `ValidateFlag` compares trimmed variant keys, `variantValue` stored ones, so that
  a definition with such a key is accepted and then fails for everybody.
* `MembershipAgrees`: the recursive answer is the meaning of the conditions read as
  equations, unique without a cycle, and independent of where it starts. Without a
  cycle nothing fails either, unless a segment has a blank key: the search for
  cycles does not follow references to one. Segments are stored under other keys only.
* `VisitDecidesCycles`: the depth-first visit refuses exactly the sets with a cycle.
* `WeightsAreShares`: a rollout serves every bucket, and each allocation as many as
  its weight. It needs the range of the schema, and a rollout whose sum fits a machine
  integer (`InSchema`): validation has no upper bound, and machine integers wrap.
* `CohortRetained`: raising one allocation and no other keeps the subjects it had,
  wherever it stands. Its variant may not have another allocation that shrinks.

`configuration_document` (passes; 2 requests and 1 download, 2 writes, 2 segments, a
variant that one policy uses, a policy that needs a segment; 179 138 states under
symmetry). Two writes are what two requests need to invalidate each other, the
download falls anywhere between them.

* `ReferencesResolve`: no stored policy or segment references a segment that is not
  stored. Validation looks references up in a list read earlier; that is enough
  because keys neither change nor disappear.
* `BreaksOnlyOnStaleRead`: consistent definitions are broken only by a write over
  rows that changed since it validated against them. Such writes exist: a variant is
  removed while a policy starts to use it, two segments start to reference each
  other. So `docs/data-model.md`'s "rejects dependency cycles before persistence" and
  `docs/sdk-delivery.md`'s "enforced by core before configuration is persisted"
  hold of requests that do not overlap, and the property says exactly where they stop.
* `FailsOnlyWhenBrokenOrMixed`: a download is refused only because the stored
  definitions are broken, or because it mixes flags and policies from before and
  after a write, in which case a later one need not be.
* `DeliveredNeverFails`: what is delivered never evaluates to PARSE_ERROR, whatever
  was written while it was assembled, for keys without white space around them.
* `DocumentSelfContained`: the segments left out make no difference to any subject.
* `PreviewTellsBrokenDefinitions`: the same promise for a preview.
* `DocumentTypeOK`.

`sdk_delivery` (passes; 1 SDK, its environment and another one, 2 changes of each, a
revocation, 2 faults; 304 552 states). SDKs share nothing but the queue: one SDK, with
changes that concern it and changes that do not, meets every case. Two changes
are needed to overlap a download and to find a channel full, and to break the
definitions and repair them.

* `NoSignalLost`: an SDK that is stale has a signal on its way, unless one was lost
  with a connection, a stream or a download, or the definitions do not validate now.
  Dropping events on a full channel loses no change, and an SDK that was refused is
  told when the definitions are repaired.
* `EventuallyCurrent`: polling makes up for everything that is lost. What it cannot make
  up for is stated as the exception: as long as the stored definitions do not validate,
  every download of that environment is refused, and its SDKs stay with what they have.
* `RevocationClosesUnlessUnheard`: the stream of a revoked credential closes, unless
  the revocation was lost, came between authentication and subscription, or met
  a full channel.
* `DeliveryTypeOK`.

`revocation` (violated; 2 SDKs, no faults). `docs/sdk-delivery.md`: "Revoking the
credential immediately prevents further configuration downloads and closes matching
realtime invalidation streams." A revocation that finds the channel still holding a
change is dropped: the handler announces the change and waits on, and the stream stays
open until it breaks.

`management` (passes; 3 requests, one on a replica of its own and two on another, 2
connections each, 1 browser; 229 576 states). Two connections are the smallest pool that
two setups can jam while a third one, on the other replica, waits for their lock. Two
replicas are needed for the lock: one pool of two would serialise setups by itself. Setups on
different replicas carry different addresses (`AddressesByReplica`), so that only the lock
keeps them apart. 3 requests are sent in all, so the system may stop and deadlock is not checked.

* `OneOwnerUnderLock`: setups create one owner, beside those that committed after the
  connection of their lock was lost or when their handler was gone.

* `AnsweredUnlessJammed`: every request is answered, unless its replica is jammed: all
  connections belong to setups that wait for the lock or, having had it, for a second
  connection. That jam ends only when one of them gives up. Who waits for the
  lock of a setup that is jammed on another replica waits too.
* `SignedInUntilEnded`: a browser loses the cookie of a live session only to a
  response to a request it had sent with other cookies. The late 401 that signs
  out a session obtained meanwhile is such a response.
* `WritesNeedSession`: a request creates its row only if it was itself sent with a
  live session, however long it takes to write it.
* `ManagementTypeOK`.

The exception in `OneOwnerUnderLock` is real. `docs/authentication.md`: "The bootstrap
transaction takes a PostgreSQL advisory transaction lock and re-checks for existing users
before writing. This prevents concurrent setup requests from creating multiple first
owners." The code takes a lock of the session, on another connection than the
transaction's (`auth_repository.go:41-52`). A setup that fails with its COMMIT in flight, or
whose lock connection breaks, lets the next setup find no user while its own transaction
still commits: two owners. A lock taken in the transaction would be held until it ends.

**Fairness** (`FairSpec`): weak fairness of every replica's own steps, because
`runScheduler` runs a batch, and within it each statement, without waiting for
anything but its ticker, and of the clock. Faults and requests are never forced,
and faults are bounded (`MaxFaults`), as a replica that fails every time settles
nothing. `FaultAllowed` keeps faults early enough for the lease to run out before
the bounded clock stops; the program's clock does not stop.

`DeliveryFairness`: weak fairness of the listener, which reconnects after a second
for ever and hands over what it receives, of handlers, and of SDKs that poll; a
download that finds broken definitions ends too, refused, as often as it is tried.
Nothing forces a change that repairs them.
Nobody has to connect to the event stream. `ManagementFairness`: strong fairness of the steps of
a request, because the connection pool (`pgxpool`) and the advisory locks of PostgreSQL
serve those that wait in turn, while a connection is free and taken again for
as long as others ask for it. Nothing makes a browser give up.

**Bounds**: `MaxCommits` (no request starts on a row written that often),
`MaxTime`, `MaxExecuteAt`, `MaxFaults`, `BatchLimit`, `MaxWrites` (no request on the
definitions starts after that many writes), `MaxChanges`, `MaxFailures`, `MaxSends`. Requests that hit a bound
finish; none is cut off half-way. `MCFlagConfig` and `MCConfigurationDocument` add `BoundReached`, a stuttering
step in the states where every request is answered and the bound is reached, so that a request that hangs is still found as a deadlock.

## 4. Theorems

All hold for any sets of rows, requests, schedules, replicas, policies and
patches and any bounds, and for any definitions, SDKs, pools and browsers; the assumptions are
`ConfigAssumption`, `SchedulerAssumption`, `EvaluationAssumption`, `EvaluatedAssumption`,
`DefinitionsAssumption`, `DocumentAssumption`, `DeliveryAssumption` and
`ManagementAssumption`, evaluated by TLC in every run of their modules.

`FlagConfig_proofs` rests on the inductive invariant `ConfigInv`: types; the
revision of a row, and every revision a request remembers, is at most the number
of writes of that row (a toggle writes what it remembers plus one, so the bound on
what it remembers is what keeps the bound on the row); a row that does not exist
has the contents the code answers for a missing row; only a toggle that enables
inserts. The last two make early returns and INSERTs take effect in `FlagStore`.

* `ConfigTypeCorrect`, `RevisionCountsCommitsHolds`, `RevisionGrowsHolds`
* `ConfigImplementsFlagStore`: the refinement, one lemma per kind of step
  (`StoreInvoke`, `WriteTakesEffect`, `ReadTakesEffect`, `OpenStep`, `StoreAnswer`).

`FlagScheduler_proofs` rests on `QueueInv`: types, `ConfigInv` for the shared
rows (a scheduled change is one more writer: `CommitConfigInv`), the two status
properties, and `References`: what a batch lists, a replica claims or a cancel has
read exists, a claimed row has left `pending` and carries a token, and no row is
running before its due time. None of these hold without the others: that a
failing replica cannot fail an applied change needs that a running row was never
applied; that a claim is due needs that what was listed was due at the time of
its batch. `Writers` names the five statements that write the table; the action
properties follow from it case by case.

* `QueueInvariant`, `TypeCorrect`, `AppliedMatchesStatusHolds`, `NotBeforeDueHolds`
* `SettledStaysSettledHolds`, `EarlyCancelIsFinalHolds`
* `SharedRevisionCountsCommits`, `SharedRevisionGrows`: the properties of the
  rows, with requests and schedules writing them together (`CommittedRow`).
* `AppliedWholeHolds`: a change leaves both of its columns in the row, or a request
  has written the row since the change read it.

`FlagSchedulerOnce_proofs` adds to it.

* `ClaimsInOrderHolds`, from `ListedInOrder`: what waits and comes before a listed
  change is listed too, unless its row came late. A listing takes a prefix of the due
  rows, and a new row that is not late is due later than every change listed before it.
* `LeaseExcludesHolds`, from `LeaseInv`: a running row carries the time of a batch that
  is at least as recent as that of any unfinished claim on it, and of two claims the lease of
  one has run out. A claim by a second replica needs the lease of the row to have
  run out (`Takeover`), hence that of whoever else holds it.
* `AppliedAtMostOnceHolds`, under `PromptWorkers`, from `PromptInv`: a batch in
  progress is younger than the lease of its claims (`InLease`), so by `LeaseInv` each
  change has a sole claim (`SoleClaim`). A replica that holds an applied change has lost
  the reply to its commit and is on its way to mark it failed (`AppliedClaim`), so it
  never commits it again. The theorem says exactly what `stale_worker` makes
  necessary: the lease is what keeps a change from being applied twice, not the token.
* `SchedulerImplementsScheduledFlagStore`, with `PromptWorkers` and without. Each
  writer of the table is a step of `ScheduledFlagStore` or a stutter (`PromiseAdd`,
  `PromiseTakeUp`, `PromiseCancel`, `PromiseFail`, `PromiseApply`), a request is the
  step of `FlagStore` it was shown to be (`StoreNext`), and the rest changes neither
  rows nor history (`PromiseStutter`). The mapping reads the token of a row, so it
  needs `TokensTellClaims`: a pending row has none, a running or failed one has.
  That a change is never applied after its failure needs `FailedUnclaimed`, another
  part of `PromptInv`: whoever marks a row failed drops the sole claim on it.
  The same lemmas cover replicas that outlive their leases, with a larger set of
  states in which a change may be applied.

`Evaluation_proofs` proves what recursion over definitions of any size computes. The
prover has no induction over data, so the induction is made explicit: `Least` (a
nonempty set of numbers has a least element), `Largest` (of a family of subsets of a
finite set one is contained in no other), `RecursionOnSubsets` (a recursive function
on subsets exists and satisfies its equation). A proof by induction then considers
the largest set of segments being evaluated where a claim fails, or the first
index. In this way:

* `MatchSegmentEvaluates`, `VisitEnds`: both recursions over segments end, cycles or
  not, since each goes on with one more segment being visited.
* `VisitDecides`: on a cycle, the visit follows it (`VisitRefuses`); without one, the
  segments being visited never come back (`VisitPasses`, from `ReachIsAcyclic`).
* `NoErrorWithoutCycle`: no answer is an error. `PartAgrees`: a part of the
  segments closed under references answers for them as all segments do.
* `CumulativeSums`: cumulative weights are the running sums in machine integers.
* `AcceptedEvaluates`: what validation accepts never evaluates to PARSE_ERROR; it puts
  the above together with `OutcomeResolves` (a variant that is allowed is found, and
  some allocation of a valid rollout is above every bucket).
* `PartEvaluates`: a flag evaluates the same with all segments and with those it needs.

`EvaluatedFlag_proofs` concludes what they say of every state of `EvaluatedFlag`.

* `DefinitionsEvaluate`, `VisitIsExact`, `SegmentsMeanTheirConditions`
* `WeightsShareTheBuckets`: in the range of the schema the sums do not wrap
  (`SumsInRange`), so they increase to the scale, and an allocation serves the buckets
  between two of them (`ServedBetweenSums`).
* `RaisingRetainsTheCohort`: the sums before a raised allocation do not grow and those
  from it on do not shrink, as they end at the same total (`RaisedSums`).

`ConfigurationDocument_proofs` rests on `DocumentInv`: types, and `DefinitionsInv`, which
adds to `ReferencesResolve` that the stored variants are valid and that a request
about to write has validated its candidate against what it has read (`Validated`).
Segments are only ever added, so what was read of their keys stays true, and that is
why `ReferencesResolve` needs no fresh read. For `BreaksOnlyOnStaleRead`, a write whose
read is fresh stores a candidate that was validated against exactly the rows it joins;
the one case that is not immediate is an update carrying another key, where the set
that is stored and the set that was validated differ (`ReplacedSegment` shows
that no stored segment references either key anew).

`DocumentInv` also says that a document was assembled (`Assembled`): what it delivers was
validated against a set of segments its own ones are a part of, with everything they
reference. With `AcceptedEvaluates` and `PartEvaluates` that is why it evaluates, and as
it would with all segments.

* `DocumentTypes`, `DocumentReferences`, `DocumentConsistency`, `DocumentFailures`
* `DocumentsEvaluate`, `DocumentsAreSelfContained`, `PreviewsTell`

`SDKDelivery_proofs` rests on `DeliveryInv`, two facts beside the types: an SDK
without a signal, or with a download that has read, holds the current version or
is about to, or finds definitions that do not validate now; and only an SDK whose credential is revoked is told so, because a channel
with a revocation would otherwise hide a change.

* `DeliveryTypes`, `DeliverySignals`

`Management_proofs`: `OneOwnerUnderLock` from `LockOwned`: a setup between `Lock` and
`Unlock` has the lock or has lost its connection, and one that has it writes only
while there is no user but stray ones; the two action properties from what a request
remembers of the cookie it was sent with.

* `ManagementTypes`, `ManagementOneOwner`, `ManagementWrites`, `ManagementCookies`

Only model-checked: liveness (`EventuallySettled`, `EventuallyCurrent`,
`RevocationClosesUnlessUnheard`, `AnsweredUnlessJammed`), which is outside the
prover's reach. Every other property of a passing run is a theorem.

## 5. Plan

Done: the five groups of modules above. Worth adding:

1. What a rollout of several changes promises about the order of its effects (today
   only of its claims); `ScheduledFlagStore` leaves the order open.
2. `FlagScheduler` over `TargetingDefinitions`, so that a revalidation fails for a
   reason instead of at will.
3. Credentials as rows: several per SDK, a rotation by creating one and revoking
   another while streams are open.

## 6. Not modelled

* Comparison of attribute values, JSON decoding and encoding, the bucket hash, key
  formats, digests, password hashing: functions of data without state. The
  contract vectors in `src/spec` are test data for them.
* The creation of SDK credentials, and every list: one INSERT, and reads.
* Migration: DDL run once before any replica starts. What it installs (triggers,
  unique keys, checks) is in the modules.
* Clock skew, between replicas or between a replica and the expiry of a session: each
  module has one clock or none.
* Process lifecycle and HTTP plumbing beyond stopping at any point: wiring without
  state of its own. A graceful shutdown with open event streams ends in its timeout;
  to an SDK it is `Restart`.
* The dashboard, a client of the management API.
