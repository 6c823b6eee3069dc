----------------------------- MODULE FlagConfig ------------------------------
(***************************************************************************)
(* The environment_flag_configs table and the interactive requests that    *)
(* write it: SetEnabled (database/flag_config_repository.go) and SetPolicy *)
(* (targeting/targeting.go, database/targeting_repository.go).             *)
(*                                                                         *)
(* Every statement is its own auto-commit transaction, so each SELECT,     *)
(* INSERT and UPDATE is one step and requests interleave between them.     *)
(* `UpdateOne(entity)` is an UPDATE by primary key that writes only the    *)
(* columns that were set; the entity read before supplies nothing but the  *)
(* values the code copies from it.                                         *)
(***************************************************************************)
EXTENDS Integers

CONSTANTS
  Target,      \* (environment, feature flag) pairs, the table's unique key
  Client,      \* concurrent management requests
  Policy,      \* targeting policies, opaque here
  NoPolicy,    \* evaluation.Policy{}, the column's default
  MaxCommits   \* bound: no request starts on a row written this often

ASSUME ConfigAssumption == NoPolicy \in Policy /\ MaxCommits \in Nat

VARIABLES
  config,      \* config[t]: the row of t; revision 0 when there is no row
  request,     \* request[c]: the request c executes and what it has read
  commits      \* history: commits[t] counts the statements that wrote row t

configVars == <<config, request, commits>>

Row == [enabled: BOOLEAN, policy: Policy, revision: Nat]

\* A missing row reads as disabled, without a policy, at revision 0.
NoRow == [enabled |-> FALSE, policy |-> NoPolicy, revision |-> 0]

Exists(t) == config[t].revision > 0

NoRequest == [pc |-> "idle"]

Stage == {"find", "insert", "reload", "update", "done"}

Request ==
  [pc: Stage, op: {"enabled"}, target: Target, value: BOOLEAN, seen: Row]
    \cup [pc: Stage, op: {"policy"}, target: Target, value: Policy, seen: Row]

ConfigTypeOK ==
  /\ config \in [Target -> Row]
  /\ request \in [Client -> Request \cup {NoRequest}]
  /\ commits \in [Target -> Nat]

------------------------------------------------------------------------------

ConfigInit ==
  /\ config = [t \in Target |-> NoRow]
  /\ request = [c \in Client |-> NoRequest]
  /\ commits = [t \in Target |-> 0]

At(c, pc, op) == request[c].pc = pc /\ request[c].op = op

Goto(c, pc) == request' = [request EXCEPT ![c].pc = pc]

\* Statement of a request: the row becomes `row` and the request is answered.
WriteRow(c, row) ==
  /\ config' = [config EXCEPT ![request[c].target] = row]
  /\ commits' = [commits EXCEPT ![request[c].target] = @ + 1]
  /\ Goto(c, "done")

\* A request passes authorisation, decoding and the checks that its
\* environment and flag exist (nothing in the program removes either).
Begin(c, op, t, v) ==
  /\ request[c] = NoRequest
  /\ commits[t] < MaxCommits
  /\ request' = [request EXCEPT ![c] =
       [pc |-> "find", op |-> op, target |-> t, value |-> v, seen |-> NoRow]]
  /\ UNCHANGED <<config, commits>>

BeginSetEnabled(c, t, b) == Begin(c, "enabled", t, b)

BeginSetPolicy(c, t, p) == Begin(c, "policy", t, p)

\* After reading row `row`, SetEnabled answers at once when there is nothing
\* to change and otherwise remembers the row for its UPDATE.
EnabledAfterRead(c, row) ==
  IF row.enabled = request[c].value
    THEN Goto(c, "done")
    ELSE request' = [request EXCEPT ![c].pc = "update", ![c].seen = row]

FindForEnabled(c) ==
  /\ At(c, "find", "enabled")
  /\ LET t == request[c].target IN
       \/ Exists(t) /\ EnabledAfterRead(c, config[t])
       \/ ~Exists(t) /\ request[c].value /\ Goto(c, "insert")
       \/ ~Exists(t) /\ ~request[c].value /\ Goto(c, "done")
  /\ UNCHANGED <<config, commits>>

\* Faulty variant: the toggle lands in the policy column.
InsertEnabledMisplaced(c) ==
  /\ At(c, "insert", "enabled")
  /\ WriteRow(c, [enabled |-> TRUE, policy |-> TRUE, revision |-> 1])

\* INSERT against the unique index: a constraint error means another request
\* created the row first, and SetEnabled reads it again.
InsertEnabled(c) ==
  /\ At(c, "insert", "enabled")
  /\ IF Exists(request[c].target)
       THEN Goto(c, "reload") /\ UNCHANGED <<config, commits>>
       ELSE WriteRow(c, [enabled |-> TRUE, policy |-> NoPolicy, revision |-> 1])

ReloadEnabled(c) ==
  /\ At(c, "reload", "enabled")
  /\ EnabledAfterRead(c, config[request[c].target])
  /\ UNCHANGED <<config, commits>>

\* Faulty variant: AddRevision(entity.Revision + 1) for SetRevision.
UpdateEnabledAdding(c) ==
  /\ At(c, "update", "enabled")
  /\ WriteRow(c, [config[request[c].target] EXCEPT
                    !.enabled = request[c].value,
                    !.revision = @ + request[c].seen.revision + 1])

\* SetRevision(entity.Revision + 1) writes the revision of the row as it was
\* read, not the one the row has now.
UpdateEnabled(c) ==
  /\ At(c, "update", "enabled")
  /\ WriteRow(c, [config[request[c].target] EXCEPT
                    !.enabled = request[c].value,
                    !.revision = request[c].seen.revision + 1])

FindForPolicy(c) ==
  /\ At(c, "find", "policy")
  /\ LET t == request[c].target IN
       \/ ~Exists(t) /\ Goto(c, "insert")
       \/ Exists(t) /\ config[t].policy = request[c].value /\ Goto(c, "done")
       \/ /\ Exists(t) /\ config[t].policy # request[c].value
          /\ request' = [request EXCEPT ![c].pc = "update", ![c].seen = config[t]]
  /\ UNCHANGED <<config, commits>>

\* SetPolicy does not retry: a constraint error is answered as an error.
InsertPolicy(c) ==
  /\ At(c, "insert", "policy")
  /\ IF Exists(request[c].target)
       THEN /\ request' = [request EXCEPT ![c] = NoRequest]
            /\ UNCHANGED <<config, commits>>
       ELSE WriteRow(c, [enabled |-> FALSE, policy |-> request[c].value, revision |-> 1])

\* Faulty variant: the whole row is written back as it was read.
UpdatePolicyWholeRow(c) ==
  /\ At(c, "update", "policy")
  /\ WriteRow(c, [request[c].seen EXCEPT !.policy = request[c].value, !.revision = @ + 1])

\* Faulty variant: the revision does not count the change.
UpdatePolicyUncounted(c) ==
  /\ At(c, "update", "policy")
  /\ WriteRow(c, [config[request[c].target] EXCEPT !.policy = request[c].value])

\* AddRevision(1) is relative to the row at the time of the UPDATE.
UpdatePolicy(c) ==
  /\ At(c, "update", "policy")
  /\ WriteRow(c, [config[request[c].target] EXCEPT
                    !.policy = request[c].value, !.revision = @ + 1])

Respond(c) ==
  /\ request[c].pc = "done"
  /\ request' = [request EXCEPT ![c] = NoRequest]
  /\ UNCHANGED <<config, commits>>

\* Validation rejects the request, a statement fails, or its context ends:
\* the handler answers with an error and issues no further statement.
Reject(c) ==
  /\ request[c].pc \in Stage \ {"done"}
  /\ request' = [request EXCEPT ![c] = NoRequest]
  /\ UNCHANGED <<config, commits>>

SetEnabledStep(c) ==
  \/ \E t \in Target, b \in BOOLEAN : BeginSetEnabled(c, t, b)
  \/ FindForEnabled(c)
  \/ InsertEnabled(c)
  \/ ReloadEnabled(c)
  \/ UpdateEnabled(c)

SetPolicyStep(c) ==
  \/ \E t \in Target, p \in Policy : BeginSetPolicy(c, t, p)
  \/ FindForPolicy(c)
  \/ InsertPolicy(c)
  \/ UpdatePolicy(c)

ConfigNext ==
  \E c \in Client : SetEnabledStep(c) \/ SetPolicyStep(c) \/ Respond(c) \/ Reject(c)

ConfigSpec == ConfigInit /\ [][ConfigNext]_configVars

------------------------------------------------------------------------------

\* The registers of FlagStore: what a row says, or a missing one.
Flags == [t \in Target |-> [enabled |-> config[t].enabled, policy |-> config[t].policy]]

\* The call of FlagStore a request stands for.
CallOf(r) ==
  IF r = NoRequest THEN [op |-> "none"]
  ELSE [op |-> r.op, target |-> r.target, value |-> r.value,
        phase |-> IF r.pc = "done" THEN "done" ELSE "open"]

Calls == [c \in Client |-> CallOf(request[c])]

(***************************************************************************)
(* The requests implement FlagStore: reads that find nothing to change,    *)
(* the INSERT and the UPDATE are the points where a request takes effect.  *)
(* A toggle never disturbs a policy written meanwhile and the reverse, an  *)
(* early return is only taken when the value is already in force, and the  *)
(* loser of two concurrent INSERTs still takes effect or fails cleanly.    *)
(***************************************************************************)
Store == INSTANCE FlagStore WITH flag <- Flags, call <- Calls

ImplementsFlagStore == Store!Spec

\* Revisions never run ahead of the changes they count: a row at revision n
\* was written at least n times, whatever stale revision a toggle copies.
RevisionCountsCommits ==
  \A t \in Target : config[t].revision <= commits[t]

Content(row) == <<row.enabled, row.policy>>

\* A toggle is about to write a revision no newer than the row already has.
StaleToggle(t) ==
  \E c \in Client :
    /\ At(c, "update", "enabled")
    /\ request[c].target = t
    /\ request[c].seen.revision < config[t].revision

\* A change of a row's content raises its revision, unless a toggle raced
\* with another writer between its SELECT and its UPDATE.
RevisionGrowsUnlessRaced ==
  [][\A t \in Target :
        Content(config[t])' # Content(config[t]) /\ ~StaleToggle(t)
          => config'[t].revision > config[t].revision]_configVars

\* docs/data-model.md calls the revision "a monotonically increasing revision
\* number": every change of a row's content has a higher revision.
RevisionMonotonic ==
  [][\A t \in Target :
        Content(config[t])' # Content(config[t])
          => config'[t].revision > config[t].revision]_configVars

==============================================================================
