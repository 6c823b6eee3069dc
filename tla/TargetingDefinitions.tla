------------------------- MODULE TargetingDefinitions ------------------------
(***************************************************************************)
(* The definitions targeting is built from and the requests that change    *)
(* them (targeting/targeting.go, database/targeting_repository.go): the    *)
(* variants of a feature flag, its policies per environment, the segments  *)
(* of the project, scheduled policies, previews.                           *)
(*                                                                         *)
(* A request reads what it validates against with separate statements and  *)
(* writes with another one: other requests run in between.  The statements *)
(* of one row and its revision are in FlagConfig; here a policy is written *)
(* in the one step FlagConfig is shown to take effect in.  Nothing in the  *)
(* program removes a segment or changes its key.                           *)
(***************************************************************************)
EXTENDS Evaluation

CONSTANTS
  Client,          \* concurrent requests, and the scheduler applying changes
  Viewer,          \* clients whose role in the organisation is "viewer"
  Environment,     \* environments of the project
  Kind, Default,   \* kind and default value of the flag, never updated
  VariantLists,    \* lists of variants a request may carry
  Policies,        \* policies a request may carry
  Segments,        \* contents of a segment a request may carry
  SegmentKeys,     \* keys of segments, normalised by the service
  InitialSegments, \* sets of segments to start from
  Contexts,        \* contexts a preview may carry
  MaxWrites        \* bound: no request starts after this many writes

EmptyPolicy ==
  [rules |-> <<>>, fallthrough |-> [variant |-> "", rollout |-> <<>>, bucketBy |-> ""]]

ASSUME DefinitionsAssumption ==
  /\ Viewer \subseteq Client
  /\ \A policy \in Policies : IsPolicy(policy)
  /\ \A segment \in Segments : IsConditions(segment.conditions)
  /\ SegmentKeys \subseteq Key
  /\ \A s \in InitialSegments :
       DOMAIN s \subseteq SegmentKeys /\ s \in [DOMAIN s -> Segments] /\ ValidSegmentSet(s)
  /\ Kind \in Kinds /\ FitsKind(Kind, Default)
  /\ MaxWrites \in Nat

VARIABLES
  variants,   \* the variants column of the flag
  policies,   \* policies[e]: the policy of environment e; e has a row
  segments,   \* segments[k]: the segment with key k
  request,    \* request[c]: the request c executes and what it has read
  writes      \* statements that wrote, for MaxWrites

definitionVars == <<variants, policies, segments, request, writes>>

SegmentSets == UNION {[D -> Segments] : D \in SUBSET SegmentKeys}

PolicySets == UNION {[D -> Policies] : D \in SUBSET Environment}

Call ==
  [op: {"variants"}, variants: VariantLists]
    \cup [op: {"policy", "scheduled"}, environment: Environment, policy: Policies]
    \cup [op: {"create"}, key: SegmentKeys, segment: Segments]
    \cup [op: {"update"}, id: SegmentKeys, key: SegmentKeys, segment: Segments]
    \cup [op: {"preview"}, environment: Environment, context: Contexts]

Idle == [pc |-> "idle"]

NothingRead == [variants |-> <<>>, policies |-> <<>>, segments |-> <<>>]

Running ==
  [pc: {"flag", "configs", "segments", "write"}, call: Call,
   read: [variants: VariantLists \cup {<<>>}, policies: PolicySets, segments: SegmentSets]]

DefinitionsTypeOK ==
  /\ variants \in VariantLists \cup {<<>>}
  /\ policies \in PolicySets
  /\ segments \in SegmentSets
  /\ request \in [Client -> Running \cup {Idle} \cup [pc: {"answered"}, error: ErrorCodes \cup {""}]]
  /\ writes \in Nat

------------------------------------------------------------------------------

DefinitionsInit ==
  /\ variants = <<>>
  /\ policies = <<>>
  /\ segments \in InitialSegments
  /\ request = [c \in Client |-> Idle]
  /\ writes = 0

tables == <<variants, policies, segments, writes>>

\* Where a request reads first; the reads it has no use for are left out.
FirstRead(op) ==
  CASE op = "variants" -> "configs"
    [] op \in {"policy", "scheduled", "preview"} -> "flag"
    [] OTHER -> "segments"

\* A request passes authentication, its role and decoding.
Begin(c, call) ==
  /\ request[c] = Idle
  /\ writes < MaxWrites
  /\ call.op # "preview" => c \notin Viewer
  /\ request' = [request EXCEPT ![c] =
       [pc |-> FirstRead(call.op), call |-> call, read |-> NothingRead]]
  /\ UNCHANGED tables

At(c, pc, ops) == request[c].pc = pc /\ request[c].call.op \in ops

\* The request goes on at pc with what it has read.
Continue(c, pc, read) ==
  /\ request' = [request EXCEPT ![c].pc = pc, ![c].read = read]
  /\ UNCHANGED tables

\* The request is answered and issues no further statement.
Finish(c) ==
  /\ request' = [request EXCEPT ![c] = Idle]
  /\ UNCHANGED tables

\* After its last read a request validates what it is going to write.
Decide(c, valid, read) ==
  IF valid THEN Continue(c, "write", read) ELSE Finish(c)

DefinitionWith(list, policy) == ValidDefinition(Kind, Default, list, policy)

\* GetFlagState and LoadEvaluation: SELECT from feature_flags.
ReadFlag(c) ==
  LET read == [request[c].read EXCEPT !.variants = variants] IN
    \/ At(c, "flag", {"scheduled", "preview"}) /\ Continue(c, "configs", read)
    \/ /\ At(c, "flag", {"policy"})
       /\ IF DefinitionWith(variants, request[c].call.policy)
            THEN Continue(c, "segments", read)
            ELSE Finish(c)

\* The candidate of SetVariants must suit every policy that has a row, or the
\* empty policy when there is none.
SuitsPolicies(set, list) ==
  /\ \A e \in DOMAIN set : DefinitionWith(list, set[e])
  /\ DOMAIN set = {} => DefinitionWith(list, EmptyPolicy)

\* SELECT from environment_flag_configs.
ReadConfigs(c) ==
  LET read == [request[c].read EXCEPT !.policies = policies] IN
    \/ At(c, "configs", {"scheduled", "preview"}) /\ Continue(c, "segments", read)
    \/ /\ At(c, "configs", {"variants"})
       /\ Decide(c, SuitsPolicies(policies, request[c].call.variants), read)

WithSegment(set, k, segment) ==
  [j \in DOMAIN set \cup {k} |-> IF j = k THEN segment ELSE set[j]]

Without(set, k) == [j \in DOMAIN set \ {k} |-> set[j]]

\* What CreateSegment and UpdateSegment validate: the list they read with the
\* segment added or replaced.  An update may carry a key the segment does not
\* have; it is validated under that key and stored under its own.
Candidate(set, call) ==
  WithSegment(IF call.op = "create" THEN set ELSE Without(set, call.id), call.key, call.segment)

\* Faulty variant: only the new content is validated, not the set it joins.
ValidContent(set, call) ==
  /\ call.op = "create" => call.key \notin DOMAIN set
  /\ call.op = "update" => call.id \in DOMAIN set
  /\ ValidSegment(call.key, call.segment)
  /\ SegmentReferences(call.segment.conditions) \subseteq DOMAIN set

\* A duplicate key fails the validation of the candidate.
ValidCandidate(set, call) ==
  /\ call.op = "create" => call.key \notin DOMAIN set
  /\ call.op = "update" => call.id \in DOMAIN set /\ call.key \notin DOMAIN set \ {call.id}
  /\ ValidSegmentSet(Candidate(set, call))

PolicyOf(set, e) == IF e \in DOMAIN set THEN set[e] ELSE EmptyPolicy

\* Faulty variant: the flag is loaded without its variants.
PreviewWithoutVariants(call, read, enabled) ==
  Evaluate([kind |-> Kind, default |-> Default, enabled |-> enabled,
            variants |-> <<>>, policy |-> PolicyOf(read.policies, call.environment)],
           call.context, read.segments)

\* Evaluation of what a preview has read; the toggle is FlagConfig's.
Preview(call, read, enabled) ==
  Evaluate([kind |-> Kind, default |-> Default, enabled |-> enabled,
            variants |-> read.variants, policy |-> PolicyOf(read.policies, call.environment)],
           call.context, read.segments)

\* ListSegments, the last read of every request but SetVariants.
ReadSegments(c) ==
  LET call == request[c].call
      read == [request[c].read EXCEPT !.segments = segments]
  IN \/ /\ At(c, "segments", {"policy"})
        /\ Decide(c, ValidPolicySegments(call.policy, DOMAIN segments), read)
     \/ /\ At(c, "segments", {"scheduled"})
        /\ Decide(c, /\ DefinitionWith(read.variants, call.policy)
                     /\ ValidPolicySegments(call.policy, DOMAIN segments), read)
     \/ /\ At(c, "segments", {"create", "update"})
        /\ Decide(c, ValidCandidate(segments, call), read)
     \/ /\ At(c, "segments", {"preview"})
        /\ \E enabled \in BOOLEAN :
             request' = [request EXCEPT ![c] =
               [pc |-> "answered", error |-> Preview(call, read, enabled).error]]
        /\ UNCHANGED tables

\* A statement wrote: the request is answered.
Wrote(c) ==
  /\ request' = [request EXCEPT ![c] = Idle]
  /\ writes' = writes + 1

WriteVariants(c) ==
  /\ At(c, "write", {"variants"})
  /\ variants' = request[c].call.variants
  /\ Wrote(c)
  /\ UNCHANGED <<policies, segments>>

\* Faulty variant: the policy is stored for the flag, not for the environment.
WritePolicyUnkeyed(c) ==
  /\ At(c, "write", {"policy", "scheduled"})
  /\ policies' = request[c].call.policy
  /\ Wrote(c)
  /\ UNCHANGED <<variants, segments>>

\* SetPolicy and ApplyClaimedScheduledChange create the row or update it.
WritePolicy(c) ==
  /\ At(c, "write", {"policy", "scheduled"})
  /\ LET call == request[c].call IN
       policies' = [e \in DOMAIN policies \cup {call.environment} |->
                      IF e = call.environment THEN call.policy ELSE policies[e]]
  /\ Wrote(c)
  /\ UNCHANGED <<variants, segments>>

\* INSERT against the unique key of a project's segments.
InsertSegment(c) ==
  /\ At(c, "write", {"create"})
  /\ request[c].call.key \notin DOMAIN segments
  /\ segments' = WithSegment(segments, request[c].call.key, request[c].call.segment)
  /\ Wrote(c)
  /\ UNCHANGED <<variants, policies>>

\* Faulty variant: the update stores the key it was validated under.
UpdateSegmentRenaming(c) ==
  /\ At(c, "write", {"update"})
  /\ segments' = WithSegment(Without(segments, request[c].call.id),
                             request[c].call.key, request[c].call.segment)
  /\ Wrote(c)
  /\ UNCHANGED <<variants, policies>>

\* UPDATE by ID: every column but the key.
UpdateSegment(c) ==
  /\ At(c, "write", {"update"})
  /\ segments' = WithSegment(segments, request[c].call.id, request[c].call.segment)
  /\ Wrote(c)
  /\ UNCHANGED <<variants, policies>>

\* A statement fails, a key conflicts or the context of the request ends; or a
\* preview has been answered.
Leave(c) == request[c] # Idle /\ Finish(c)

DefinitionsNext ==
  \E c \in Client :
    \/ \E call \in Call : Begin(c, call)
    \/ ReadFlag(c) \/ ReadConfigs(c) \/ ReadSegments(c)
    \/ WriteVariants(c) \/ WritePolicy(c) \/ InsertSegment(c) \/ UpdateSegment(c)
    \/ Leave(c)

DefinitionsSpec == DefinitionsInit /\ [][DefinitionsNext]_definitionVars

------------------------------------------------------------------------------

\* However requests interleave, a stored policy and a stored segment reference
\* only segments that are stored: validation looks references up in a list
\* read earlier, and that is enough because keys are never changed or removed.
ReferencesResolve ==
  /\ ReferencesKnown(segments)
  /\ \A e \in DOMAIN policies : PolicyReferences(policies[e]) \subseteq DOMAIN segments

\* What the validation before each write is for: every policy suits the flag's
\* variants and the segments have no cycle.
Consistent ==
  /\ \A e \in DOMAIN policies : DefinitionWith(variants, policies[e])
  /\ ValidSegmentSet(segments)
  /\ ReferencesResolve

\* The rows that request c validated its candidate against are still the same.
Fresh(c) ==
  LET read == request[c].read IN
    CASE request[c].call.op = "variants" -> read.policies = policies
      [] request[c].call.op \in {"policy", "scheduled"} -> read.variants = variants
      [] OTHER -> read.segments = segments

\* A write leaves consistent definitions consistent unless another request
\* wrote what it validated against meanwhile.  (Two that do break them: a
\* variant is removed while a policy starts to use it; two segments start to
\* reference each other.)
BreaksOnlyOnStaleRead ==
  [][Consistent /\ ~Consistent' =>
       \E c \in Client : request[c].pc = "write" /\ request'[c] = Idle /\ ~Fresh(c)]_definitionVars

\* A preview answers PARSE_ERROR only for definitions that were broken before
\* it, for flag and policies it read before and after another request wrote, or
\* for a key with white space around it, which is accepted and never found.
PreviewTellsBrokenDefinitions ==
  [][\A c \in Client :
       (/\ request[c].pc = "segments" /\ request'[c].pc = "answered"
        /\ request'[c].error = "PARSE_ERROR"
        /\ request[c].read.variants = variants /\ request[c].read.policies = policies
        /\ Trimmed(variants, PolicyOf(policies, request[c].call.environment)))
       => ~Consistent]_definitionVars

==============================================================================
