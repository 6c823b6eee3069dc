------------------------------ MODULE Evaluation -----------------------------
(***************************************************************************)
(* The evaluation engine (internal/evaluation): what a flag definition,    *)
(* the segments of its project and the context of a subject evaluate to,   *)
(* and the validation that runs before a definition is stored or           *)
(* delivered.                                                              *)
(*                                                                         *)
(* JSON values, paths and names are opaque; the comparisons between two    *)
(* values are relations given as constants.  The control is the code's:    *)
(* which rule decides, how conditions and segments combine, when an        *)
(* evaluation fails and what a definition must satisfy to be accepted.     *)
(***************************************************************************)
EXTENDS Integers, Sequences, FiniteSets

CONSTANTS
  Key,        \* variant and segment keys and rule ids as sent, with ""
  Trim,       \* Trim[k]: k without surrounding white space
  Meets,      \* Meets[op]: the pairs (actual, expected) for which op holds
  Accepts,    \* Accepts[op]: the expected values validation accepts for op
  Portable,   \* regular expressions every SDK runtime can execute
  Bucket,     \* Bucket[v]: the bucket of value v, for one flag and environment
  Scale,      \* BucketScale, the sum of the weights of a rollout
  MaxInt      \* the largest machine integer; weights are added in those

ASSUME EvaluationAssumption ==
  /\ IsFiniteSet(Key) /\ "" \in Key /\ Trim \in [Key -> Key] /\ Trim[""] = ""
  /\ DOMAIN Meets = DOMAIN Accepts
  /\ Scale \in Nat \ {0} /\ MaxInt \in Nat /\ Scale <= MaxInt
  /\ \A v \in DOMAIN Bucket : Bucket[v] \in 0 .. Scale - 1

(***************************************************************************)
(* A context is a function from the attribute paths it carries to values;  *)
(* "targetingKey" is one of them when it is not empty.  A condition is     *)
(* [operator, negated, attribute, value]: the operators that come in pairs *)
(* (in_segment and not_in_segment, ...) are one operator and a sign, and   *)
(* an attribute of white space only is "".                                 *)
(* Segments are a function from key to [match, conditions].                *)
(***************************************************************************)
\* What decoding yields: lists, keys, machine integers.
IsConditions(conditions) ==
  /\ DOMAIN conditions \subseteq Nat
  /\ \A i \in DOMAIN conditions :
       /\ conditions[i].negated \in BOOLEAN
       /\ conditions[i].operator = "segment" => conditions[i].value \in Key

IsRollout(rollout) ==
  rollout \in Seq([variant : Key, weight : -MaxInt - 1 .. MaxInt])

IsOutcome(outcome) == outcome.variant \in Key /\ IsRollout(outcome.rollout)

IsPolicy(policy) ==
  /\ DOMAIN policy.rules \subseteq Nat
  /\ \A i \in DOMAIN policy.rules :
       IsConditions(policy.rules[i].conditions) /\ IsOutcome(policy.rules[i].outcome)
  /\ IsOutcome(policy.fallthrough)

IsVariants(variants) ==
  DOMAIN variants \subseteq Nat /\ \A i \in DOMAIN variants : variants[i].key \in Key

IsFlag(flag) ==
  /\ DOMAIN flag = {"kind", "default", "enabled", "variants", "policy"}
  /\ DOMAIN flag.policy = {"rules", "fallthrough"}
  /\ DOMAIN flag.policy.fallthrough = {"variant", "rollout", "bucketBy"}
  /\ IsVariants(flag.variants) /\ IsPolicy(flag.policy)

IsSegments(segments) ==
  DOMAIN segments \subseteq Key /\ \A k \in DOMAIN segments : IsConditions(segments[k].conditions)

Paired == {"segment", "exists", "equals", "in", "contains"}

Answer(b) == IF b THEN "yes" ELSE "no"

Flip(answer, negated) ==
  IF answer = "error" \/ ~negated THEN answer ELSE Answer(answer = "no")

------------------------------------------------------------------------------
\* Evaluation.

\* A condition on an attribute: a missing one satisfies only `not exists`.
Holds(c, context) ==
  IF c.operator = "exists"
    THEN (c.attribute \in DOMAIN context) # c.negated
    ELSE /\ c.attribute \in DOMAIN context
         /\ (<<context[c.attribute], c.value>> \in Meets[c.operator]) # c.negated

\* `member` answers for each segment key whether the subject is in it.
ConditionMatches(c, context, member) ==
  IF c.operator = "segment" THEN Flip(member[c.value], c.negated)
                            ELSE Answer(Holds(c, context))

First(S) == CHOOSE i \in S : \A j \in S : i <= j

\* The first condition that decides, an error included, is the answer.
MatchConditions(match, conditions, context, member) ==
  LET skip == IF match = "any" THEN "no" ELSE "yes"
      answer(i) == ConditionMatches(conditions[i], context, member)
      deciding == {i \in DOMAIN conditions : answer(i) # skip}
  IN IF deciding = {} THEN skip ELSE answer(First(deciding))

\* Faulty variant: a cycle is taken for "not a member".
MatchSegmentIgnoringCycles(segments, context) ==
  LET match[visiting \in SUBSET Key] ==
        [k \in Key |->
           IF k \notin DOMAIN segments \ visiting THEN "no"
           ELSE MatchConditions(segments[k].match, segments[k].conditions, context,
                                match[visiting \cup {k}])]
  IN match[{}]

\* Membership of the subject in each segment.  An unknown segment has no
\* members; a segment met again while it is being evaluated is an error.
MatchSegment(segments, context) ==
  LET match[visiting \in SUBSET Key] ==
        [k \in Key |->
           IF k \notin DOMAIN segments THEN "no"
           ELSE IF k \in visiting THEN "error"
           ELSE MatchConditions(segments[k].match, segments[k].conditions, context,
                                match[visiting \cup {k}])]
  IN match[{}]

Result(variant, reason, rule) ==
  [variant |-> variant, reason |-> reason, rule |-> rule, error |-> ""]

ErrorCodes == {"PARSE_ERROR", "TARGETING_KEY_MISSING", "INVALID_CONTEXT"}

\* Every error serves the default value.
Failure(code) ==
  [variant |-> "default", reason |-> "ERROR", rule |-> "", error |-> code]

Reserved(kind) == {"default"} \cup IF kind = "boolean" THEN {"on", "off"} ELSE {}

\* variantValue compares keys exactly as they are stored.
HasVariant(flag, key) ==
  key \in Reserved(flag.kind) \cup {flag.variants[i].key : i \in DOMAIN flag.variants}

Serve(flag, key, reason, rule) ==
  IF HasVariant(flag, key) THEN Result(key, reason, rule) ELSE Failure("PARSE_ERROR")

\* A sum in two's complement.
Wrapped(n) == ((n + MaxInt + 1) % (2 * (MaxInt + 1))) - (MaxInt + 1)

Cumulative(rollout) ==
  LET upTo[i \in 0 .. Len(rollout)] ==
        IF i = 0 THEN 0 ELSE Wrapped(upTo[i - 1] + rollout[i].weight)
  IN upTo

\* Faulty variant: the boundary bucket belongs to the allocation before it.
AllocationsFrom(rollout, bucket) ==
  {i \in DOMAIN rollout : bucket <= Cumulative(rollout)[i]}

\* The allocations whose cumulative weight lies above a bucket.
AllocationsAbove(rollout, bucket) ==
  {i \in DOMAIN rollout : bucket < Cumulative(rollout)[i]}

\* The allocation of a rollout that serves a bucket, if there is one.
Allocate(flag, rollout, bucket, rule) ==
  LET above == AllocationsAbove(rollout, bucket) IN
    IF above = {} THEN Failure("PARSE_ERROR")
                  ELSE Serve(flag, rollout[First(above)].variant, "SPLIT", rule)

\* resolveOutcome, with the reason its caller sets.  An outcome that names a
\* variant, even one of white space only, never reaches its rollout.
ResolveOutcome(flag, outcome, context, reason, rule) ==
  LET by == IF outcome.bucketBy = "" THEN "targetingKey" ELSE outcome.bucketBy
      split == IF outcome.rollout = <<>> THEN reason ELSE "SPLIT"
  IN IF outcome.variant # "" THEN Serve(flag, outcome.variant, split, rule)
     ELSE IF by \notin DOMAIN context THEN
       Failure(IF by = "targetingKey" THEN "TARGETING_KEY_MISSING" ELSE "INVALID_CONTEXT")
     ELSE IF context[by] \notin DOMAIN Bucket THEN Failure("INVALID_CONTEXT")
     ELSE Allocate(flag, outcome.rollout, Bucket[context[by]], rule)

OutcomeEmpty(outcome) == Trim[outcome.variant] = "" /\ outcome.rollout = <<>>

EvaluateFallthrough(flag, context) ==
  CASE ~OutcomeEmpty(flag.policy.fallthrough) ->
         ResolveOutcome(flag, flag.policy.fallthrough, context, "STATIC", "")
    [] OutcomeEmpty(flag.policy.fallthrough) /\ flag.kind = "boolean" ->
         Result("on", "STATIC", "")
    [] OTHER -> Result("default", "DEFAULT", "")

\* The answers of a policy's rules, in their order.
RuleAnswers(policy, context, member) ==
  [i \in DOMAIN policy.rules |->
     MatchConditions(policy.rules[i].match, policy.rules[i].conditions, context, member)]

\* The rules are tried in order until one matches or fails.
DecidingRule(answers) ==
  LET decided == {i \in DOMAIN answers : answers[i] # "no"} IN
    IF decided = {} THEN 0 ELSE First(decided)

EvaluateEnabled(flag, context, segments) ==
  LET answers == RuleAnswers(flag.policy, context, MatchSegment(segments, context))
      i == DecidingRule(answers)
  IN IF i = 0 THEN EvaluateFallthrough(flag, context)
     ELSE IF answers[i] = "error" THEN Failure("PARSE_ERROR")
     ELSE ResolveOutcome(flag, flag.policy.rules[i].outcome, context,
                         "TARGETING_MATCH", flag.policy.rules[i].id)

------------------------------------------------------------------------------
\* Validation.

Kinds == {"boolean", "string", "number", "json"}

FitsKind(kind, type) == kind = "json" \/ type = kind

ValidCondition(c) ==
  /\ c.negated => c.operator \in Paired
  /\ \/ c.operator = "segment" /\ Trim[c.value] # ""
     \/ c.operator = "exists" /\ c.attribute # ""
     \/ c.operator \in DOMAIN Accepts /\ c.attribute # "" /\ c.value \in Accepts[c.operator]

ValidConditions(match, conditions) ==
  /\ match \in {"all", "any"}
  /\ conditions # <<>>
  /\ \A i \in DOMAIN conditions : ValidCondition(conditions[i])

\* Variant keys are compared, and later allowed in outcomes, without the
\* white space around them; what is stored is the key as it was sent.
ValidVariants(kind, variants) ==
  \A i \in DOMAIN variants :
    /\ Trim[variants[i].key] \notin Reserved(kind) \cup {""}
    /\ FitsKind(kind, variants[i].type)
    /\ \A j \in 1 .. i - 1 : Trim[variants[j].key] # Trim[variants[i].key]

Allowed(kind, variants) ==
  Reserved(kind) \cup {Trim[variants[i].key] : i \in DOMAIN variants}

\* Faulty variant: weights may total less than the scale.
ValidRolloutWithRemainder(rollout, allowed) ==
  /\ \A i \in DOMAIN rollout : rollout[i].variant \in allowed /\ rollout[i].weight > 0
  /\ Cumulative(rollout)[Len(rollout)] <= Scale

ValidRollout(rollout, allowed) ==
  /\ \A i \in DOMAIN rollout : rollout[i].variant \in allowed /\ rollout[i].weight > 0
  /\ Cumulative(rollout)[Len(rollout)] = Scale

ValidOutcome(outcome, allowed, required) ==
  LET hasVariant == Trim[outcome.variant] # ""
      hasRollout == outcome.rollout # <<>>
  IN \/ hasVariant /\ ~hasRollout /\ outcome.variant \in allowed
     \/ ~hasVariant /\ hasRollout /\ ValidRollout(outcome.rollout, allowed)
     \/ ~hasVariant /\ ~hasRollout /\ ~required

ValidRules(rules, allowed) ==
  \A i \in DOMAIN rules :
    /\ Trim[rules[i].id] # ""
    /\ \A j \in 1 .. i - 1 : rules[j].id # rules[i].id
    /\ ValidConditions(rules[i].match, rules[i].conditions)
    /\ ValidOutcome(rules[i].outcome, allowed, TRUE)

ValidFlag(kind, default, variants, policy) ==
  LET allowed == Allowed(kind, variants) IN
    /\ kind \in Kinds
    /\ FitsKind(kind, default)
    /\ ValidVariants(kind, variants)
    /\ ValidRules(policy.rules, allowed)
    /\ ValidOutcome(policy.fallthrough, allowed, FALSE)

ValidSegment(key, segment) ==
  Trim[key] # "" /\ ValidConditions(segment.match, segment.conditions)

PortableConditions(conditions) ==
  \A i \in DOMAIN conditions :
    conditions[i].operator = "regex" => conditions[i].value \in Portable

PortablePolicy(policy) ==
  \A i \in DOMAIN policy.rules : PortableConditions(policy.rules[i].conditions)

ValidDefinition(kind, default, variants, policy) ==
  ValidFlag(kind, default, variants, policy) /\ PortablePolicy(policy)

SegmentReferences(conditions) ==
  {conditions[i].value : i \in {i \in DOMAIN conditions :
     conditions[i].operator = "segment" /\ Trim[conditions[i].value] # ""}}

PolicyReferences(policy) ==
  UNION {SegmentReferences(policy.rules[i].conditions) : i \in DOMAIN policy.rules}

\* Faulty variant: only a segment that names itself is a cycle.
NoDirectCycle(segments) ==
  \A k \in DOMAIN segments : k \notin SegmentReferences(segments[k].conditions)

\* What the visit of ValidateSegmentSet decides: every set of segments has one
\* that references none of the set.
NoCycle(segments) ==
  \A S \in SUBSET DOMAIN segments :
    S # {} => \E k \in S : SegmentReferences(segments[k].conditions) \cap S = {}

\* The visit itself: depth first, it meets no key that it is still visiting.
\* (`visited` only spares it the keys it has finished with.)
VisitFindsNoCycle(segments) ==
  LET visit[visiting \in SUBSET DOMAIN segments] ==
        [k \in DOMAIN segments |->
           /\ k \notin visiting
           /\ \A r \in SegmentReferences(segments[k].conditions) \cap DOMAIN segments :
                visit[visiting \cup {k}][r]]
  IN \A k \in DOMAIN segments : visit[{}][k]

ReferencesKnown(segments) ==
  \A k \in DOMAIN segments : SegmentReferences(segments[k].conditions) \subseteq DOMAIN segments

\* Keys are unique: the set of segments is a function of their keys.
ValidSegmentSet(segments) ==
  /\ \A k \in DOMAIN segments :
       ValidSegment(k, segments[k]) /\ PortableConditions(segments[k].conditions)
  /\ ReferencesKnown(segments)
  /\ NoCycle(segments)

ValidPolicySegments(policy, known) ==
  PortablePolicy(policy) /\ PolicyReferences(policy) \subseteq known

\* Keys in a definition are as resolution compares them, without white space.
TrimmedOutcome(outcome) ==
  /\ outcome.variant # "" => Trim[outcome.variant] # ""
  /\ \A i \in DOMAIN outcome.rollout :
       Trim[outcome.rollout[i].variant] = outcome.rollout[i].variant

Trimmed(variants, policy) ==
  /\ \A i \in DOMAIN variants : Trim[variants[i].key] = variants[i].key
  /\ TrimmedOutcome(policy.fallthrough)
  /\ \A i \in DOMAIN policy.rules : TrimmedOutcome(policy.rules[i].outcome)

------------------------------------------------------------------------------

\* A flag is [kind, default, enabled, variants, policy].
Evaluate(flag, context, segments) ==
  CASE ~(/\ ValidFlag(flag.kind, flag.default, flag.variants, flag.policy)
         /\ \A k \in DOMAIN segments : ValidSegment(k, segments[k])) -> Failure("PARSE_ERROR")
    [] OTHER -> IF flag.enabled THEN EvaluateEnabled(flag, context, segments)
                                ELSE Result("default", "DISABLED", "")

==============================================================================
