----------------------------- MODULE EvaluatedFlag ---------------------------
(***************************************************************************)
(* A flag, the segments of its project and a subject it is evaluated for;  *)
(* the flag is published again with another rollout.  What evaluation and  *)
(* validation promise each other, stated of definitions that are valid or  *)
(* not (internal/evaluation, docs/evaluation.md).                          *)
(***************************************************************************)
EXTENDS Evaluation

CONSTANTS
  Definitions,  \* pairs of a flag and the segments of its project
  Rollouts,     \* rollouts a flag may be published again with
  Contexts,     \* contexts it is evaluated in
  Subjects      \* targeting keys

ASSUME EvaluatedAssumption ==
  /\ \A d \in Definitions : IsFlag(d[1]) /\ IsSegments(d[2])
  /\ \A r \in Rollouts : IsRollout(r)

VARIABLES flag, segments, context

evaluationVars == <<flag, segments, context>>

EvaluationInit ==
  /\ context \in Contexts
  /\ \E d \in Definitions : flag = d[1] /\ segments = d[2]

\* The definition is published again with other weights in its fallthrough.
Republish ==
  /\ \E r \in Rollouts : flag' = [flag EXCEPT !.policy.fallthrough.rollout = r]
  /\ UNCHANGED <<segments, context>>

\* Another subject is evaluated.
NextSubject ==
  /\ \E c \in Contexts : context' = c
  /\ UNCHANGED <<flag, segments>>

EvaluationNext == Republish \/ NextSubject

EvaluationSpec == EvaluationInit /\ [][EvaluationNext]_evaluationVars

------------------------------------------------------------------------------

Accepted ==
  /\ ValidDefinition(flag.kind, flag.default, flag.variants, flag.policy)
  /\ ValidSegmentSet(segments)
  /\ ValidPolicySegments(flag.policy, DOMAIN segments)

\* A definition the validation accepts never evaluates to PARSE_ERROR, for any
\* subject: validation refuses every segment cycle and every rollout that some
\* bucket falls out of.  The exception is a variant key with white space
\* around it: ValidateFlag trims it, variantValue does not (evaluation.go:213,
\* 320), so such a definition is accepted and then fails for every subject.
ValidDefinitionsEvaluate ==
  Accepted /\ Trimmed(flag.variants, flag.policy) =>
    Evaluate(flag, context, segments).error # "PARSE_ERROR"

\* The ways to answer "is the subject in segment k" for all segments at once
\* that agree with the segments' conditions.
Satisfied(segment, member) ==
  LET true(c) == IF c.operator = "segment"
                   THEN (c.value \in DOMAIN member /\ member[c.value]) # c.negated
                   ELSE Holds(c, context)
      holding == {i \in DOMAIN segment.conditions : true(segment.conditions[i])}
  IN IF segment.match = "any" THEN holding # {} ELSE holding = DOMAIN segment.conditions
Memberships ==
  {member \in [DOMAIN segments -> BOOLEAN] :
     \A k \in DOMAIN segments : member[k] = Satisfied(segments[k], member)}

\* The recursive evaluation of segments computes their meaning: whatever it
\* answers without an error is the same in every way to read the conditions
\* as equations, and without a cycle there is one way and no error, however
\* the segments reference each other (matchConditions, matchSegment).  A
\* segment is stored with a key that is not blank; references to a blank one
\* are not followed by the search for cycles.
MembershipAgrees ==
  LET answers == MatchSegment(segments, context) IN
    /\ \A member \in Memberships : \A k \in DOMAIN segments :
         answers[k] # "error" => answers[k] = Answer(member[k])
    /\ (NoCycle(segments) /\ \A k \in DOMAIN segments : Trim[k] # "") =>
         Cardinality(Memberships) = 1 /\ \A k \in DOMAIN segments : answers[k] # "error"

\* The depth-first visit of ValidateSegmentSet refuses exactly the segment sets
\* in which some segments all reference one another (validation.go:49-75).
VisitDecidesCycles == VisitFindsNoCycle(segments) <=> NoCycle(segments)

\* Weights in the range of spec/sdk-config-v1.schema.json:45, which the
\* validation leaves out, and no more of them than a request can carry:
\* larger ones may overflow to the right total.
InSchema(rollout) ==
  /\ \A i \in DOMAIN rollout : rollout[i].weight <= Scale
  /\ Len(rollout) * Scale <= MaxInt

Served(rollout, i) ==
  {b \in 0 .. Scale - 1 :
     LET above == AllocationsAbove(rollout, b) IN above # {} /\ First(above) = i}

\* A rollout that validation accepts serves every bucket, and each allocation
\* serves exactly as many buckets as its weight says: no subject falls out of
\* a rollout and none is counted twice (resolveOutcome, validateOutcome).
WeightsAreShares ==
  LET rollout == flag.policy.fallthrough.rollout IN
    rollout # <<>> /\ ValidRollout(rollout, Allowed(flag.kind, flag.variants)) /\ InSchema(rollout) =>
      /\ \A i \in DOMAIN rollout : Cardinality(Served(rollout, i)) = rollout[i].weight
      /\ \A b \in 0 .. Scale - 1 : \E i \in DOMAIN rollout : b \in Served(rollout, i)

\* docs/evaluation.md:200: increasing a rollout retains the original cohort.
\* It does when one allocation is raised and no other is, and its variant has
\* no other allocation: every subject that was served by it still is, wherever
\* it stands in the rollout.
Subject(s) == [targetingKey |-> s]
FallthroughOnly(f) ==
  /\ ValidFlag(f.kind, f.default, f.variants, f.policy)
  /\ f.policy.rules = <<>> /\ f.policy.fallthrough.bucketBy = ""
RaisedOnly(i, old, new) ==
  /\ \A j \in DOMAIN old : new[j].variant = old[j].variant
  /\ new[i].weight > old[i].weight
  /\ \A j \in DOMAIN old \ {i} :
       new[j].weight <= old[j].weight /\ old[j].variant # old[i].variant
CohortRetained ==
  [][LET old == flag.policy.fallthrough.rollout
         new == flag'.policy.fallthrough.rollout
     IN (/\ FallthroughOnly(flag) /\ FallthroughOnly(flag')
         /\ InSchema(old) /\ InSchema(new) /\ Len(old) = Len(new)) =>
          \A i \in DOMAIN old, s \in Subjects :
            LET served == Result(old[i].variant, "SPLIT", "") IN
              (/\ RaisedOnly(i, old, new)
               /\ Evaluate(flag, Subject(s), segments) = served) =>
                 Evaluate(flag', Subject(s), segments) = served]_evaluationVars

==============================================================================
