------------------------- MODULE EvaluatedFlag_proofs ------------------------
(***************************************************************************)
(* What evaluation and validation promise each other, for every flag,      *)
(* every set of segments and every subject.                                *)
(***************************************************************************)
EXTENDS EvaluatedFlag, Evaluation_proofs

\* The state holds what decoding yields.
EvaluatedShape == IsFlag(flag) /\ IsSegments(segments)

\* It does at first.
LEMMA EvaluatedShapeInit == EvaluationInit => EvaluatedShape
BY EvaluatedAssumption DEF EvaluationInit, EvaluatedShape

\* It does after a flag is published again, with a decoded rollout.
LEMMA EvaluatedShapeStep ==
  EvaluatedShape /\ [EvaluationNext]_evaluationVars => EvaluatedShape'
<1> SUFFICES ASSUME EvaluatedShape, [EvaluationNext]_evaluationVars PROVE EvaluatedShape'
  OBVIOUS
<1>1. CASE Republish
  <2>1. PICK r \in Rollouts : flag' = [flag EXCEPT !.policy.fallthrough.rollout = r]
    BY <1>1 DEF Republish
  <2>2. IsRollout(r)
    BY EvaluatedAssumption
  <2>3. segments' = segments
    BY <1>1 DEF Republish
  <2>4. DOMAIN flag' = DOMAIN flag
        /\ flag'.policy = [flag.policy EXCEPT !.fallthrough.rollout = r]
        /\ flag'.variants = flag.variants
    BY <2>1 DEF EvaluatedShape, IsFlag
  <2>5. DOMAIN flag'.policy = DOMAIN flag.policy
        /\ flag'.policy.rules = flag.policy.rules
        /\ flag'.policy.fallthrough = [flag.policy.fallthrough EXCEPT !.rollout = r]
    BY <2>4 DEF EvaluatedShape, IsFlag
  <2>6. DOMAIN flag'.policy.fallthrough = DOMAIN flag.policy.fallthrough
        /\ flag'.policy.fallthrough.variant = flag.policy.fallthrough.variant
        /\ flag'.policy.fallthrough.rollout = r
    BY <2>5 DEF EvaluatedShape, IsFlag
  <2>7. IsOutcome(flag'.policy.fallthrough)
    BY <2>2, <2>6 DEF EvaluatedShape, IsFlag, IsPolicy, IsOutcome
  <2>8. IsPolicy(flag'.policy)
    BY <2>5, <2>7 DEF EvaluatedShape, IsFlag, IsPolicy
  <2> QED
    BY <2>3, <2>4, <2>5, <2>6, <2>8 DEF EvaluatedShape, IsFlag
<1>2. CASE NextSubject
  BY <1>2 DEF NextSubject, EvaluatedShape
<1>3. CASE UNCHANGED evaluationVars
  BY <1>3 DEF evaluationVars, EvaluatedShape
<1> QED
  BY <1>1, <1>2, <1>3 DEF EvaluationNext

\* It always does.
LEMMA EvaluatedShapeHolds == EvaluationSpec => []EvaluatedShape
BY EvaluatedShapeInit, EvaluatedShapeStep, PTL DEF EvaluationSpec

------------------------------------------------------------------------------

\* A definition the validation accepts never evaluates to PARSE_ERROR.
THEOREM DefinitionsEvaluate == EvaluationSpec => []ValidDefinitionsEvaluate
<1>1. EvaluatedShape => ValidDefinitionsEvaluate
  BY AcceptedEvaluates DEF EvaluatedShape, IsFlag, ValidDefinitionsEvaluate, Accepted
<1> QED
  BY <1>1, EvaluatedShapeHolds, PTL

\* The depth-first visit of ValidateSegmentSet refuses exactly the cycles.
THEOREM VisitIsExact == EvaluationSpec => []VisitDecidesCycles
<1>1. EvaluatedShape => VisitDecidesCycles
  BY VisitDecides DEF EvaluatedShape, VisitDecidesCycles
<1> QED
  BY <1>1, EvaluatedShapeHolds, PTL

------------------------------------------------------------------------------
\* Segment membership.

\* Whether the subject is in segment k, for a way to read the conditions.
In(member, k) == k \in DOMAIN member /\ member[k]

\* An answer to conditions is right when the answers it rests on are.
LEMMA AnswerIsSatisfied ==
  ASSUME NEW segment, IsConditions(segment.conditions), NEW answers \in [Key -> Answers],
         NEW member \in [DOMAIN segments -> BOOLEAN],
         \A i \in DOMAIN segment.conditions :
           LET c == segment.conditions[i] IN
             c.operator = "segment" /\ answers[c.value] # "error" =>
               answers[c.value] = Answer(In(member, c.value)),
         NEW result, result = MatchConditions(segment.match, segment.conditions, context, answers),
         result # "error"
  PROVE  result = Answer(Satisfied(segment, member))
<1> DEFINE conditions == segment.conditions
           true(c) == IF c.operator = "segment"
                        THEN (c.value \in DOMAIN member /\ member[c.value]) # c.negated
                        ELSE Holds(c, context)
           holding == {i \in DOMAIN conditions : true(conditions[i])}
           answer(i) == ConditionMatches(conditions[i], context, answers)
           skip == IF segment.match = "any" THEN "no" ELSE "yes"
<1>1. Satisfied(segment, member)
        = IF segment.match = "any" THEN holding # {} ELSE holding = DOMAIN conditions
  BY DEF Satisfied
<1>2. ASSUME NEW i \in DOMAIN conditions, answer(i) # "error"
      PROVE  answer(i) = Answer(true(conditions[i]))
  <2> DEFINE c == conditions[i]
  <2>1. CASE c.operator = "segment"
    <3>1. c.value \in Key /\ c.negated \in BOOLEAN
      BY <2>1 DEF IsConditions
    <3>2. answer(i) = Flip(answers[c.value], c.negated)
      BY <2>1 DEF ConditionMatches
    <3>3. answers[c.value] # "error"
      BY <1>2, <3>2 DEF Flip
    <3>4. answers[c.value] = Answer(In(member, c.value))
      BY <2>1, <3>3
    <3>5. true(c) <=> (In(member, c.value) # c.negated)
      BY <2>1 DEF In
    <3>6. In(member, c.value) \in BOOLEAN
      BY DEF In
    <3> QED
      BY <3>1, <3>2, <3>4, <3>5, <3>6 DEF Flip, Answer
  <2>2. CASE c.operator # "segment"
    BY <2>2 DEF ConditionMatches
  <2> QED
    BY <2>1, <2>2
<1>3. \/ result = skip /\ \A i \in DOMAIN conditions : answer(i) = skip
      \/ \E i \in DOMAIN conditions : answer(i) # skip /\ result = answer(i)
  BY ConditionDecides DEF IsConditions
<1> HIDE DEF true, answer
<1>4. CASE segment.match = "any"
  <2>1. result = "no" => holding = {}
    BY <1>2, <1>3, <1>4 DEF Answer
  <2>2. result # "no" => holding # {} /\ result = "yes"
    BY <1>2, <1>3, <1>4 DEF Answer
  <2> QED
    BY <1>1, <1>4, <2>1, <2>2 DEF Answer
<1>5. CASE segment.match # "any"
  <2>1. result = "yes" => holding = DOMAIN conditions
    BY <1>2, <1>3, <1>5 DEF Answer
  <2>2. result # "yes" => holding # DOMAIN conditions /\ result = "no"
    BY <1>2, <1>3, <1>5 DEF Answer
  <2> QED
    BY <1>1, <1>5, <2>1, <2>2 DEF Answer
<1> QED
  BY <1>4, <1>5

\* Every answer that is no error is right, in each way to read the conditions.
LEMMA AnswersAgree ==
  ASSUME IsSegments(segments), NEW m, Evaluates(m, segments, context),
         NEW member \in Memberships
  PROVE  \A V \in SUBSET Key, k \in Key :
           m[V][k] # "error" => m[V][k] = Answer(In(member, k))
<1> DEFINE Wrong(V, k) == m[V][k] # "error" /\ m[V][k] # Answer(In(member, k))
           T == {V \in SUBSET Key : \E k \in Key : Wrong(V, k)}
<1> SUFFICES ASSUME T # {} PROVE FALSE
  OBVIOUS
<1>1. PICK V \in T : \A W \in T : V \subseteq W => W = V
  <2>1. T \subseteq SUBSET Key /\ IsFiniteSet(Key)
    BY EvaluationAssumption
  <2> HIDE DEF T
  <2> QED
    BY <2>1, Largest
<1>2. PICK k \in Key : Wrong(V, k)
  BY <1>1
<1>3. V \in SUBSET Key /\ V \cup {k} \in SUBSET Key
  BY <1>1
<1>4. member \in [DOMAIN segments -> BOOLEAN]
  BY DEF Memberships
<1>5. k \in DOMAIN segments
  <2> SUFFICES ASSUME k \notin DOMAIN segments PROVE FALSE
    OBVIOUS
  <2>1. m[V][k] = "no"
    BY <1>3 DEF Evaluates
  <2>2. ~In(member, k)
    BY <1>4 DEF In
  <2> QED
    BY <1>2, <2>1, <2>2 DEF Answer
<1>6. k \notin V
  BY <1>2, <1>3, <1>5 DEF Evaluates
<1>7. m[V][k] = MatchConditions(segments[k].match, segments[k].conditions, context, m[V \cup {k}])
  BY <1>3, <1>5, <1>6 DEF Evaluates
<1>8. V \cup {k} \notin T
  <2> HIDE DEF T
  <2> QED
    BY <1>1, <1>6
<1>9. \A r \in Key : m[V \cup {k}][r] # "error" => m[V \cup {k}][r] = Answer(In(member, r))
  BY <1>3, <1>8
<1>10. IsConditions(segments[k].conditions) /\ m[V \cup {k}] \in [Key -> Answers]
  BY <1>3, <1>5 DEF IsSegments, Evaluates
<1>11. m[V][k] = Answer(Satisfied(segments[k], member))
  <2> DEFINE answers == m[V \cup {k}]
             segment == segments[k]
             result == m[V][k]
  <2>1. \A i \in DOMAIN segment.conditions :
          segment.conditions[i].operator = "segment" => segment.conditions[i].value \in Key
    BY <1>10 DEF IsConditions
  <2>2. /\ answers \in [Key -> Answers] /\ IsConditions(segment.conditions)
        /\ \A r \in Key : answers[r] # "error" => answers[r] = Answer(In(member, r))
        /\ result = MatchConditions(segment.match, segment.conditions, context, answers)
        /\ result # "error"
    BY <1>2, <1>7, <1>9, <1>10
  <2> HIDE DEF answers, segment, result
  <2>3. result = Answer(Satisfied(segment, member))
    BY <1>4, <2>1, <2>2, AnswerIsSatisfied
  <2> QED
    BY <2>3 DEF segment, result
<1>12. member[k] = Satisfied(segments[k], member)
  BY <1>5 DEF Memberships
<1>13. In(member, k) = member[k]
  BY <1>4, <1>5 DEF In
<1> QED
  BY <1>2, <1>11, <1>12, <1>13

\* Without a cycle the answers are one way to read the conditions.
LEMMA AnswersAreMembership ==
  ASSUME IsSegments(segments), NoCycle(segments), NonBlankKeys(segments),
         NEW m, Evaluates(m, segments, context)
  PROVE  [k \in DOMAIN segments |-> m[{}][k] = "yes"] \in Memberships
<1> DEFINE member == [k \in DOMAIN segments |-> m[{}][k] = "yes"]
<1>1. member \in [DOMAIN segments -> BOOLEAN]
  OBVIOUS
<1>2. ASSUME NEW k \in DOMAIN segments
      PROVE  member[k] = Satisfied(segments[k], member)
  <2> DEFINE answers == m[{k}]
             segment == segments[k]
             result == m[{}][k]
  <2>1. k \in Key /\ {k} \in SUBSET Key /\ {} \in SUBSET Key /\ {} \cup {k} = {k}
    BY <1>2 DEF IsSegments
  <2>2. result = MatchConditions(segment.match, segment.conditions, context, answers)
    BY <1>2, <2>1 DEF Evaluates
  <2>3. answers \in [Key -> Answers] /\ IsConditions(segment.conditions)
    BY <1>2, <2>1 DEF Evaluates, IsSegments
  <2>4. \A j : Tree(segments, {}, j)
    BY DEF Tree
  <2>5. result # "error"
    BY <2>1, <2>4, NoErrorWithoutCycle
  <2>6. ASSUME NEW i \in DOMAIN segment.conditions, segment.conditions[i].operator = "segment"
        PROVE  answers[segment.conditions[i].value] = Answer(In(member, segment.conditions[i].value))
    <3> DEFINE r == segment.conditions[i].value
    <3>1. r \in Key
      BY <2>3, <2>6 DEF IsConditions
    <3>2. CASE r \notin DOMAIN segments
      <4> HIDE DEF r
      <4>1. answers[r] = "no"
        BY <2>1, <3>1, <3>2 DEF Evaluates
      <4>2. ~In(member, r)
        BY <3>2 DEF In
      <4> QED
        BY <4>1, <4>2 DEF Answer, r
    <3>3. CASE r \in DOMAIN segments
      <4>1. r \in References(segments, k)
        BY <1>2, <2>6, <3>3, ValueIsReferenced
      <4> HIDE DEF r, member
      <4>2. Tree(segments, {} \cup {k}, r)
        BY <1>2, <2>4, <4>1, TreeSteps
      <4>3. PartOf(segments, segments)
        BY DEF PartOf, References
      <4>4. m[{k}][r] = m[{}][r]
        BY <2>1, <2>4, <3>3, <4>2, <4>3, PartAgrees
      <4>5. m[{}][r] # "error"
        BY <2>1, <2>4, <3>1, NoErrorWithoutCycle
      <4>7. m[{}] \in [Key -> Answers]
        BY <2>1 DEF Evaluates
      <4>6. In(member, r) <=> m[{}][r] = "yes"
        BY <3>3 DEF In, member
      <4> QED
        BY <3>1, <4>4, <4>5, <4>6, <4>7 DEF Answer, Answers, r
    <3> QED
      BY <3>2, <3>3
  <2>7. member[k] <=> result = "yes"
    BY <1>2
  <2> HIDE DEF answers, segment, result, member
  <2>8. result = Answer(Satisfied(segment, member))
    BY <1>1, <2>2, <2>3, <2>5, <2>6, AnswerIsSatisfied
  <2>9. Satisfied(segment, member) \in BOOLEAN /\ member[k] \in BOOLEAN
    BY <1>1, <1>2 DEF Satisfied
  <2> QED
    BY <2>7, <2>8, <2>9 DEF Answer, segment
<1> QED
  BY <1>1, <1>2 DEF Memberships

\* The recursive evaluation of segments computes what their conditions mean.
THEOREM SegmentsMeanTheirConditions == EvaluationSpec => []MembershipAgrees
<1>1. EvaluatedShape => MembershipAgrees
  <2> SUFFICES ASSUME EvaluatedShape PROVE MembershipAgrees
    OBVIOUS
  <2> DEFINE answers == MatchSegment(segments, context)
  <2>1. IsSegments(segments) /\ DOMAIN segments \subseteq Key
    BY DEF EvaluatedShape, IsSegments
  <2>2. PICK m : Evaluates(m, segments, context) /\ answers = m[{}]
    BY <2>1, MatchSegmentEvaluates
  <2>3. {} \in SUBSET Key /\ \A k : Tree(segments, {}, k)
    BY DEF Tree
  <2> HIDE DEF answers
  <2>4. ASSUME NEW member \in Memberships, NEW k \in DOMAIN segments, answers[k] # "error"
        PROVE  answers[k] = Answer(member[k])
    <3>1. answers[k] = Answer(In(member, k))
      BY <2>1, <2>2, <2>3, <2>4, AnswersAgree
    <3>2. In(member, k) = member[k]
      BY <2>4 DEF In, Memberships
    <3> QED
      BY <3>1, <3>2
  <2>5. ASSUME NoCycle(segments), NonBlankKeys(segments)
        PROVE  Cardinality(Memberships) = 1 /\ \A k \in DOMAIN segments : answers[k] # "error"
    <3> DEFINE reading == [k \in DOMAIN segments |-> m[{}][k] = "yes"]
    <3>1. reading \in Memberships
      BY <2>1, <2>2, <2>5, AnswersAreMembership
    <3>2. \A k \in DOMAIN segments : answers[k] # "error"
      BY <2>1, <2>2, <2>3, <2>5, NoErrorWithoutCycle
    <3>3. ASSUME NEW member \in Memberships PROVE member = reading
      <4>1. member \in [DOMAIN segments -> BOOLEAN]
        BY DEF Memberships
      <4>2. \A k \in DOMAIN segments : member[k] = reading[k]
        BY <2>2, <2>4, <3>2, <4>1 DEF Answer
      <4> QED
        BY <4>1, <4>2
    <3> HIDE DEF reading
    <3>4. Memberships = {reading}
      BY <3>1, <3>3
    <3> QED
      BY <3>2, <3>4, FS_Singleton
  <2> QED
    BY <2>4, <2>5 DEF MembershipAgrees, answers, NonBlankKeys
<1> QED
  BY <1>1, EvaluatedShapeHolds, PTL

------------------------------------------------------------------------------
\* Rollouts.

\* A rollout is a sequence of allocations with integer weights.
LEMMA RolloutIsSequence ==
  ASSUME NEW rollout, IsRollout(rollout)
  PROVE  /\ Len(rollout) \in Nat /\ DOMAIN rollout = 1 .. Len(rollout)
         /\ Len(rollout) # 0 => rollout # <<>>
<1> DEFINE allocation == [variant : Key, weight : -MaxInt - 1 .. MaxInt]
<1>1. rollout \in Seq(allocation)
  BY DEF IsRollout
<1> HIDE DEF allocation
<1> QED
  BY <1>1

\* Multiplication is monotonic.
LEMMA TimesGrows ==
  ASSUME NEW a \in Nat, NEW b \in Nat, NEW c \in Nat, a <= b
  PROVE  a * c <= b * c
OBVIOUS

\* A multiple grows by what is multiplied.
LEMMA TimesNext ==
  ASSUME NEW a \in Nat, NEW c \in Nat
  PROVE  (a + 1) * c = a * c + c /\ a * c \in Nat
OBVIOUS

\* Weights in the range of the schema add up without overflow.
LEMMA SumsInRange ==
  ASSUME NEW rollout, IsRollout(rollout), InSchema(rollout),
         \A i \in DOMAIN rollout : rollout[i].weight > 0
  PROVE  /\ Len(rollout) \in Nat /\ DOMAIN rollout = 1 .. Len(rollout)
         /\ \A i \in 1 .. Len(rollout) : rollout[i].weight \in Nat
         /\ Cumulative(rollout)[0] = 0
         /\ \A i \in 0 .. Len(rollout) : Cumulative(rollout)[i] \in Nat
         /\ \A i \in 1 .. Len(rollout) :
              Cumulative(rollout)[i] = Cumulative(rollout)[i - 1] + rollout[i].weight
<1> DEFINE len == Len(rollout)
           sum == Cumulative(rollout)
           weight(i) == rollout[i].weight
           Bounded(n) == sum[n] \in Nat /\ sum[n] <= n * Scale
           T == {n \in Nat : n <= len => Bounded(n)}
           allocation == [variant : Key, weight : -MaxInt - 1 .. MaxInt]
<1>1. Scale \in Nat /\ MaxInt \in Nat
  BY EvaluationAssumption
<1>2. len \in Nat /\ DOMAIN rollout = 1 .. len /\ \A i \in 1 .. len : weight(i) \in Int
  <2>1. \A a \in allocation : a.weight \in Int
    BY <1>1
  <2>2. rollout \in Seq(allocation)
    BY DEF IsRollout
  <2> HIDE DEF allocation
  <2>3. len \in Nat /\ DOMAIN rollout = 1 .. len /\ \A i \in 1 .. len : rollout[i] \in allocation
    BY <2>2
  <2> QED
    BY <2>1, <2>3
<1>3. \A i \in 1 .. len : weight(i) \in Nat /\ weight(i) <= Scale
  BY <1>2 DEF InSchema
<1>4. len * Scale <= MaxInt
  BY DEF InSchema
<1>5. sum[0] = 0 /\ \A i \in 1 .. len : sum[i] = Wrapped(sum[i - 1] + weight(i))
  BY CumulativeSums
<1> HIDE DEF len, sum, weight
<1>6. ASSUME NEW n \in Nat, Bounded(n), n + 1 <= len
      PROVE  sum[n + 1] = sum[n] + weight(n + 1) /\ Bounded(n + 1)
  <2>1. weight(n + 1) \in Nat /\ weight(n + 1) <= Scale /\ n + 1 \in 1 .. len
    BY <1>2, <1>3, <1>6
  <2>2. (n + 1) * Scale = n * Scale + Scale /\ n * Scale \in Nat
    BY <1>1, TimesNext
  <2>3. (n + 1) * Scale <= len * Scale
    <3>1. n + 1 \in Nat /\ \A a, b, c \in Nat : a <= b => a * c <= b * c
      BY TimesGrows
    <3> QED
      BY <1>1, <1>2, <1>6, <3>1
  <2> DEFINE total == sum[n] + weight(n + 1)
             bound == n * Scale
             bound1 == (n + 1) * Scale
             most == len * Scale
  <2>4. total \in Nat /\ total <= bound1 /\ bound1 <= MaxInt
    <3>1. sum[n] \in Nat /\ sum[n] <= bound /\ bound \in Nat
      BY <1>6, <2>2
    <3>2. bound1 = bound + Scale /\ bound1 <= most /\ most <= MaxInt
      BY <1>4, <2>2, <2>3
    <3>3. bound1 \in Nat /\ most \in Nat
      <4>1. \A x, y \in Nat : x * y \in Nat
        BY TimesNext
      <4>2. n + 1 \in Nat
        OBVIOUS
      <4> QED
        BY <1>1, <1>2, <4>1, <4>2
    <3> HIDE DEF bound, bound1, most
    <3> QED
      BY <1>1, <2>1, <3>1, <3>2, <3>3
  <2>5. total \in 0 .. MaxInt
    <3> HIDE DEF total
    <3>1. bound1 \in Nat
      <4>1. \A x, y \in Nat : x * y \in Nat
        BY TimesNext
      <4>2. n + 1 \in Nat
        OBVIOUS
      <4> QED
        BY <1>1, <4>1, <4>2
    <3> HIDE DEF bound1
    <3> QED
      BY <1>1, <2>4, <3>1
  <2>6. sum[n + 1] = Wrapped(sum[(n + 1) - 1] + weight(n + 1))
    BY <1>5, <2>1
  <2>7. sum[n + 1] = total
    BY <2>5, <2>6, WrappedInRange
  <2> QED
    BY <2>4, <2>7
<1>7. \A n \in Nat : n \in T
  <2>1. 0 \in T
    BY <1>1, <1>5
  <2>2. ASSUME NEW n \in Nat, n \in T PROVE n + 1 \in T
    <3> SUFFICES ASSUME n + 1 <= len PROVE Bounded(n + 1)
      OBVIOUS
    <3>1. n <= len
      BY <1>2
    <3> HIDE DEF Bounded
    <3> QED
      BY <1>6, <2>2, <3>1
  <2> HIDE DEF T
  <2> QED
    BY <2>1, <2>2, Induction
<1>8. ASSUME NEW i \in 1 .. len PROVE sum[i] = sum[i - 1] + weight(i)
  <2>1. i - 1 \in Nat /\ (i - 1) + 1 = i /\ i <= len /\ i - 1 <= len
    BY <1>2
  <2>2. Bounded(i - 1)
    BY <1>7, <2>1
  <2> HIDE DEF Bounded
  <2>3. sum[(i - 1) + 1] = sum[i - 1] + weight((i - 1) + 1)
    BY <1>6, <2>1, <2>2
  <2> QED
    BY <2>1, <2>3
<1>9. \A i \in 0 .. len : sum[i] \in Nat
  BY <1>2, <1>7
<1> QED
  BY <1>2, <1>3, <1>5, <1>8, <1>9 DEF len, sum, weight

\* The sums grow along the rollout.
LEMMA SumsIncrease ==
  ASSUME NEW rollout, IsRollout(rollout), InSchema(rollout),
         \A i \in DOMAIN rollout : rollout[i].weight > 0,
         NEW i \in 0 .. Len(rollout), NEW j \in 0 .. Len(rollout), i <= j
  PROVE  Cumulative(rollout)[i] <= Cumulative(rollout)[j]
<1> DEFINE len == Len(rollout)
           sum == Cumulative(rollout)
           T == {n \in Nat : i <= n /\ n <= len => sum[i] <= sum[n]}
<1>1. /\ len \in Nat
      /\ \A n \in 0 .. len : sum[n] \in Nat
      /\ \A n \in 1 .. len : sum[n] = sum[n - 1] + rollout[n].weight /\ rollout[n].weight \in Nat
  BY SumsInRange
<1> HIDE DEF len, sum
<1>2. i \in 0 .. len /\ j \in 0 .. len
  BY DEF len
<1>3. 0 \in T
  BY <1>1, <1>2
<1>4. ASSUME NEW n \in Nat, n \in T PROVE n + 1 \in T
  <2> SUFFICES ASSUME i <= n + 1, n + 1 <= len PROVE sum[i] <= sum[n + 1]
    OBVIOUS
  <2>1. n \in 0 .. len /\ n + 1 \in 1 .. len /\ (n + 1) - 1 = n
    BY <1>1
  <2>2. sum[n + 1] = sum[n] + rollout[n + 1].weight /\ rollout[n + 1].weight \in Nat
    BY <1>1, <2>1
  <2>3. sum[n] \in Nat /\ sum[n] <= sum[n + 1]
    BY <1>1, <2>1, <2>2
  <2>4. CASE i = n + 1
    BY <1>1, <2>1, <2>4
  <2>5. CASE i # n + 1
    <3>1. i <= n /\ n <= len
      BY <1>1, <1>2, <2>5
    <3>2. sum[i] <= sum[n] /\ sum[i] \in Nat /\ sum[n + 1] \in Nat
      BY <1>1, <1>2, <1>4, <2>1, <3>1
    <3> QED
      BY <2>3, <3>2
  <2> QED
    BY <2>4, <2>5
<1>5. j \in T
  <2>1. j \in Nat
    BY <1>1, <1>2
  <2> HIDE DEF T
  <2> QED
    BY <1>3, <1>4, <2>1, Induction
<1> QED
  BY <1>1, <1>2, <1>5 DEF len, sum

\* The buckets an allocation serves lie between the sum before it and its own.
LEMMA ServedBetweenSums ==
  ASSUME NEW rollout, IsRollout(rollout), InSchema(rollout), rollout # <<>>,
         NEW allowed, ValidRollout(rollout, allowed),
         NEW i \in DOMAIN rollout, NEW b \in 0 .. Scale - 1
  PROVE  b \in Served(rollout, i) <=> Cumulative(rollout)[i - 1] <= b /\ b < Cumulative(rollout)[i]
<1> DEFINE len == Len(rollout)
           sum == Cumulative(rollout)
           above == AllocationsAbove(rollout, b)
<1>0. Scale \in Nat
  BY EvaluationAssumption
<1>1. \A n \in DOMAIN rollout : rollout[n].weight > 0
  BY DEF ValidRollout
<1>2. /\ len \in Nat /\ DOMAIN rollout = 1 .. len /\ sum[0] = 0
      /\ \A n \in 0 .. len : sum[n] \in Nat
  BY <1>1, SumsInRange
<1>3. \A m, n \in 0 .. len : m <= n => sum[m] <= sum[n]
  BY <1>1, SumsIncrease
<1>4. /\ First(above) \in above
      /\ \A n \in above : First(above) <= n
      /\ above # {}
  BY AllocationsAboveBucket
<1>5. above = {n \in 1 .. len : b < sum[n]}
  BY <1>2 DEF AllocationsAbove
<1>6. b \in Served(rollout, i) <=> First(above) = i
  BY <1>4 DEF Served
<1> DEFINE first == First(above)
<1> HIDE DEF len, sum, above, first
<1>7. /\ i \in 1 .. len /\ i \in Nat /\ i - 1 \in 0 .. len /\ b \in Nat /\ i \in 0 .. len
      /\ sum[i - 1] \in Nat /\ sum[i] \in Nat
  BY <1>0, <1>2
<1>8. first \in 1 .. len /\ first \in Nat /\ b < sum[first] /\ sum[first] \in Nat
  <2>1. first \in above
    BY <1>4 DEF first
  <2>2. first \in 1 .. len /\ b < sum[first]
    BY <1>5, <2>1
  <2> QED
    BY <1>2, <2>2
<1>9. ASSUME first = i PROVE sum[i - 1] <= b /\ b < sum[i]
  <2>1. CASE i = 1
    BY <1>2, <1>7, <1>8, <1>9, <2>1
  <2>2. CASE i # 1
    <3>1. i - 1 \in 1 .. len /\ ~(i <= i - 1)
      BY <1>2, <1>7, <2>2
    <3>2. i - 1 \notin above
      BY <1>4, <1>9, <3>1 DEF first
    <3>3. ~(b < sum[i - 1])
      BY <1>5, <3>1, <3>2
    <3> QED
      BY <1>7, <1>8, <1>9, <3>3
  <2> QED
    BY <2>1, <2>2
<1>10. ASSUME sum[i - 1] <= b, b < sum[i] PROVE first = i
  <2>1. i \in above
    BY <1>5, <1>7, <1>10
  <2>2. first <= i
    BY <1>4, <2>1 DEF first
  <2>3. ~(first <= i - 1)
    <3> SUFFICES ASSUME first <= i - 1 PROVE FALSE
      OBVIOUS
    <3>1. first \in 0 .. len
      BY <1>2, <1>8
    <3>2. sum[first] <= sum[i - 1]
      BY <1>3, <1>7, <3>1
    <3> QED
      BY <1>7, <1>8, <1>10, <3>2
  <2> QED
    BY <1>7, <1>8, <2>2, <2>3
<1> QED
  BY <1>6, <1>9, <1>10 DEF first, sum, above

\* A rollout that validation accepts serves every bucket once, in the shares of
\* its weights.
THEOREM WeightsShareTheBuckets == EvaluationSpec => []WeightsAreShares
<1>1. EvaluatedShape => WeightsAreShares
  <2> DEFINE rollout == flag.policy.fallthrough.rollout
             allowed == Allowed(flag.kind, flag.variants)
             sum == Cumulative(rollout)
             len == Len(rollout)
  <2> SUFFICES ASSUME EvaluatedShape, rollout # <<>>, ValidRollout(rollout, allowed),
                      InSchema(rollout)
               PROVE  /\ \A i \in DOMAIN rollout : Cardinality(Served(rollout, i)) = rollout[i].weight
                      /\ \A b \in 0 .. Scale - 1 : \E i \in DOMAIN rollout : b \in Served(rollout, i)
    BY DEF WeightsAreShares
  <2>1. IsRollout(rollout)
    BY DEF EvaluatedShape, IsFlag, IsPolicy, IsOutcome
  <2> HIDE DEF rollout, allowed
  <2>2. \A i \in DOMAIN rollout : rollout[i].weight > 0
    BY DEF ValidRollout
  <2>3. /\ len \in Nat /\ DOMAIN rollout = 1 .. len
        /\ \A i \in 1 .. len : rollout[i].weight \in Nat
        /\ \A i \in 0 .. len : sum[i] \in Nat
        /\ \A i \in 1 .. len : sum[i] = sum[i - 1] + rollout[i].weight
    BY <2>1, <2>2, SumsInRange
  <2>4. Scale \in Nat /\ sum[len] = Scale
    BY EvaluationAssumption DEF ValidRollout
  <2>5. \A i \in 0 .. len : sum[i] <= Scale
    <3> TAKE i \in 0 .. len
    <3>1. len \in 0 .. len /\ i <= len
      BY <2>3
    <3>2. sum[i] <= sum[len]
      BY <2>1, <2>2, <3>1, SumsIncrease
    <3> QED
      BY <2>4, <3>2
  <2>6. ASSUME NEW i \in DOMAIN rollout
        PROVE  Cardinality(Served(rollout, i)) = rollout[i].weight
    <3>1. \A b \in 0 .. Scale - 1 : b \in Served(rollout, i) <=> sum[i - 1] <= b /\ b < sum[i]
      BY <2>1, ServedBetweenSums
    <3>2. Served(rollout, i) \subseteq 0 .. Scale - 1
      BY DEF Served
    <3>3. /\ i - 1 \in 0 .. len /\ i \in 0 .. len /\ rollout[i].weight \in Nat
          /\ sum[i] = sum[i - 1] + rollout[i].weight
      BY <2>3
    <3> HIDE DEF sum
    <3>4. /\ sum[i - 1] \in Nat /\ sum[i] \in Nat /\ sum[i] <= Scale
      BY <2>3, <2>5, <3>3
    <3>5. Served(rollout, i) = sum[i - 1] .. sum[i] - 1
      <4> DEFINE lo == sum[i - 1]
                 hi == sum[i]
                 S == Served(rollout, i)
      <4>1. lo \in Nat /\ hi \in Nat /\ hi <= Scale /\ Scale \in Nat
        BY <2>4, <3>4
      <4>2. S \subseteq 0 .. Scale - 1 /\ \A b \in 0 .. Scale - 1 : b \in S <=> lo <= b /\ b < hi
        BY <3>1, <3>2
      <4> HIDE DEF lo, hi, S
      <4>3. \A b \in S : b \in lo .. hi - 1
        BY <4>1, <4>2
      <4>4. \A b \in lo .. hi - 1 : b \in 0 .. Scale - 1 /\ lo <= b /\ b < hi
        BY <4>1
      <4>5. \A b \in lo .. hi - 1 : b \in S
        BY <4>2, <4>4
      <4>6. S = lo .. hi - 1
        BY <4>3, <4>5
      <4> QED
        BY <4>6 DEF lo, hi, S
    <3>6. sum[i - 1] \in Int /\ sum[i] - 1 \in Int
      BY <3>4
    <3>7. Cardinality(sum[i - 1] .. sum[i] - 1)
            = IF sum[i - 1] > sum[i] - 1 THEN 0 ELSE (sum[i] - 1) - sum[i - 1] + 1
      BY <3>6, FS_Interval
    <3> QED
      BY <3>3, <3>4, <3>5, <3>7
  <2>7. ASSUME NEW b \in 0 .. Scale - 1
        PROVE  \E i \in DOMAIN rollout : b \in Served(rollout, i)
    BY <2>1, AllocationsAboveBucket DEF Served
  <2> QED
    BY <2>6, <2>7
<1> QED
  BY <1>1, EvaluatedShapeHolds, PTL

------------------------------------------------------------------------------
\* Raising one allocation.

\* The sums before a raised allocation do not grow, those from it on do not
\* shrink: they end at the same total.
LEMMA RaisedSums ==
  ASSUME NEW old, IsRollout(old), InSchema(old), NEW new, IsRollout(new), InSchema(new),
         NEW allowed, ValidRollout(old, allowed), NEW allowed1, ValidRollout(new, allowed1),
         Len(old) = Len(new), NEW i \in DOMAIN old, RaisedOnly(i, old, new)
  PROVE  /\ Cumulative(new)[i - 1] <= Cumulative(old)[i - 1]
         /\ Cumulative(old)[i] <= Cumulative(new)[i]
<1> DEFINE len == Len(old)
           o == Cumulative(old)
           n == Cumulative(new)
           Before == {k \in Nat : k <= i - 1 => n[k] <= o[k]}
           After == {k \in Nat : k <= len - i => o[len - k] <= n[len - k]}
<1>1. /\ len \in Nat /\ DOMAIN old = 1 .. len /\ o[0] = 0
      /\ \A k \in 1 .. len : old[k].weight \in Nat
      /\ \A k \in 0 .. len : o[k] \in Nat
      /\ \A k \in 1 .. len : o[k] = o[k - 1] + old[k].weight
  BY SumsInRange DEF ValidRollout
<1>2. /\ DOMAIN new = 1 .. len /\ n[0] = 0
      /\ \A k \in 1 .. len : new[k].weight \in Nat
      /\ \A k \in 0 .. len : n[k] \in Nat
      /\ \A k \in 1 .. len : n[k] = n[k - 1] + new[k].weight
  BY SumsInRange DEF ValidRollout
<1>3. o[len] = n[len]
  BY DEF ValidRollout
<1>4. \A k \in 1 .. len : k # i => new[k].weight <= old[k].weight
  BY <1>1 DEF RaisedOnly
<1>5. i \in 1 .. len
  BY <1>1
<1> HIDE DEF len, o, n
<1>6. \A k \in Nat : k \in Before
  <2>1. 0 \in Before
    BY <1>1, <1>2
  <2>2. ASSUME NEW k \in Nat, k \in Before PROVE k + 1 \in Before
    <3> SUFFICES ASSUME k + 1 <= i - 1 PROVE n[k + 1] <= o[k + 1]
      OBVIOUS
    <3>1. k + 1 \in 1 .. len /\ k + 1 # i /\ k \in 0 .. len /\ (k + 1) - 1 = k /\ k <= i - 1
      BY <1>1, <1>5
    <3>2. n[k] <= o[k] /\ n[k] \in Nat /\ o[k] \in Nat
      BY <1>1, <1>2, <2>2, <3>1
    <3>3. /\ n[k + 1] = n[k] + new[k + 1].weight /\ new[k + 1].weight \in Nat
          /\ o[k + 1] = o[k] + old[k + 1].weight /\ old[k + 1].weight \in Nat
      BY <1>1, <1>2, <3>1
    <3>4. new[k + 1].weight <= old[k + 1].weight
      BY <1>4, <3>1
    <3> QED
      BY <3>2, <3>3, <3>4
  <2> HIDE DEF Before
  <2> QED
    BY <2>1, <2>2, Induction
<1>7. \A k \in Nat : k \in After
  <2>1. 0 \in After
    BY <1>1, <1>2, <1>3
  <2>2. ASSUME NEW k \in Nat, k \in After PROVE k + 1 \in After
    <3> SUFFICES ASSUME k + 1 <= len - i PROVE o[len - (k + 1)] <= n[len - (k + 1)]
      OBVIOUS
    <3> DEFINE j == len - k
    <3>1. /\ j \in 1 .. len /\ j # i /\ j - 1 \in 0 .. len /\ len - (k + 1) = j - 1
          /\ k <= len - i /\ j \in 0 .. len
      BY <1>1, <1>5
    <3>2. o[j] <= n[j] /\ n[j - 1] \in Nat /\ o[j - 1] \in Nat
      BY <1>1, <1>2, <2>2, <3>1
    <3> HIDE DEF j
    <3>3. /\ n[j] = n[j - 1] + new[j].weight /\ new[j].weight \in Nat
          /\ o[j] = o[j - 1] + old[j].weight /\ old[j].weight \in Nat
      BY <1>1, <1>2, <3>1
    <3>4. new[j].weight <= old[j].weight
      BY <1>4, <3>1
    <3>5. o[j - 1] <= n[j - 1]
      BY <3>2, <3>3, <3>4
    <3> QED
      BY <3>1, <3>5
  <2> HIDE DEF After
  <2> QED
    BY <2>1, <2>2, Induction
<1>8. n[i - 1] <= o[i - 1]
  <2>1. i - 1 \in Nat
    BY <1>1, <1>5
  <2>2. i - 1 <= i - 1
    BY <2>1
  <2> QED
    BY <1>6, <2>1, <2>2
<1>9. o[i] <= n[i]
  <2>1. len - i \in Nat /\ len - (len - i) = i /\ len - i <= len - i
    BY <1>1, <1>5
  <2> QED
    BY <1>7, <2>1
<1> QED
  BY <1>8, <1>9 DEF o, n

\* So every bucket it served it still serves.
LEMMA RaisedKeepsBuckets ==
  ASSUME NEW old, IsRollout(old), InSchema(old), NEW new, IsRollout(new), InSchema(new),
         NEW allowed, ValidRollout(old, allowed), NEW allowed1, ValidRollout(new, allowed1),
         Len(old) = Len(new), NEW i \in DOMAIN old, RaisedOnly(i, old, new),
         NEW b \in 0 .. Scale - 1, b \in Served(old, i)
  PROVE  i \in DOMAIN new /\ b \in Served(new, i)
<1> DEFINE len == Len(old)
           o == Cumulative(old)
           n == Cumulative(new)
<1>1. len \in Nat /\ DOMAIN old = 1 .. len /\ \A k \in 0 .. len : o[k] \in Nat
  BY SumsInRange DEF ValidRollout
<1>2. DOMAIN new = 1 .. len /\ \A k \in 0 .. len : n[k] \in Nat
  BY SumsInRange DEF ValidRollout
<1>3. i \in 1 .. len /\ i \in 0 .. len /\ i - 1 \in 0 .. len
  BY <1>1
<1>4. old # <<>> /\ new # <<>>
  <2>1. DOMAIN old # {} /\ DOMAIN new # {}
    BY <1>2, <1>3
  <2> QED
    BY <2>1
<1>5. o[i - 1] <= b /\ b < o[i]
  BY <1>4, ServedBetweenSums
<1>6. n[i - 1] <= o[i - 1] /\ o[i] <= n[i]
  BY RaisedSums
<1>7. b \in Nat
  <2>1. Scale \in Nat
    BY EvaluationAssumption
  <2> QED
    BY <2>1
<1>8. /\ o[i - 1] \in Nat /\ o[i] \in Nat /\ n[i - 1] \in Nat /\ n[i] \in Nat
  BY <1>1, <1>2, <1>3
<1>9. n[i - 1] <= b /\ b < n[i]
  <2> HIDE DEF o, n
  <2> QED
    BY <1>5, <1>6, <1>7, <1>8
<1> QED
  BY <1>2, <1>3, <1>4, <1>9, ServedBetweenSums

\* A flag without rules evaluates to its fallthrough, which has a rollout.
LEMMA FallthroughRollout ==
  ASSUME NEW f, FallthroughOnly(f), f.policy.fallthrough.rollout # <<>>, f.enabled,
         NEW set, \A k \in DOMAIN set : ValidSegment(k, set[k]), NEW s
  PROVE  LET outcome == f.policy.fallthrough IN
         Evaluate(f, Subject(s), set) =
           IF outcome.variant # "" THEN Serve(f, outcome.variant, "SPLIT", "")
           ELSE IF s \notin DOMAIN Bucket THEN Failure("INVALID_CONTEXT")
           ELSE Allocate(f, outcome.rollout, Bucket[s], "")
<1> DEFINE outcome == f.policy.fallthrough
           member == MatchSegment(set, Subject(s))
           answers == RuleAnswers(f.policy, Subject(s), member)
<1>1. DecidingRule(answers) = 0
  <2>1. DOMAIN answers = {}
    <3>1. f.policy.rules = <<>>
      BY DEF FallthroughOnly
    <3>2. DOMAIN f.policy.rules = {}
      BY <3>1
    <3> QED
      BY <3>2 DEF RuleAnswers
  <2> HIDE DEF answers
  <2> QED
    BY <2>1 DEF DecidingRule
<1>2. EvaluateEnabled(f, Subject(s), set) = EvaluateFallthrough(f, Subject(s))
  BY <1>1 DEF EvaluateEnabled
<1>3. Evaluate(f, Subject(s), set) = EvaluateFallthrough(f, Subject(s))
  BY <1>2 DEF Evaluate, FallthroughOnly
<1>4. ~OutcomeEmpty(outcome)
  BY DEF OutcomeEmpty
<1>5. EvaluateFallthrough(f, Subject(s)) = ResolveOutcome(f, outcome, Subject(s), "STATIC", "")
  BY <1>4 DEF EvaluateFallthrough
<1>6. DOMAIN Subject(s) = {"targetingKey"} /\ Subject(s)["targetingKey"] = s
  BY DEF Subject
<1>7. outcome.bucketBy = ""
  BY DEF FallthroughOnly
<1>8. ResolveOutcome(f, outcome, Subject(s), "STATIC", "") =
        IF outcome.variant # "" THEN Serve(f, outcome.variant, "SPLIT", "")
        ELSE IF s \notin DOMAIN Bucket THEN Failure("INVALID_CONTEXT")
        ELSE Allocate(f, outcome.rollout, Bucket[s], "")
  <2> HIDE DEF outcome
  <2> QED
    BY <1>6, <1>7 DEF ResolveOutcome, outcome
<1> QED
  BY <1>3, <1>5, <1>8

\* What a rollout serves a bucket is the variant of its allocation.
LEMMA AllocationServes ==
  ASSUME NEW f, NEW rollout, IsRollout(rollout), rollout # <<>>,
         NEW allowed, ValidRollout(rollout, allowed), NEW b \in 0 .. Scale - 1
  PROVE  \E i \in DOMAIN rollout :
           /\ \A j \in DOMAIN rollout : b \in Served(rollout, j) <=> j = i
           /\ Allocate(f, rollout, b, "") = Serve(f, rollout[i].variant, "SPLIT", "")
<1> DEFINE above == AllocationsAbove(rollout, b)
<1>1. above # {} /\ First(above) \in DOMAIN rollout
  BY AllocationsAboveBucket
<1>2. \A j \in DOMAIN rollout : b \in Served(rollout, j) <=> j = First(above)
  BY <1>1 DEF Served
<1>3. Allocate(f, rollout, b, "") = Serve(f, rollout[First(above)].variant, "SPLIT", "")
  BY <1>1 DEF Allocate
<1> QED
  BY <1>1, <1>2, <1>3

\* Increasing a rollout retains the original cohort.
THEOREM RaisingRetainsTheCohort == EvaluationSpec => CohortRetained
<1> DEFINE Kept(f, g, set) ==
             LET old == f.policy.fallthrough.rollout
                 new == g.policy.fallthrough.rollout
             IN (/\ FallthroughOnly(f) /\ FallthroughOnly(g)
                 /\ InSchema(old) /\ InSchema(new) /\ Len(old) = Len(new)) =>
                  \A i \in DOMAIN old, s \in Subjects :
                    LET served == Result(old[i].variant, "SPLIT", "") IN
                      (/\ RaisedOnly(i, old, new)
                       /\ Evaluate(f, Subject(s), set) = served) =>
                         Evaluate(g, Subject(s), set) = served
<1>1. ASSUME EvaluatedShape, EvaluatedShape', [EvaluationNext]_evaluationVars
      PROVE  Kept(flag, flag', segments)
  <2> DEFINE old == flag.policy.fallthrough.rollout
             new == flag'.policy.fallthrough.rollout
  <2>1. IsRollout(old) /\ IsRollout(new)
    BY <1>1 DEF EvaluatedShape, IsFlag, IsPolicy, IsOutcome
  <2>2. SUFFICES ASSUME FallthroughOnly(flag), FallthroughOnly(flag'),
                        InSchema(old), InSchema(new), Len(old) = Len(new),
                        NEW i \in DOMAIN old, NEW s \in Subjects, RaisedOnly(i, old, new),
                        Evaluate(flag, Subject(s), segments) = Result(old[i].variant, "SPLIT", "")
                 PROVE  Evaluate(flag', Subject(s), segments) = Result(old[i].variant, "SPLIT", "")
    OBVIOUS
  <2> DEFINE outcome == flag.policy.fallthrough
             v == old[i].variant
  <2>3. /\ flag'.kind = flag.kind /\ flag'.variants = flag.variants /\ flag'.enabled = flag.enabled
        /\ flag'.policy.fallthrough.variant = outcome.variant
    <3>1. flag' = flag \/ \E r \in Rollouts : flag' = [flag EXCEPT !.policy.fallthrough.rollout = r]
      BY <1>1 DEF EvaluationNext, Republish, NextSubject, evaluationVars
    <3> QED
      BY <1>1, <3>1 DEF EvaluatedShape, IsFlag
  <2>4. /\ Result(v, "SPLIT", "").reason = "SPLIT"
        /\ \A code : Failure(code).reason = "ERROR"
        /\ \A w : Result(w, "DISABLED", "").reason = "DISABLED"
        /\ \A w : Result(w, "SPLIT", "").variant = w
    BY DEF Result, Failure
  <2>5. flag.enabled /\ \A k \in DOMAIN segments : ValidSegment(k, segments[k])
    BY <2>2, <2>4 DEF Evaluate
  <2>6. old # <<>> /\ new # <<>>
    <3>0. i \in DOMAIN old /\ Len(old) = Len(new)
      BY <2>2
    <3> HIDE DEF old, new
    <3>1. Len(old) \in Nat /\ DOMAIN old = 1 .. Len(old)
      BY <2>1, RolloutIsSequence
    <3>2. Len(old) # 0 /\ Len(new) # 0
      BY <3>0, <3>1
    <3> QED
      BY <2>1, <3>2, RolloutIsSequence
  <2>7. Evaluate(flag, Subject(s), segments) =
          IF outcome.variant # "" THEN Serve(flag, outcome.variant, "SPLIT", "")
          ELSE IF s \notin DOMAIN Bucket THEN Failure("INVALID_CONTEXT")
          ELSE Allocate(flag, old, Bucket[s], "")
    BY <2>2, <2>5, <2>6, FallthroughRollout
  <2>8. Evaluate(flag', Subject(s), segments) =
          IF outcome.variant # "" THEN Serve(flag', outcome.variant, "SPLIT", "")
          ELSE IF s \notin DOMAIN Bucket THEN Failure("INVALID_CONTEXT")
          ELSE Allocate(flag', new, Bucket[s], "")
    BY <2>2, <2>3, <2>5, <2>6, FallthroughRollout
  <2>9. \A key : Serve(flag', key, "SPLIT", "") = Serve(flag, key, "SPLIT", "")
    BY <2>3 DEF Serve, HasVariant
  <2>10. CASE outcome.variant # ""
    BY <2>2, <2>7, <2>8, <2>9, <2>10
  <2>11. CASE outcome.variant = ""
    <3>1. s \in DOMAIN Bucket
      BY <2>2, <2>4, <2>7, <2>11
    <3> DEFINE b == Bucket[s]
               allowed == Allowed(flag.kind, flag.variants)
               allowed1 == Allowed(flag'.kind, flag'.variants)
    <3>2. b \in 0 .. Scale - 1
      BY <3>1, EvaluationAssumption
    <3>3. Trim[outcome.variant] = "" /\ Trim[flag'.policy.fallthrough.variant] = ""
      BY <2>3, <2>11, EvaluationAssumption
    <3>4. ValidRollout(old, allowed)
      BY <2>2, <2>6, <3>3 DEF FallthroughOnly, ValidFlag, ValidOutcome
    <3>5. ValidRollout(new, allowed1)
      BY <2>2, <2>6, <3>3 DEF FallthroughOnly, ValidFlag, ValidOutcome
    <3> HIDE DEF old, new, b, allowed, allowed1
    <3>6. PICK j \in DOMAIN old :
            /\ \A n \in DOMAIN old : b \in Served(old, n) <=> n = j
            /\ Allocate(flag, old, b, "") = Serve(flag, old[j].variant, "SPLIT", "")
      BY <2>1, <2>6, <3>2, <3>4, AllocationServes
    <3>7. Serve(flag, old[j].variant, "SPLIT", "") = Result(v, "SPLIT", "")
      BY <2>2, <2>7, <2>11, <3>1, <3>6 DEF b, old
    <3>8. old[j].variant = v
      BY <2>4, <3>7 DEF Serve
    <3>9. j = i
      BY <2>2, <3>8 DEF RaisedOnly
    <3>10. i \in DOMAIN new /\ b \in Served(new, i)
      BY <2>1, <2>2, <3>2, <3>4, <3>5, <3>6, <3>9, RaisedKeepsBuckets
    <3>11. Allocate(flag', new, b, "") = Serve(flag', new[i].variant, "SPLIT", "")
      <4>1. PICK n \in DOMAIN new :
              /\ \A k \in DOMAIN new : b \in Served(new, k) <=> k = n
              /\ Allocate(flag', new, b, "") = Serve(flag', new[n].variant, "SPLIT", "")
        BY <2>1, <2>6, <3>2, <3>5, AllocationServes
      <4>2. n = i
        BY <3>10, <4>1
      <4> QED
        BY <4>1, <4>2
    <3>12. new[i].variant = v
      BY <2>2 DEF RaisedOnly
    <3>13. Allocate(flag', new, b, "") = Result(v, "SPLIT", "")
      BY <2>9, <3>7, <3>8, <3>11, <3>12
    <3> QED
      BY <2>8, <2>11, <3>1, <3>13 DEF b, new
  <2> QED
    BY <2>10, <2>11
<1>2. EvaluatedShape /\ EvaluatedShape' /\ [EvaluationNext]_evaluationVars
        => Kept(flag, flag', segments)
  BY <1>1
<1> QED
  BY <1>2, EvaluatedShapeHolds, PTL DEF EvaluationSpec, CohortRetained

==============================================================================
