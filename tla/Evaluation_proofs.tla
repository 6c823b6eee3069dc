--------------------------- MODULE Evaluation_proofs --------------------------
(***************************************************************************)
(* Lemmas about the evaluation engine: that its recursive evaluations are  *)
(* defined and what they return, whatever the segments reference.          *)
(***************************************************************************)
EXTENDS Evaluation, FiniteSetTheorems, WellFoundedInduction, TLAPS

\* Every nonempty set of natural numbers has a least element.
LEMMA Least ==
  ASSUME NEW T, T \subseteq Nat, T # {}
  PROVE  \E m \in T : \A n \in T : m <= n
<1> DEFINE R == OpToRel(<, Nat)
<1>1. IsWellFoundedOn(R, Nat)
  BY NatLessThanWellFounded
<1>2. \A m, n \in Nat : n < m => <<n, m>> \in R
  BY DEF OpToRel
<1> HIDE DEF R
<1>3. PICK m \in T : \A n \in T : <<n, m>> \notin R
  BY <1>1, WFMin
<1>4. ASSUME NEW n \in T
      PROVE  m <= n
  <2>1. m \in Nat /\ n \in Nat
    OBVIOUS
  <2>2. ~(n < m)
    BY <2>1, <1>2, <1>3
  <2> QED
    BY <2>1, <2>2
<1> QED
  BY <1>4

\* A set of natural numbers closed under successor contains all of them.
LEMMA Induction ==
  ASSUME NEW T, 0 \in T, \A n \in Nat : n \in T => n + 1 \in T
  PROVE  \A n \in Nat : n \in T
<1> SUFFICES ASSUME Nat \ T # {} PROVE FALSE
  OBVIOUS
<1>1. PICK m \in Nat \ T : \A n \in Nat \ T : m <= n
  <2>1. Nat \ T \subseteq Nat
    OBVIOUS
  <2> QED
    BY <2>1, Least
<1>2. m \in Nat /\ m # 0
  BY <1>1
<1>3. m - 1 \in Nat /\ ~(m <= m - 1) /\ (m - 1) + 1 = m
  BY <1>2
<1>4. m - 1 \in T
  BY <1>1, <1>3
<1> QED
  BY <1>1, <1>3, <1>4

\* Of some subsets of a finite set, one is contained in no other.
LEMMA Largest ==
  ASSUME NEW S, IsFiniteSet(S), NEW T, T \subseteq SUBSET S, T # {}
  PROVE  \E V \in T : \A W \in T : V \subseteq W => W = V
<1> DEFINE size(V) == Cardinality(S \ V)
           sizes == {size(V) : V \in T}
<1>1. \A V \in T : IsFiniteSet(S \ V) /\ size(V) \in Nat
  BY FS_Subset, FS_CardinalityType
<1>2. PICK m \in sizes : \A n \in sizes : m <= n
  <2> HIDE DEF size
  <2>1. sizes \subseteq Nat /\ sizes # {}
    BY <1>1
  <2> HIDE DEF sizes
  <2> QED
    BY <2>1, Least
<1>3. PICK V \in T : m = size(V)
  BY <1>2
<1>4. ASSUME NEW W \in T, V \subseteq W, W # V
      PROVE  FALSE
  <2>1. S \ W \subseteq S \ V /\ S \ W # S \ V
    BY <1>4
  <2>2. size(W) < size(V)
    BY <1>1, <2>1, FS_Subset
  <2>3. size(V) \in Nat /\ size(W) \in Nat /\ size(W) \in sizes
    BY <1>1
  <2>4. size(V) <= size(W)
    BY <1>2, <1>3, <2>3
  <2> HIDE DEF size
  <2> QED
    BY <2>2, <2>3, <2>4
<1> QED
  BY <1>4

\* F[V][f], the value for V, takes from f only values for larger sets.
Recursion(S, D, F) ==
  /\ F \in [SUBSET S -> [[SUBSET S -> D] -> D]]
  /\ \A V \in SUBSET S : \A g, h \in [SUBSET S -> D] :
       (\A W \in SUBSET S : V \subseteq W /\ W # V => g[W] = h[W]) => F[V][g] = F[V][h]

IsFixpoint(S, D, F, f) == f \in [SUBSET S -> D] /\ \A V \in SUBSET S : f[V] = F[V][f]

\* A function on the subsets of a finite set may be defined by such a recursion.
LEMMA RecursionOnSubsets ==
  ASSUME NEW S, IsFiniteSet(S), NEW D, D # {}, NEW F, Recursion(S, D, F)
  PROVE  \E f : IsFixpoint(S, D, F, f)
<1> DEFINE size(V) == Cardinality(S \ V)
           Upto(n, f) == \A V \in SUBSET S : size(V) < n => f[V] = F[V][f]
           good == {n \in Nat : \E f \in [SUBSET S -> D] : Upto(n, f)}
<1>0. \A V \in SUBSET S : IsFiniteSet(S \ V) /\ size(V) < Cardinality(S) + 1
  <2> TAKE V \in SUBSET S
  <2>1. IsFiniteSet(S \ V) /\ Cardinality(S \ V) <= Cardinality(S)
    BY FS_Subset
  <2>2. Cardinality(S \ V) \in Nat /\ Cardinality(S) \in Nat
    BY <2>1, FS_CardinalityType
  <2> QED
    BY <2>1, <2>2
<1>1. \A V \in SUBSET S : size(V) \in Nat
  BY <1>0, FS_CardinalityType
<1>2. \A V, W \in SUBSET S : V \subseteq W /\ W # V => size(W) < size(V)
  <2>1. SUFFICES ASSUME NEW V \in SUBSET S, NEW W \in SUBSET S, V \subseteq W, W # V
                 PROVE  size(W) < size(V)
    OBVIOUS
  <2>2. S \ W \subseteq S \ V /\ S \ W # S \ V
    BY <2>1
  <2>3. /\ Cardinality(S \ W) <= Cardinality(S \ V)
        /\ Cardinality(S \ W) # Cardinality(S \ V)
    BY <1>0, <2>2, FS_Subset
  <2>4. Cardinality(S \ W) \in Nat /\ Cardinality(S \ V) \in Nat
    BY <1>1
  <2> QED
    BY <2>3, <2>4
<1> HIDE DEF size
<1>3. \E f \in [SUBSET S -> D] : Upto(0, f)
  <2>1. PICK d \in D : TRUE
    OBVIOUS
  <2>2. [V \in SUBSET S |-> d] \in [SUBSET S -> D]
    OBVIOUS
  <2>3. Upto(0, [V \in SUBSET S |-> d])
    BY <1>1
  <2> QED
    BY <2>2, <2>3
<1>4. ASSUME NEW n \in Nat, NEW f \in [SUBSET S -> D], Upto(n, f)
      PROVE  \E g \in [SUBSET S -> D] : Upto(n + 1, g)
  <2> DEFINE g == [V \in SUBSET S |-> IF size(V) < n THEN f[V] ELSE F[V][f]]
  <2>1. g \in [SUBSET S -> D]
    BY DEF Recursion
  <2>2. ASSUME NEW V \in SUBSET S, size(V) < n + 1
        PROVE  g[V] = F[V][g]
    <3>1. \A W \in SUBSET S : V \subseteq W /\ W # V => size(W) < n
      BY <1>1, <1>2, <2>2
    <3>2. \A W \in SUBSET S : V \subseteq W /\ W # V => g[W] = f[W]
      BY <3>1
    <3> HIDE DEF g
    <3>3. F[V][g] = F[V][f]
      BY <2>1, <3>2 DEF Recursion
    <3> USE DEF g
    <3>4. CASE size(V) < n
      <4>1. g[V] = f[V]
        BY <3>4
      <4>2. f[V] = F[V][f]
        BY <3>4, <1>4
      <4> QED
        BY <4>1, <4>2, <3>3
    <3>5. CASE ~(size(V) < n)
      BY <3>5, <3>3
    <3> QED
      BY <3>4, <3>5
  <2>3. Upto(n + 1, g)
    BY <2>2
  <2> QED
    BY <2>1, <2>3
<1>5. \A n \in Nat : n \in good
  <2> HIDE DEF Upto
  <2>1. 0 \in good
    BY <1>3
  <2>2. ASSUME NEW n \in Nat, n \in good
        PROVE  n + 1 \in good
    <3>1. PICK f \in [SUBSET S -> D] : Upto(n, f)
      BY <2>2
    <3>2. \E g \in [SUBSET S -> D] : Upto(n + 1, g)
      BY <1>4, <3>1
    <3> QED
      BY <3>2
  <2> HIDE DEF good
  <2> QED
    BY <2>1, <2>2, Induction
<1>6. PICK f \in [SUBSET S -> D] : Upto(Cardinality(S) + 1, f)
  <2>1. Cardinality(S) + 1 \in Nat
    BY FS_CardinalityType
  <2> HIDE DEF Upto
  <2> QED
    BY <1>5, <2>1
<1> QED
  BY <1>0, <1>6 DEF IsFixpoint

------------------------------------------------------------------------------
\* Conditions and segments.

Answers == {"yes", "no", "error"}

\* A nonempty set of natural numbers contains its first element, and none before.
LEMMA FirstIsLeast ==
  ASSUME NEW T, T \subseteq Nat, T # {}
  PROVE  First(T) \in T /\ \A i \in T : First(T) <= i
<1>1. \E i \in T : \A j \in T : i <= j
  BY Least
<1> QED
  BY <1>1 DEF First

\* The answer to a list of conditions is that of one which decides, or that no
\* condition does.
LEMMA ConditionDecides ==
  ASSUME NEW match, NEW conditions, DOMAIN conditions \subseteq Nat, NEW context, NEW member
  PROVE  LET skip == IF match = "any" THEN "no" ELSE "yes"
             answer(i) == ConditionMatches(conditions[i], context, member)
             result == MatchConditions(match, conditions, context, member)
         IN \/ result = skip /\ \A i \in DOMAIN conditions : answer(i) = skip
            \/ \E i \in DOMAIN conditions : answer(i) # skip /\ result = answer(i)
<1> DEFINE skip == IF match = "any" THEN "no" ELSE "yes"
           answer(i) == ConditionMatches(conditions[i], context, member)
           deciding == {i \in DOMAIN conditions : answer(i) # skip}
           result == MatchConditions(match, conditions, context, member)
<1>1. result = IF deciding = {} THEN skip ELSE answer(First(deciding))
  BY DEF MatchConditions
<1>2. CASE deciding = {}
  BY <1>1, <1>2
<1>3. CASE deciding # {}
  <2>1. First(deciding) \in deciding
    <3>1. deciding \subseteq Nat
      OBVIOUS
    <3> HIDE DEF deciding
    <3> QED
      BY <1>3, <3>1, FirstIsLeast
  <2> QED
    BY <1>1, <1>3, <2>1
<1> QED
  BY <1>2, <1>3

\* A condition is answered with yes, no or an error.
LEMMA ConditionMatchesType ==
  ASSUME NEW c, NEW context, NEW member \in [Key -> Answers],
         c.operator = "segment" => c.value \in Key
  PROVE  ConditionMatches(c, context, member) \in Answers
BY DEF ConditionMatches, Flip, Answer, Answers

\* A list of conditions is answered with yes, no or an error.
LEMMA MatchConditionsType ==
  ASSUME NEW match, NEW conditions, IsConditions(conditions), NEW context,
         NEW member \in [Key -> Answers]
  PROVE  MatchConditions(match, conditions, context, member) \in Answers
<1>1. \A i \in DOMAIN conditions : ConditionMatches(conditions[i], context, member) \in Answers
  BY ConditionMatchesType DEF IsConditions
<1>2. DOMAIN conditions \subseteq Nat
  BY DEF IsConditions
<1> QED
  BY <1>1, <1>2, ConditionDecides DEF Answers

\* m[V] answers for each segment key while the segments in V are being evaluated.
Evaluates(m, segments, context) ==
  /\ m \in [SUBSET Key -> [Key -> Answers]]
  /\ \A V \in SUBSET Key, k \in Key :
       m[V][k] = IF k \notin DOMAIN segments THEN "no"
                 ELSE IF k \in V THEN "error"
                 ELSE MatchConditions(segments[k].match, segments[k].conditions, context,
                                      m[V \cup {k}])

\* The recursion of matchSegment ends, for cycles of segments too, since it
\* carries the segments it is evaluating.
LEMMA MatchSegmentEvaluates ==
  ASSUME NEW segments, IsSegments(segments), NEW context
  PROVE  \E m : Evaluates(m, segments, context) /\ MatchSegment(segments, context) = m[{}]
<1> DEFINE D == [Key -> Answers]
           body(V, g) ==
             [k \in Key |->
                IF k \notin DOMAIN segments THEN "no"
                ELSE IF k \in V THEN "error"
                ELSE MatchConditions(segments[k].match, segments[k].conditions, context,
                                     g[V \cup {k}])]
           F == [V \in SUBSET Key |-> [g \in [SUBSET Key -> D] |-> body(V, g)]]
           match == CHOOSE g : g = [V \in SUBSET Key |-> body(V, g)]
<1>1. ASSUME NEW V \in SUBSET Key, NEW g,
             \A k \in Key : k \notin V => g[V \cup {k}] \in D
      PROVE  body(V, g) \in D
  <2>1. ASSUME NEW k \in Key, k \in DOMAIN segments, k \notin V
        PROVE  MatchConditions(segments[k].match, segments[k].conditions, context,
                               g[V \cup {k}]) \in Answers
    <3>1. g[V \cup {k}] \in [Key -> Answers]
      BY <1>1, <2>1
    <3>2. IsConditions(segments[k].conditions)
      BY <2>1 DEF IsSegments
    <3> QED
      BY <3>1, <3>2, MatchConditionsType
  <2> QED
    BY <2>1 DEF Answers
<1>2. F \in [SUBSET Key -> [[SUBSET Key -> D] -> D]]
  <2>1. \A V \in SUBSET Key, g \in [SUBSET Key -> D], k \in Key : g[V \cup {k}] \in D
    OBVIOUS
  <2> HIDE DEF body, D
  <2> QED
    BY <1>1, <2>1
<1>3. \A V \in SUBSET Key : \A g, h \in [SUBSET Key -> D] :
        (\A W \in SUBSET Key : V \subseteq W /\ W # V => g[W] = h[W]) => F[V][g] = F[V][h]
  <2> SUFFICES ASSUME NEW V \in SUBSET Key,
                      NEW g \in [SUBSET Key -> D], NEW h \in [SUBSET Key -> D],
                      \A W \in SUBSET Key : V \subseteq W /\ W # V => g[W] = h[W]
               PROVE  F[V][g] = F[V][h]
    OBVIOUS
  <2>1. \A k \in Key : k \notin V => g[V \cup {k}] = h[V \cup {k}]
    OBVIOUS
  <2>2. body(V, g) = body(V, h)
    BY <2>1
  <2> HIDE DEF body, D
  <2> QED
    BY <2>2
<1>4. D # {}
  <2>1. [k \in Key |-> "no"] \in D
    BY DEF Answers
  <2> QED
    BY <2>1
<1>5. PICK m \in [SUBSET Key -> D] : \A V \in SUBSET Key : m[V] = F[V][m]
  <2>1. IsFiniteSet(Key)
    BY EvaluationAssumption
  <2> HIDE DEF F, D
  <2>2. Recursion(Key, D, F)
    BY <1>2, <1>3 DEF Recursion
  <2>3. PICK m : IsFixpoint(Key, D, F, m)
    BY <1>4, <2>1, <2>2, RecursionOnSubsets
  <2>4. m \in [SUBSET Key -> D]
    BY <2>3 DEF IsFixpoint
  <2>5. \A V \in SUBSET Key : m[V] = F[V][m]
    BY <2>3 DEF IsFixpoint
  <2> QED
    BY <2>4, <2>5
<1>6. \A V \in SUBSET Key : m[V] = body(V, m)
  <2> HIDE DEF body, D
  <2> QED
    BY <1>5
<1>7. m = [V \in SUBSET Key |-> body(V, m)]
  <2> HIDE DEF body
  <2> QED
    BY <1>6
<1>8. match = [V \in SUBSET Key |-> body(V, match)]
  <2> HIDE DEF body
  <2> QED
    BY <1>7
<1>9. match \in [SUBSET Key -> D]
  <2> DEFINE untyped == {V \in SUBSET Key : match[V] \notin D}
  <2> SUFFICES ASSUME untyped # {} PROVE FALSE
    BY <1>8
  <2>1. PICK V \in untyped : \A W \in untyped : V \subseteq W => W = V
    <3>1. untyped \subseteq SUBSET Key /\ IsFiniteSet(Key)
      BY EvaluationAssumption
    <3> HIDE DEF untyped
    <3> QED
      BY <3>1, Largest
  <2>2. \A k \in Key : k \notin V => match[V \cup {k}] \in D
    <3> HIDE DEF match, D
    <3> QED
      BY <2>1
  <2>3. match[V] = body(V, match)
    <3> HIDE DEF match, body
    <3> QED
      BY <1>8
  <2> HIDE DEF match, body, D
  <2> QED
    BY <1>1, <2>2, <2>3
<1>10. MatchSegment(segments, context) = match[{}]
  BY DEF MatchSegment
<1>11. Evaluates(match, segments, context)
  <2> HIDE DEF match
  <2>1. \A V \in SUBSET Key : match[V] = body(V, match)
    <3> HIDE DEF body
    <3> QED
      BY <1>8
  <2> QED
    BY <1>9, <2>1 DEF Evaluates
<1> QED
  BY <1>10, <1>11

\* visit[V][k]: the visit of k meets no key that it is still visiting.
Visits(visit, segments) ==
  \A V \in SUBSET DOMAIN segments, k \in DOMAIN segments :
    visit[V][k] <=>
      /\ k \notin V
      /\ \A r \in SegmentReferences(segments[k].conditions) \cap DOMAIN segments :
           visit[V \cup {k}][r]

\* The depth-first visit of ValidateSegmentSet ends.
LEMMA VisitEnds ==
  ASSUME NEW segments, IsSegments(segments)
  PROVE  \E visit : /\ Visits(visit, segments)
                    /\ VisitFindsNoCycle(segments) <=> \A k \in DOMAIN segments : visit[{}][k]
<1> DEFINE S == DOMAIN segments
           D == [S -> BOOLEAN]
           refs(k) == SegmentReferences(segments[k].conditions) \cap S
           body(V, g) == [k \in S |-> k \notin V /\ \A r \in refs(k) : g[V \cup {k}][r]]
           F == [V \in SUBSET S |-> [g \in [SUBSET S -> D] |-> body(V, g)]]
           visit == CHOOSE g : g = [V \in SUBSET S |-> body(V, g)]
<1>1. \A V, g : body(V, g) \in D
  OBVIOUS
<1>2. Recursion(S, D, F)
  <2>1. F \in [SUBSET S -> [[SUBSET S -> D] -> D]]
    <3> HIDE DEF body, D, S
    <3> QED
      BY <1>1
  <2>2. ASSUME NEW V \in SUBSET S, NEW g \in [SUBSET S -> D], NEW h \in [SUBSET S -> D],
               \A W \in SUBSET S : V \subseteq W /\ W # V => g[W] = h[W]
        PROVE  F[V][g] = F[V][h]
    <3>1. \A k \in S : k \notin V => g[V \cup {k}] = h[V \cup {k}]
      BY <2>2
    <3>2. body(V, g) = body(V, h)
      <4> HIDE DEF refs, S
      <4> QED
        BY <3>1
    <3> HIDE DEF body, D
    <3> QED
      BY <3>2
  <2> HIDE DEF F, D, S
  <2> QED
    BY <2>1, <2>2 DEF Recursion
<1>3. \E m : m = [V \in SUBSET S |-> body(V, m)]
  <2>1. IsFiniteSet(S)
    BY EvaluationAssumption, FS_Subset DEF IsSegments
  <2>2. D # {}
    <3>1. [k \in S |-> TRUE] \in D
      OBVIOUS
    <3> QED
      BY <3>1
  <2> HIDE DEF F, D, S
  <2>3. PICK m : IsFixpoint(S, D, F, m)
    BY <1>2, <2>1, <2>2, RecursionOnSubsets
  <2>4. m \in [SUBSET S -> D] /\ \A V \in SUBSET S : m[V] = F[V][m]
    BY <2>3 DEF IsFixpoint
  <2> HIDE DEF body
  <2>5. \A V \in SUBSET S : m[V] = body(V, m)
    BY <2>4 DEF F
  <2> QED
    BY <2>4, <2>5
<1>4. visit = [V \in SUBSET S |-> body(V, visit)]
  <2> HIDE DEF body, S
  <2> QED
    BY <1>3
<1>5. \A V \in SUBSET S : visit[V] = body(V, visit)
  <2> HIDE DEF visit, body, S
  <2> QED
    BY <1>4
<1>6. VisitFindsNoCycle(segments) <=> \A k \in S : visit[{}][k]
  BY Zenon DEF VisitFindsNoCycle
<1>7. Visits(visit, segments)
  <2> HIDE DEF visit
  <2> QED
    BY <1>5, Zenon DEF Visits
<1> QED
  BY <1>6, <1>7

------------------------------------------------------------------------------
\* References between segments.

References(segments, k) ==
  SegmentReferences(segments[k].conditions) \cap DOMAIN segments

ClosedUnder(segments, C) ==
  C \subseteq DOMAIN segments /\ \A j \in C : References(segments, j) \subseteq C

\* The segments in every closed set that contains `roots`.
Closure(segments, roots) ==
  {k \in DOMAIN segments :
     \A C \in SUBSET DOMAIN segments :
       roots \cap DOMAIN segments \subseteq C /\ ClosedUnder(segments, C) => k \in C}

\* The segments k leads to.
Reach(segments, k) == Closure(segments, References(segments, k))

\* A closure contains its roots and is closed.
LEMMA ClosureIsClosed ==
  ASSUME NEW segments, NEW roots
  PROVE  /\ roots \cap DOMAIN segments \subseteq Closure(segments, roots)
         /\ ClosedUnder(segments, Closure(segments, roots))
<1>1. \A k : References(segments, k) \subseteq DOMAIN segments
  BY DEF References
<1> QED
  BY <1>1 DEF Closure, ClosedUnder

\* A closure is contained in every closed set that contains its roots.
LEMMA ClosureIsLeast ==
  ASSUME NEW segments, NEW roots, NEW C,
         roots \cap DOMAIN segments \subseteq C, ClosedUnder(segments, C)
  PROVE  Closure(segments, roots) \subseteq C
BY DEF Closure, ClosedUnder

\* A segment leads to what it references and to what those lead to.
LEMMA ReachSteps ==
  ASSUME NEW segments, NEW k, NEW r \in References(segments, k)
  PROVE  /\ r \in Reach(segments, k)
         /\ \A v : k \in Reach(segments, v) => r \in Reach(segments, v)
<1>1. r \in References(segments, k) \cap DOMAIN segments
  BY DEF References
<1> QED
  BY <1>1, ClosureIsClosed DEF Reach, ClosedUnder

\* Without a cycle no segment leads to itself.
LEMMA ReachIsAcyclic ==
  ASSUME NEW segments, NoCycle(segments), NEW k \in DOMAIN segments
  PROVE  k \notin Reach(segments, k)
<1> DEFINE refs(j) == References(segments, j)
           reach(j) == Reach(segments, j)
           S == {j \in reach(k) : k \in reach(j)}
<1> SUFFICES ASSUME k \in reach(k) PROVE FALSE
  OBVIOUS
<1>1. S \in SUBSET DOMAIN segments /\ S # {}
  BY DEF Reach, Closure
<1>2. PICK j \in S : SegmentReferences(segments[j].conditions) \cap S = {}
  BY <1>1 DEF NoCycle
<1>3. refs(j) \cap S = {}
  BY <1>2 DEF References
<1>4. refs(j) \subseteq reach(k)
  <2> HIDE DEF refs, reach
  <2> QED
    BY <1>2, ReachSteps DEF refs, reach
<1>5. \A r \in refs(j) : k \notin reach(r)
  <2> HIDE DEF refs, reach
  <2> QED
    BY <1>3, <1>4
<1>6. k \notin refs(j)
  <2> HIDE DEF refs, reach
  <2> QED
    BY <1>5
<1> DEFINE C == refs(j) \cup UNION {reach(r) : r \in refs(j)}
<1>7. ClosedUnder(segments, C)
  <2>1. C \subseteq DOMAIN segments
    BY DEF References, Reach, Closure
  <2>2. ASSUME NEW x \in C, NEW y \in refs(x)
        PROVE  y \in C
    <3>1. CASE x \in refs(j)
      <4>1. y \in reach(x)
        BY ReachSteps
      <4> HIDE DEF refs, reach
      <4> QED
        BY <3>1, <4>1
    <3>2. ASSUME NEW r \in refs(j), x \in reach(r)
          PROVE  y \in C
      <4>1. y \in reach(r)
        BY <3>2, ReachSteps
      <4> HIDE DEF refs, reach
      <4> QED
        BY <4>1
    <3> HIDE DEF refs, reach
    <3> QED
      BY <2>2, <3>1, <3>2
  <2> HIDE DEF C
  <2> QED
    BY <2>1, <2>2 DEF ClosedUnder
<1>8. reach(j) \subseteq C
  <2>1. refs(j) \cap DOMAIN segments \subseteq C
    <3> HIDE DEF refs, reach
    <3> QED
      OBVIOUS
  <2> HIDE DEF C, refs
  <2> QED
    BY <1>7, <2>1, ClosureIsLeast DEF Reach, refs
<1> HIDE DEF refs, reach
<1> QED
  BY <1>2, <1>5, <1>6, <1>8

\* Every segment being visited leads to k.
Tree(segments, V, k) == \A v \in V : v \in DOMAIN segments /\ k \in Reach(segments, v)

\* Going on from k to a reference of k keeps that so, and k is not among them.
LEMMA TreeSteps ==
  ASSUME NEW segments, NoCycle(segments), NEW V, NEW k \in DOMAIN segments,
         Tree(segments, V, k)
  PROVE  /\ k \notin V
         /\ \A r \in References(segments, k) : Tree(segments, V \cup {k}, r)
BY ReachIsAcyclic, ReachSteps DEF Tree

\* The visit finds no cycle when there is none.
LEMMA VisitPasses ==
  ASSUME NEW segments, IsSegments(segments), NoCycle(segments),
         NEW visit, Visits(visit, segments)
  PROVE  \A k \in DOMAIN segments : visit[{}][k]
<1> DEFINE S == DOMAIN segments
           T == {V \in SUBSET S : \E k \in S : Tree(segments, V, k) /\ ~visit[V][k]}
<1>1. T = {}
  <2> SUFFICES ASSUME T # {} PROVE FALSE
    OBVIOUS
  <2>1. PICK V \in T : \A W \in T : V \subseteq W => W = V
    <3>1. T \subseteq SUBSET S
      OBVIOUS
    <3>2. IsFiniteSet(S)
      BY EvaluationAssumption, FS_Subset DEF IsSegments
    <3> HIDE DEF T, S
    <3> QED
      BY <3>1, <3>2, Largest
  <2>2. PICK k \in S : Tree(segments, V, k) /\ ~visit[V][k]
    BY <2>1
  <2>3. k \notin V
    BY <2>2, TreeSteps
  <2>4. V \in SUBSET S /\ V \cup {k} \in SUBSET S
    BY <2>1
  <2>5. PICK r \in References(segments, k) : ~visit[V \cup {k}][r]
    BY <2>2, <2>3, <2>4 DEF Visits, References
  <2>6. Tree(segments, V \cup {k}, r) /\ r \in S
    BY <2>2, <2>5, TreeSteps DEF References
  <2>7. V \cup {k} \in T
    BY <2>4, <2>5, <2>6
  <2> HIDE DEF T
  <2> QED
    BY <2>1, <2>3, <2>7
<1>2. \A k \in S : Tree(segments, {}, k)
  BY DEF Tree
<1> QED
  BY <1>1, <1>2

\* The visit finds a cycle when there is one.
LEMMA VisitRefuses ==
  ASSUME NEW segments, IsSegments(segments), ~NoCycle(segments),
         NEW visit, Visits(visit, segments)
  PROVE  \E k \in DOMAIN segments : ~visit[{}][k]
<1>1. PICK S \in SUBSET DOMAIN segments :
        S # {} /\ \A k \in S : SegmentReferences(segments[k].conditions) \cap S # {}
  BY DEF NoCycle
<1> DEFINE T == {V \in SUBSET DOMAIN segments : \E k \in S : visit[V][k]}
<1>2. T = {}
  <2> SUFFICES ASSUME T # {} PROVE FALSE
    OBVIOUS
  <2>1. PICK V \in T : \A W \in T : V \subseteq W => W = V
    <3>1. T \subseteq SUBSET DOMAIN segments
      OBVIOUS
    <3>2. IsFiniteSet(DOMAIN segments)
      BY EvaluationAssumption, FS_Subset DEF IsSegments
    <3> HIDE DEF T
    <3> QED
      BY <3>1, <3>2, Largest
  <2>2. PICK k \in S : visit[V][k]
    BY <2>1
  <2>3. k \notin V /\ \A r \in SegmentReferences(segments[k].conditions) \cap DOMAIN segments :
                        visit[V \cup {k}][r]
    BY <2>1, <2>2 DEF Visits
  <2>4. PICK r \in SegmentReferences(segments[k].conditions) : r \in S
    BY <1>1
  <2>5. V \cup {k} \in T
    BY <2>1, <2>3, <2>4
  <2> HIDE DEF T
  <2> QED
    BY <2>1, <2>3, <2>5
<1> QED
  BY <1>1, <1>2

\* The visit finds a cycle exactly when some segments all reference one another.
LEMMA VisitDecides ==
  ASSUME NEW segments, IsSegments(segments)
  PROVE  VisitFindsNoCycle(segments) <=> NoCycle(segments)
BY VisitEnds, VisitPasses, VisitRefuses

------------------------------------------------------------------------------
\* What evaluation answers when no segments reference one another in a cycle.

NonBlankKeys(segments) == \A k \in DOMAIN segments : Trim[k] # ""

\* An answer depends only on the answers for the segments that are referenced.
LEMMA MatchConditionsSame ==
  ASSUME NEW match, NEW conditions, DOMAIN conditions \subseteq Nat, NEW context, NEW g, NEW h,
         \A i \in DOMAIN conditions :
           conditions[i].operator = "segment" => g[conditions[i].value] = h[conditions[i].value]
  PROVE  MatchConditions(match, conditions, context, g) = MatchConditions(match, conditions, context, h)
<1> DEFINE skip == IF match = "any" THEN "no" ELSE "yes"
           answer(m, i) == ConditionMatches(conditions[i], context, m)
           deciding(m) == {i \in DOMAIN conditions : answer(m, i) # skip}
<1>1. \A i \in DOMAIN conditions : answer(g, i) = answer(h, i)
  BY DEF ConditionMatches
<1>2. deciding(g) = deciding(h)
  BY <1>1
<1>3. deciding(g) # {} => First(deciding(g)) \in DOMAIN conditions
  <2>1. deciding(g) \subseteq Nat /\ deciding(g) \subseteq DOMAIN conditions
    OBVIOUS
  <2> HIDE DEF deciding
  <2> QED
    BY <2>1, FirstIsLeast
<1>4. \A m : MatchConditions(match, conditions, context, m) =
             IF deciding(m) = {} THEN skip ELSE answer(m, First(deciding(m)))
  BY DEF MatchConditions
<1> HIDE DEF deciding, answer, skip
<1> QED
  BY <1>1, <1>2, <1>3, <1>4

\* An error is that of a segment some condition asks about.
LEMMA ErrorComesFromSegment ==
  ASSUME NEW match, NEW conditions, IsConditions(conditions), NEW context,
         NEW member \in [Key -> Answers],
         MatchConditions(match, conditions, context, member) = "error"
  PROVE  \E i \in DOMAIN conditions :
           conditions[i].operator = "segment" /\ member[conditions[i].value] = "error"
<1>1. DOMAIN conditions \subseteq Nat
  BY DEF IsConditions
<1>2. PICK i \in DOMAIN conditions : ConditionMatches(conditions[i], context, member) = "error"
  BY <1>1, ConditionDecides
<1> QED
  BY <1>2 DEF ConditionMatches, Flip, Answer

\* A segment asked about by name is referenced.
LEMMA ValueIsReferenced ==
  ASSUME NEW segments, NonBlankKeys(segments), NEW k \in DOMAIN segments,
         NEW i \in DOMAIN segments[k].conditions,
         segments[k].conditions[i].operator = "segment",
         segments[k].conditions[i].value \in DOMAIN segments
  PROVE  segments[k].conditions[i].value \in References(segments, k)
BY DEF References, SegmentReferences, NonBlankKeys

\* Nothing fails.
LEMMA NoErrorWithoutCycle ==
  ASSUME NEW segments, IsSegments(segments), NoCycle(segments), NonBlankKeys(segments),
         NEW context, NEW m, Evaluates(m, segments, context)
  PROVE  \A V \in SUBSET Key, k \in Key :
           (k \in DOMAIN segments => Tree(segments, V, k)) => m[V][k] # "error"
<1> DEFINE Fails(V, k) ==
             (k \in DOMAIN segments => Tree(segments, V, k)) /\ m[V][k] = "error"
           T == {V \in SUBSET Key : \E k \in Key : Fails(V, k)}
<1> SUFFICES ASSUME T # {} PROVE FALSE
  OBVIOUS
<1>1. PICK V \in T : \A W \in T : V \subseteq W => W = V
  <2>1. T \subseteq SUBSET Key /\ IsFiniteSet(Key)
    BY EvaluationAssumption
  <2> HIDE DEF T
  <2> QED
    BY <2>1, Largest
<1>2. PICK k \in Key : Fails(V, k)
  BY <1>1
<1>3. V \in SUBSET Key /\ V \cup {k} \in SUBSET Key
  BY <1>1
<1>4. k \in DOMAIN segments /\ Tree(segments, V, k)
  BY <1>2, <1>3 DEF Evaluates
<1>5. k \notin V
  BY <1>4, TreeSteps
<1>6. MatchConditions(segments[k].match, segments[k].conditions, context, m[V \cup {k}]) = "error"
  BY <1>2, <1>3, <1>4, <1>5 DEF Evaluates
<1>7. IsConditions(segments[k].conditions) /\ m[V \cup {k}] \in [Key -> Answers]
  BY <1>3, <1>4 DEF IsSegments, Evaluates
<1>8. PICK i \in DOMAIN segments[k].conditions :
        /\ segments[k].conditions[i].operator = "segment"
        /\ m[V \cup {k}][segments[k].conditions[i].value] = "error"
  BY <1>6, <1>7, ErrorComesFromSegment
<1> DEFINE r == segments[k].conditions[i].value
<1>9. r \in Key
  BY <1>7, <1>8 DEF IsConditions
<1>10. r \in DOMAIN segments => Tree(segments, V \cup {k}, r)
  BY <1>4, <1>8, ValueIsReferenced, TreeSteps
<1>11. V \cup {k} \in T
  BY <1>3, <1>8, <1>9, <1>10
<1> HIDE DEF T
<1> QED
  BY <1>1, <1>5, <1>11

\* `part` is some of the segments, with all they reference.
PartOf(part, segments) ==
  /\ DOMAIN part \subseteq DOMAIN segments
  /\ \A k \in DOMAIN part : part[k] = segments[k] /\ References(segments, k) \subseteq DOMAIN part

\* Such a part has no cycle either.
LEMMA PartHasNoCycle ==
  ASSUME NEW segments, NEW part, PartOf(part, segments), NoCycle(segments)
  PROVE  NoCycle(part)
BY DEF PartOf, NoCycle

\* It answers for its segments as all the segments do, whichever of them are
\* being evaluated.
LEMMA PartAgrees ==
  ASSUME NEW segments, IsSegments(segments), NoCycle(segments), NonBlankKeys(segments),
         NEW part, PartOf(part, segments), NEW context,
         NEW m, Evaluates(m, segments, context), NEW n, Evaluates(n, part, context)
  PROVE  \A V, W \in SUBSET Key, k \in DOMAIN part :
           Tree(segments, V, k) /\ Tree(part, W, k) => m[V][k] = n[W][k]
<1> DEFINE Differ(V, W, k) == Tree(segments, V, k) /\ Tree(part, W, k) /\ m[V][k] # n[W][k]
           T == {V \in SUBSET Key : \E W \in SUBSET Key : \E k \in DOMAIN part : Differ(V, W, k)}
<1> SUFFICES ASSUME T # {} PROVE FALSE
  OBVIOUS
<1>1. PICK V \in T : \A W \in T : V \subseteq W => W = V
  <2>1. T \subseteq SUBSET Key /\ IsFiniteSet(Key)
    BY EvaluationAssumption
  <2> HIDE DEF T
  <2> QED
    BY <2>1, Largest
<1>2. PICK W \in SUBSET Key, k \in DOMAIN part : Differ(V, W, k)
  BY <1>1
<1>3. k \in DOMAIN segments /\ k \in Key /\ part[k] = segments[k]
  BY DEF PartOf, IsSegments
<1>4. V \in SUBSET Key /\ V \cup {k} \in SUBSET Key /\ W \cup {k} \in SUBSET Key
  BY <1>1, <1>3
<1>5. NoCycle(part)
  BY PartHasNoCycle
<1>6. k \notin V /\ k \notin W
  BY <1>2, <1>3, <1>5, TreeSteps
<1>7. ASSUME NEW i \in DOMAIN segments[k].conditions,
             segments[k].conditions[i].operator = "segment"
      PROVE  m[V \cup {k}][segments[k].conditions[i].value]
               = n[W \cup {k}][segments[k].conditions[i].value]
  <2> DEFINE r == segments[k].conditions[i].value
  <2>1. r \in Key
    BY <1>3, <1>7 DEF IsSegments, IsConditions
  <2>2. CASE r \notin DOMAIN segments
    <3>1. r \notin DOMAIN part
      BY <2>2 DEF PartOf
    <3> HIDE DEF r
    <3>2. m[V \cup {k}][r] = "no"
      BY <1>4, <2>1, <2>2 DEF Evaluates
    <3>3. n[W \cup {k}][r] = "no"
      BY <1>4, <2>1, <3>1 DEF Evaluates
    <3> QED
      BY <3>2, <3>3 DEF r
  <2>3. CASE r \in DOMAIN segments
    <3>1. r \in References(segments, k) /\ r \in DOMAIN part
      BY <1>3, <1>7, <2>3, ValueIsReferenced DEF PartOf
    <3>2. r \in References(part, k)
      BY <1>3, <3>1 DEF References
    <3>3. Tree(segments, V \cup {k}, r)
      <4>1. Tree(segments, V, k)
        BY <1>2
      <4> HIDE DEF r
      <4> QED
        BY <1>3, <3>1, <4>1, TreeSteps
    <3>5. Tree(part, W \cup {k}, r)
      <4>1. Tree(part, W, k)
        BY <1>2
      <4> HIDE DEF r
      <4> QED
        BY <1>5, <3>2, <4>1, TreeSteps
    <3>4. V \cup {k} \notin T
      <4> HIDE DEF T
      <4> QED
        BY <1>1, <1>6
    <3> QED
      BY <1>4, <3>1, <3>3, <3>4, <3>5
  <2> QED
    BY <2>2, <2>3
<1>8. DOMAIN segments[k].conditions \subseteq Nat
  BY <1>3 DEF IsSegments, IsConditions
<1>9. m[V][k] = MatchConditions(segments[k].match, segments[k].conditions, context, m[V \cup {k}])
  BY <1>3, <1>4, <1>6 DEF Evaluates
<1>10. n[W][k] = MatchConditions(segments[k].match, segments[k].conditions, context, n[W \cup {k}])
  BY <1>3, <1>6 DEF Evaluates
<1>11. MatchConditions(segments[k].match, segments[k].conditions, context, m[V \cup {k}])
         = MatchConditions(segments[k].match, segments[k].conditions, context, n[W \cup {k}])
  <2> DEFINE conditions == segments[k].conditions
             g == m[V \cup {k}]
             h == n[W \cup {k}]
  <2>1. \A i \in DOMAIN conditions :
          conditions[i].operator = "segment" => g[conditions[i].value] = h[conditions[i].value]
    BY <1>7
  <2>2. DOMAIN conditions \subseteq Nat
    BY <1>8
  <2> HIDE DEF conditions, g, h
  <2>3. \A match : MatchConditions(match, conditions, context, g)
                    = MatchConditions(match, conditions, context, h)
    BY <2>1, <2>2, MatchConditionsSame
  <2> QED
    BY <2>3 DEF conditions, g, h
<1> QED
  BY <1>2, <1>9, <1>10, <1>11

------------------------------------------------------------------------------
\* Outcomes.

\* A valid set of segments answers every subject.
LEMMA ValidSegmentsAnswer ==
  ASSUME NEW segments, IsSegments(segments), ValidSegmentSet(segments), NEW context
  PROVE  /\ MatchSegment(segments, context) \in [Key -> Answers]
         /\ \A k \in Key : MatchSegment(segments, context)[k] # "error"
<1>1. PICK m : Evaluates(m, segments, context) /\ MatchSegment(segments, context) = m[{}]
  BY MatchSegmentEvaluates
<1>2. NoCycle(segments) /\ NonBlankKeys(segments)
  BY DEF ValidSegmentSet, ValidSegment, NonBlankKeys
<1>3. \A k : Tree(segments, {}, k)
  BY DEF Tree
<1>4. {} \in SUBSET Key
  OBVIOUS
<1>5. m[{}] \in [Key -> Answers]
  BY <1>1, <1>4 DEF Evaluates
<1>6. \A k \in Key : m[{}][k] # "error"
  BY <1>1, <1>2, <1>3, <1>4, NoErrorWithoutCycle
<1> QED
  BY <1>1, <1>5, <1>6

\* The keys validation allows are those resolution finds, if they are trimmed.
LEMMA AllowedIsFound ==
  ASSUME NEW flag, \A i \in DOMAIN flag.variants : Trim[flag.variants[i].key] = flag.variants[i].key,
         NEW key \in Allowed(flag.kind, flag.variants), NEW reason, NEW rule
  PROVE  Serve(flag, key, reason, rule) = Result(key, reason, rule)
BY DEF Allowed, HasVariant, Serve

\* A result is no error.
LEMMA ResultIsNoError ==
  ASSUME NEW variant, NEW reason, NEW rule
  PROVE  Result(variant, reason, rule).error = ""
BY DEF Result

\* Some allocation of a valid rollout is above every bucket.
LEMMA AllocationsAboveBucket ==
  ASSUME NEW rollout, IsRollout(rollout), rollout # <<>>,
         NEW allowed, ValidRollout(rollout, allowed), NEW bucket \in 0 .. Scale - 1
  PROVE  LET above == AllocationsAbove(rollout, bucket) IN
           /\ above # {} /\ above \subseteq Nat
           /\ First(above) \in above /\ First(above) \in DOMAIN rollout
           /\ \A i \in above : First(above) <= i
<1> DEFINE above == AllocationsAbove(rollout, bucket)
<1>1. rollout \in Seq([variant : Key, weight : -MaxInt - 1 .. MaxInt])
  BY DEF IsRollout
<1>2. Len(rollout) \in Nat /\ DOMAIN rollout = 1 .. Len(rollout) /\ Len(rollout) # 0
  BY <1>1
<1>3. Cumulative(rollout)[Len(rollout)] = Scale
  BY DEF ValidRollout
<1>4. Scale \in Nat /\ bucket < Scale
  <2>1. Scale \in Nat
    BY EvaluationAssumption
  <2> QED
    BY <2>1
<1>5. Len(rollout) \in above
  BY <1>2, <1>3, <1>4 DEF AllocationsAbove
<1>6. above \subseteq DOMAIN rollout /\ above \subseteq Nat
  BY <1>2 DEF AllocationsAbove
<1> HIDE DEF above
<1>7. First(above) \in above /\ \A i \in above : First(above) <= i
  BY <1>5, <1>6, FirstIsLeast
<1> QED
  BY <1>5, <1>6, <1>7 DEF above

\* An outcome that validation accepts is resolved, or the context lacks what
\* it buckets by.
LEMMA OutcomeResolves ==
  ASSUME NEW flag, \A i \in DOMAIN flag.variants : Trim[flag.variants[i].key] = flag.variants[i].key,
         NEW outcome, IsOutcome(outcome), TrimmedOutcome(outcome),
         NEW required,
         ValidOutcome(outcome, Allowed(flag.kind, flag.variants), required),
         ~OutcomeEmpty(outcome), NEW context, NEW reason, NEW rule
  PROVE  ResolveOutcome(flag, outcome, context, reason, rule).error # "PARSE_ERROR"
<1> DEFINE allowed == Allowed(flag.kind, flag.variants)
<1>1. CASE outcome.variant # ""
  <2>1. Trim[outcome.variant] # ""
    BY <1>1 DEF TrimmedOutcome
  <2>2. outcome.variant \in allowed
    BY <2>1 DEF ValidOutcome
  <2>3. \A r : Serve(flag, outcome.variant, r, rule) = Result(outcome.variant, r, rule)
    BY <2>2, AllowedIsFound
  <2>4. \A r : Serve(flag, outcome.variant, r, rule).error = ""
    BY <2>3, ResultIsNoError
  <2> QED
    BY <1>1, <2>4 DEF ResolveOutcome
<1>2. CASE outcome.variant = ""
  <2>1. Trim[outcome.variant] = ""
    BY <1>2, EvaluationAssumption
  <2>2. outcome.rollout # <<>>
    BY <2>1 DEF OutcomeEmpty
  <2>3. ValidRollout(outcome.rollout, allowed)
    BY <2>1, <2>2 DEF ValidOutcome
  <2>4. ASSUME NEW bucket \in 0 .. Scale - 1
        PROVE  Allocate(flag, outcome.rollout, bucket, rule).error = ""
    <3> DEFINE i == First(AllocationsAbove(outcome.rollout, bucket))
    <3>1. AllocationsAbove(outcome.rollout, bucket) # {} /\ i \in DOMAIN outcome.rollout
      BY <2>2, <2>3, AllocationsAboveBucket DEF IsOutcome
    <3> HIDE DEF i
    <3>2. outcome.rollout[i].variant \in allowed
      BY <2>3, <3>1 DEF ValidRollout
    <3>3. Serve(flag, outcome.rollout[i].variant, "SPLIT", rule)
            = Result(outcome.rollout[i].variant, "SPLIT", rule)
      BY <3>2, AllowedIsFound
    <3> QED
      BY <3>1, <3>3, ResultIsNoError DEF Allocate, i
  <2>5. \A v \in DOMAIN Bucket : Bucket[v] \in 0 .. Scale - 1
    BY EvaluationAssumption
  <2> DEFINE by == IF outcome.bucketBy = "" THEN "targetingKey" ELSE outcome.bucketBy
  <2>6. CASE by \notin DOMAIN context
    BY <1>2, <2>6 DEF ResolveOutcome, Failure
  <2>7. CASE by \in DOMAIN context /\ context[by] \notin DOMAIN Bucket
    BY <1>2, <2>7 DEF ResolveOutcome, Failure
  <2>8. CASE by \in DOMAIN context /\ context[by] \in DOMAIN Bucket
    <3>1. ResolveOutcome(flag, outcome, context, reason, rule)
            = Allocate(flag, outcome.rollout, Bucket[context[by]], rule)
      BY <1>2, <2>8 DEF ResolveOutcome
    <3>2. Allocate(flag, outcome.rollout, Bucket[context[by]], rule).error = ""
      BY <2>4, <2>5, <2>8
    <3> QED
      BY <3>1, <3>2
  <2> QED
    BY <2>6, <2>7, <2>8
<1> QED
  BY <1>1, <1>2

\* What validation accepts never evaluates to PARSE_ERROR, whatever the context:
\* no cycle of segments, no bucket without an allocation, no unknown variant.
LEMMA AcceptedEvaluates ==
  ASSUME NEW flag, IsPolicy(flag.policy), NEW segments, IsSegments(segments),
         ValidDefinition(flag.kind, flag.default, flag.variants, flag.policy),
         ValidSegmentSet(segments), Trimmed(flag.variants, flag.policy), NEW context
  PROVE  Evaluate(flag, context, segments).error # "PARSE_ERROR"
<1> DEFINE policy == flag.policy
           member == MatchSegment(segments, context)
           answers == RuleAnswers(policy, context, member)
           i == DecidingRule(answers)
           allowed == Allowed(flag.kind, flag.variants)
<1>1. /\ ValidFlag(flag.kind, flag.default, flag.variants, policy)
      /\ \A k \in DOMAIN segments : ValidSegment(k, segments[k])
  BY DEF ValidDefinition, ValidSegmentSet
<1>2. \A j \in DOMAIN flag.variants : Trim[flag.variants[j].key] = flag.variants[j].key
  BY DEF Trimmed
<1>3. member \in [Key -> Answers] /\ \A k \in Key : member[k] # "error"
  BY ValidSegmentsAnswer
<1>4. ASSUME NEW j \in DOMAIN policy.rules PROVE answers[j] # "error"
  <2>1. answers[j] = MatchConditions(policy.rules[j].match, policy.rules[j].conditions, context, member)
    BY DEF RuleAnswers
  <2>2. IsConditions(policy.rules[j].conditions)
    BY DEF IsPolicy
  <2> HIDE DEF member
  <2>3. \A n \in DOMAIN policy.rules[j].conditions :
          policy.rules[j].conditions[n].operator = "segment" =>
            member[policy.rules[j].conditions[n].value] # "error"
    BY <1>3, <2>2 DEF IsConditions
  <2> QED
    BY <1>3, <2>1, <2>2, <2>3, ErrorComesFromSegment
<1>5. EvaluateFallthrough(flag, context).error # "PARSE_ERROR"
  <2>1. CASE OutcomeEmpty(policy.fallthrough)
    BY <2>1 DEF EvaluateFallthrough, Result
  <2>2. CASE ~OutcomeEmpty(policy.fallthrough)
    <3>1. IsOutcome(policy.fallthrough) /\ TrimmedOutcome(policy.fallthrough)
      BY DEF IsPolicy, Trimmed
    <3>2. ValidOutcome(policy.fallthrough, allowed, FALSE)
      BY <1>1 DEF ValidFlag
    <3>3. ResolveOutcome(flag, policy.fallthrough, context, "STATIC", "").error # "PARSE_ERROR"
      BY <1>2, <2>2, <3>1, <3>2, OutcomeResolves
    <3> QED
      BY <2>2, <3>3 DEF EvaluateFallthrough
  <2> QED
    BY <2>1, <2>2
<1>6. i # 0 => i \in DOMAIN policy.rules
  <2> DEFINE decided == {j \in DOMAIN answers : answers[j] # "no"}
  <2>1. decided \subseteq DOMAIN policy.rules /\ DOMAIN policy.rules \subseteq Nat
    BY DEF RuleAnswers, IsPolicy
  <2>2. i = IF decided = {} THEN 0 ELSE First(decided)
    BY DEF DecidingRule
  <2> HIDE DEF decided, i
  <2>3. decided # {} => First(decided) \in decided
    BY <2>1, FirstIsLeast
  <2> QED
    BY <2>1, <2>2, <2>3
<1>7. ASSUME NEW j \in DOMAIN policy.rules
      PROVE  ResolveOutcome(flag, policy.rules[j].outcome, context,
                            "TARGETING_MATCH", policy.rules[j].id).error # "PARSE_ERROR"
  <2> DEFINE outcome == policy.rules[j].outcome
  <2>1. IsOutcome(outcome) /\ TrimmedOutcome(outcome)
    BY DEF IsPolicy, Trimmed
  <2>2. ValidOutcome(outcome, allowed, TRUE)
    BY <1>1 DEF ValidFlag, ValidRules
  <2>3. ~OutcomeEmpty(outcome)
    BY <2>2 DEF ValidOutcome, OutcomeEmpty
  <2> HIDE DEF outcome
  <2>4. \A reason, rule :
          ResolveOutcome(flag, outcome, context, reason, rule).error # "PARSE_ERROR"
    BY <1>2, <2>1, <2>2, <2>3, OutcomeResolves
  <2> QED
    BY <2>4 DEF outcome
<1>8. EvaluateEnabled(flag, context, segments).error # "PARSE_ERROR"
  <2>1. EvaluateEnabled(flag, context, segments) =
          IF i = 0 THEN EvaluateFallthrough(flag, context)
          ELSE IF answers[i] = "error" THEN Failure("PARSE_ERROR")
          ELSE ResolveOutcome(flag, policy.rules[i].outcome, context,
                              "TARGETING_MATCH", policy.rules[i].id)
    BY DEF EvaluateEnabled
  <2> HIDE DEF i, answers, policy
  <2> QED
    BY <1>4, <1>5, <1>6, <1>7, <2>1
<1>9. Result("default", "DISABLED", "").error # "PARSE_ERROR"
  BY DEF Result
<1> QED
  BY <1>1, <1>8, <1>9 DEF Evaluate

------------------------------------------------------------------------------
\* Sums of weights.

\* A sum in the range of machine integers is what it should be.
LEMMA WrappedInRange ==
  ASSUME NEW n \in 0 .. MaxInt
  PROVE  Wrapped(n) = n
<1> DEFINE d == 2 * (MaxInt + 1)
           x == n + MaxInt + 1
<1>1. MaxInt \in Nat
  BY EvaluationAssumption
<1>2. d \in Nat \ {0} /\ x \in Nat /\ x < d
  BY <1>1
<1>3. x % d = x
  <2> HIDE DEF d, x
  <2> QED
    BY <1>2
<1>4. Wrapped(n) = x - (MaxInt + 1)
  BY <1>3 DEF Wrapped
<1> QED
  BY <1>1, <1>4

\* Machine integers stay in their range.
LEMMA WrappedType ==
  ASSUME NEW n \in Int
  PROVE  Wrapped(n) \in Int
<1> DEFINE d == 2 * (MaxInt + 1)
           x == n + MaxInt + 1
<1>1. MaxInt \in Nat
  BY EvaluationAssumption
<1>2. d \in Nat \ {0} /\ x \in Int
  BY <1>1
<1>3. x % d \in Int
  <2> HIDE DEF d, x
  <2> QED
    BY <1>2
<1>4. Wrapped(n) = (x % d) - (MaxInt + 1)
  BY DEF Wrapped
<1> HIDE DEF d, x
<1> QED
  BY <1>1, <1>3, <1>4

\* The cumulative weights are the sums of the weights, added up in machine integers.
LEMMA CumulativeSums ==
  ASSUME NEW rollout, IsRollout(rollout)
  PROVE  /\ Cumulative(rollout) \in [0 .. Len(rollout) -> Int]
         /\ Cumulative(rollout)[0] = 0
         /\ \A i \in 1 .. Len(rollout) :
              Cumulative(rollout)[i] = Wrapped(Cumulative(rollout)[i - 1] + rollout[i].weight)
<1> DEFINE len == Len(rollout)
           sum(f, i) == IF i = 0 THEN 0 ELSE Wrapped(f[i - 1] + rollout[i].weight)
           Sums(n, f) == f \in [0 .. len -> Int] /\ \A i \in 0 .. len : i <= n => f[i] = sum(f, i)
           upTo == CHOOSE f : f = [i \in 0 .. len |-> sum(f, i)]
           T == {n \in Nat : \E f : Sums(n, f)}
<1> DEFINE allocation == [variant : Key, weight : -MaxInt - 1 .. MaxInt]
<1>1. len \in Nat /\ \A i \in 1 .. len : rollout[i].weight \in Int
  <2>1. \A a \in allocation : a.weight \in Int
    <3>1. MaxInt \in Nat
      BY EvaluationAssumption
    <3> QED
      BY <3>1
  <2>2. rollout \in Seq(allocation)
    BY DEF IsRollout
  <2> HIDE DEF allocation
  <2>3. len \in Nat /\ \A i \in 1 .. len : rollout[i] \in allocation
    BY <2>2
  <2> QED
    BY <2>1, <2>3
<1>2. \A f, i : f[i - 1] \in Int /\ i \in 0 .. len => sum(f, i) \in Int
  <2> SUFFICES ASSUME NEW f, NEW i \in 0 .. len, f[i - 1] \in Int PROVE sum(f, i) \in Int
    OBVIOUS
  <2>1. CASE i = 0
    BY <2>1
  <2>2. CASE i # 0
    <3>1. rollout[i].weight \in Int
      BY <1>1, <2>2
    <3>2. f[i - 1] + rollout[i].weight \in Int
      BY <3>1
    <3> QED
      BY <2>2, <3>2, WrappedType
  <2> QED
    BY <2>1, <2>2
<1>3. \E f : Sums(0, f)
  <2>1. Sums(0, [i \in 0 .. len |-> 0])
    BY <1>1
  <2> QED
    BY <2>1
<1>4. ASSUME NEW n \in Nat, NEW f, Sums(n, f)
      PROVE  \E g : Sums(n + 1, g)
  <2>1. CASE n + 1 \notin 0 .. len
    <3>1. Sums(n + 1, f)
      BY <1>1, <1>4, <2>1
    <3> QED
      BY <3>1
  <2>2. CASE n + 1 \in 0 .. len
    <3> DEFINE g == [f EXCEPT ![n + 1] = sum(f, n + 1)]
    <3>1. n \in 0 .. len /\ f[(n + 1) - 1] \in Int /\ f \in [0 .. len -> Int]
      BY <1>1, <1>4, <2>2
    <3>2. sum(f, n + 1) \in Int
      BY <1>2, <2>2, <3>1
    <3>3. g \in [0 .. len -> Int]
      <4> HIDE DEF sum
      <4> QED
        BY <3>1, <3>2
    <3>4. ASSUME NEW i \in 0 .. len, i <= n + 1
          PROVE  g[i] = sum(g, i)
      <4>1. i # 0 => i - 1 \in 0 .. len /\ g[i - 1] = f[i - 1]
        <5> HIDE DEF sum
        <5> QED
          BY <1>1, <3>1, <3>4
      <4>2. sum(g, i) = sum(f, i)
        <5> HIDE DEF g
        <5> QED
          BY <4>1
      <4>3. g[i] = sum(f, i)
        <5>1. CASE i = n + 1
          <6> HIDE DEF sum
          <6> QED
            BY <3>1, <5>1
        <5>2. CASE i # n + 1
          <6>1. i <= n
            BY <3>4, <5>2
          <6> HIDE DEF sum
          <6> QED
            BY <1>4, <3>1, <5>2, <6>1
        <5> QED
          BY <5>1, <5>2
      <4> QED
        BY <4>2, <4>3
    <3> HIDE DEF g, sum
    <3>5. Sums(n + 1, g)
      BY <3>3, <3>4
    <3> QED
      BY <3>5
  <2> QED
    BY <2>1, <2>2
<1>5. len \in T
  <2> HIDE DEF Sums
  <2>1. 0 \in T /\ \A n \in Nat : n \in T => n + 1 \in T
    BY <1>3, <1>4
  <2> HIDE DEF T
  <2> QED
    BY <1>1, <2>1, Induction
<1>6. \E f : f = [i \in 0 .. len |-> sum(f, i)]
  <2>1. PICK f : Sums(len, f)
    BY <1>5
  <2> HIDE DEF sum
  <2>2. f = [i \in 0 .. len |-> sum(f, i)]
    BY <1>1, <2>1
  <2> QED
    BY <2>2
<1>7. upTo = [i \in 0 .. len |-> sum(upTo, i)]
  <2> HIDE DEF sum
  <2> QED
    BY <1>6
<1>8. Cumulative(rollout) = upTo
  BY DEF Cumulative
<1>9. \A i \in 0 .. len : upTo[i] = sum(upTo, i)
  <2> HIDE DEF upTo, sum
  <2> QED
    BY <1>7
<1> DEFINE U == {n \in Nat : n \in 0 .. len => upTo[n] \in Int}
<1>10. \A n \in Nat : n \in U
  <2> HIDE DEF upTo
  <2>1. 0 \in U
    BY <1>1, <1>9
  <2>2. ASSUME NEW n \in Nat, n \in U PROVE n + 1 \in U
    <3> SUFFICES ASSUME n + 1 \in 0 .. len PROVE upTo[n + 1] \in Int
      OBVIOUS
    <3>1. upTo[(n + 1) - 1] \in Int
      BY <1>1, <2>2
    <3>2. sum(upTo, n + 1) \in Int
      BY <1>2, <3>1
    <3> HIDE DEF sum
    <3> QED
      BY <1>9, <3>2
  <2> HIDE DEF U
  <2> QED
    BY <2>1, <2>2, Induction
<1>11. upTo \in [0 .. len -> Int]
  <2>1. \A i \in 0 .. len : upTo[i] \in Int
    BY <1>1, <1>10
  <2> HIDE DEF sum, upTo
  <2> QED
    BY <1>7, <2>1
<1> HIDE DEF upTo
<1> QED
  BY <1>1, <1>8, <1>9, <1>11

------------------------------------------------------------------------------
\* Evaluation with some of the segments.

\* A part of a valid set of segments is valid.
LEMMA PartIsValid ==
  ASSUME NEW segments, IsSegments(segments), ValidSegmentSet(segments),
         NEW part, PartOf(part, segments)
  PROVE  IsSegments(part) /\ ValidSegmentSet(part)
<1>1. /\ DOMAIN part \subseteq DOMAIN segments
      /\ \A k \in DOMAIN part : part[k] = segments[k] /\ References(segments, k) \subseteq DOMAIN part
  BY DEF PartOf
<1>2. IsSegments(part)
  BY <1>1 DEF IsSegments
<1>3. ReferencesKnown(part)
  <2> SUFFICES ASSUME NEW k \in DOMAIN part
               PROVE  SegmentReferences(part[k].conditions) \subseteq DOMAIN part
    BY DEF ReferencesKnown
  <2>1. SegmentReferences(segments[k].conditions) \subseteq DOMAIN segments
    BY <1>1 DEF ValidSegmentSet, ReferencesKnown
  <2> QED
    BY <1>1, <2>1 DEF References
<1>4. NoCycle(part)
  BY PartHasNoCycle DEF ValidSegmentSet
<1> QED
  BY <1>1, <1>2, <1>3, <1>4 DEF ValidSegmentSet

\* A flag evaluates the same with all segments and with those it needs.
LEMMA PartEvaluates ==
  ASSUME NEW flag, IsPolicy(flag.policy), NEW segments, IsSegments(segments),
         ValidSegmentSet(segments), NEW part, PartOf(part, segments),
         PolicyReferences(flag.policy) \cap DOMAIN segments \subseteq DOMAIN part, NEW context
  PROVE  Evaluate(flag, context, part) = Evaluate(flag, context, segments)
<1> DEFINE policy == flag.policy
           all == MatchSegment(segments, context)
           some == MatchSegment(part, context)
<1>1. IsSegments(part) /\ ValidSegmentSet(part)
  BY PartIsValid
<1>2. NoCycle(segments) /\ NonBlankKeys(segments)
  BY DEF ValidSegmentSet, ValidSegment, NonBlankKeys
<1>3. PICK m : Evaluates(m, segments, context) /\ all = m[{}]
  BY MatchSegmentEvaluates
<1>4. PICK n : Evaluates(n, part, context) /\ some = n[{}]
  BY <1>1, MatchSegmentEvaluates
<1>5. {} \in SUBSET Key /\ \A k : Tree(segments, {}, k) /\ Tree(part, {}, k)
  BY DEF Tree
<1>6. \A k \in DOMAIN part : all[k] = some[k]
  <2> HIDE DEF all, some
  <2> QED
    BY <1>2, <1>3, <1>4, <1>5, PartAgrees
<1>7. \A k \in Key : k \notin DOMAIN segments => all[k] = "no" /\ some[k] = "no"
  <2> HIDE DEF all, some
  <2> QED
    BY <1>3, <1>4, <1>5 DEF Evaluates, PartOf
<1>8. ASSUME NEW i \in DOMAIN policy.rules
      PROVE  MatchConditions(policy.rules[i].match, policy.rules[i].conditions, context, some)
               = MatchConditions(policy.rules[i].match, policy.rules[i].conditions, context, all)
  <2> DEFINE conditions == policy.rules[i].conditions
  <2>1. IsConditions(conditions) /\ DOMAIN conditions \subseteq Nat
    BY DEF IsPolicy, IsConditions
  <2>2. SegmentReferences(conditions) \subseteq PolicyReferences(policy)
    BY DEF PolicyReferences
  <2> HIDE DEF conditions, all, some, policy
  <2>3. ASSUME NEW j \in DOMAIN conditions, conditions[j].operator = "segment"
        PROVE  some[conditions[j].value] = all[conditions[j].value]
    <3> DEFINE r == conditions[j].value
    <3>1. r \in Key
      BY <2>1, <2>3 DEF IsConditions
    <3>2. r \in DOMAIN segments => r \in SegmentReferences(conditions)
      BY <1>2, <2>3 DEF SegmentReferences, NonBlankKeys
    <3>3. r \in DOMAIN segments => r \in DOMAIN part
      BY <2>2, <3>2 DEF policy
    <3> HIDE DEF r
    <3>4. some[r] = all[r]
      BY <1>6, <1>7, <3>1, <3>3
    <3> QED
      BY <3>4 DEF r
  <2>4. \A match : MatchConditions(match, conditions, context, some)
                   = MatchConditions(match, conditions, context, all)
    BY <2>1, <2>3, MatchConditionsSame
  <2> QED
    BY <2>4 DEF conditions
<1>9. RuleAnswers(policy, context, some) = RuleAnswers(policy, context, all)
  BY <1>8 DEF RuleAnswers
<1>10. EvaluateEnabled(flag, context, part) = EvaluateEnabled(flag, context, segments)
  BY <1>9 DEF EvaluateEnabled
<1>11. /\ \A k \in DOMAIN segments : ValidSegment(k, segments[k])
       /\ \A k \in DOMAIN part : ValidSegment(k, part[k])
  BY <1>1 DEF ValidSegmentSet
<1> QED
  BY <1>10, <1>11 DEF Evaluate

==============================================================================
