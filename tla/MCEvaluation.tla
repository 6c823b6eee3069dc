---------------------------- MODULE MCEvaluation -----------------------------
(***************************************************************************)
(* EvaluatedFlag for TLC, with two families of definitions: every set of   *)
(* up to three segments that may reference each other, cycles and unknown  *)
(* references included, under one flag; and every small definition, valid  *)
(* or not, under one set of segments.                                      *)
(***************************************************************************)
EXTENDS EvaluatedFlag

SegmentKeys == {"a", "b", "c"}
MCKey == SegmentKeys \cup {"", " ", "a ", "default", "on", "off", "r1", "r2"}
MCTrim == [k \in MCKey |-> CASE k = "a " -> "a" [] k = " " -> "" [] OTHER -> k]
Plans == {"free", "pro"}
Patterns == {"^p", "[[:alpha:]]"}
MCMeets == [op \in {"equals", "regex"} |->
  IF op = "equals" THEN {<<v, v>> : v \in Plans} ELSE {<<"pro", "^p">>} \cup Plans \X {"[[:alpha:]]"}]
MCAccepts == [op \in {"equals", "regex"} |-> IF op = "equals" THEN Plans ELSE Patterns]
MCPortable == {"^p"}
MCScale == 4
MCMaxInt == 15
\* One subject per bucket, and "free" and "pro" as values to bucket by.
MCBucket == [v \in {"u0", "u1", "u2", "u3", "free"} |->
  CASE v = "u0" -> 0 [] v = "u1" -> 1 [] v = "u2" -> 2 [] v = "u3" -> 3 [] OTHER -> 1]
MCSubjects == {"u0", "u1", "u2", "u3"}

InSegment(k, negated) ==
  [operator |-> "segment", negated |-> negated, attribute |-> "", value |-> k]
Attribute(op, negated, value) ==
  [operator |-> op, negated |-> negated, attribute |-> "plan", value |-> value]

MCContexts ==
  {[targetingKey |-> "u1"], [targetingKey |-> "u1", plan |-> "pro"], [plan |-> "free"]}

\* Segments of the first family: every reference, either sign and match mode.
Links == {InSegment(k, n) : k \in SegmentKeys, n \in BOOLEAN}
OnPlan == Attribute("equals", FALSE, "pro")
SegmentForms ==
  {[match |-> "all", conditions |-> <<l>>] : l \in Links \cup {OnPlan, Attribute("exists", TRUE, "")}}
    \cup {[match |-> m, conditions |-> <<x, l>>] : m \in {"all", "any"}, l \in Links,
            x \in {OnPlan, InSegment("b", FALSE)}}
    \cup {[match |-> "any", conditions |-> <<l, OnPlan>>] : l \in Links}
SegmentSets ==
  {s \in UNION {[D -> SegmentForms] : D \in SUBSET SegmentKeys} :
     \* The first two segments have any form, the third one condition.
     "c" \in DOMAIN s => Len(s["c"].conditions) = 1}

Variants(keys) == [i \in DOMAIN keys |-> [key |-> keys[i], type |-> "string"]]
Rollout(x, y) == <<[variant |-> "a", weight |-> x], [variant |-> "b", weight |-> y]>>
MCRollouts == {<<>>, <<[variant |-> "a", weight |-> 4]>>, <<[variant |-> "a ", weight |-> 4]>>,
             Rollout(1, 3), Rollout(2, 2), Rollout(3, 1), Rollout(1, 2), Rollout(0, 4),
             Rollout(1, 1) \o <<[variant |-> "default", weight |-> 2]>>,
             Rollout(1, 2) \o <<[variant |-> "default", weight |-> 1]>>,
             Rollout(2, 1) \o <<[variant |-> "default", weight |-> 1]>>,
             \* "a" in two places
             Rollout(1, 2) \o <<[variant |-> "a", weight |-> 1]>>,
             Rollout(2, 1) \o <<[variant |-> "a", weight |-> 1]>>,
             \* 36 = 4 in machine integers
             Rollout(15, 15) \o <<[variant |-> "default", weight |-> 6]>>}
Outcome(variant, rollout, by) == [variant |-> variant, rollout |-> rollout, bucketBy |-> by]
Empty == Outcome("", <<>>, "")
Outcomes == [variant: {"", " ", "a", "a ", "default", "on"}, rollout: MCRollouts, bucketBy: {"", "plan"}]
Rule(id, match, condition, outcome) ==
  [id |-> id, match |-> match, conditions |-> <<condition>>, outcome |-> outcome]
Rules == {Rule(id, "all", c, o) : id \in {"r1", "r2"},
            c \in {InSegment("a", FALSE), InSegment("b", TRUE), Attribute("regex", FALSE, "^p"),
                   Attribute("equals", TRUE, "pro")},
            o \in {Outcome("a", <<>>, ""), Outcome("", Rollout(2, 2), "plan"), Empty}}
          \cup {Rule("r1", "none", OnPlan, Outcome("a", <<>>, "")),
                Rule("r1", "any", Attribute("regex", FALSE, "[[:alpha:]]"), Outcome("b", <<>>, "")),
                Rule("r1", "any", InSegment("b", FALSE), Outcome("b", <<>>, ""))}
Flag(kind, variants, rules, fallthrough) ==
  [kind |-> kind, default |-> kind, enabled |-> TRUE, variants |-> Variants(variants),
   policy |-> [rules |-> rules, fallthrough |-> fallthrough]]
Plain == Flag("string", <<"a", "b">>,
              <<Rule("r1", "all", InSegment("a", FALSE), Outcome("a", <<>>, ""))>>, Empty)
Flags ==
  {Flag(k, v, <<>>, o) : k \in {"boolean", "string", "json"}, o \in Outcomes,
     v \in {<<>>, <<"a", "b">>, <<"a ", "b">>, <<"a", "a ">>, <<"default">>, <<"", "a">>}}
    \cup {Flag("string", <<"a", "b">>, <<r>>, Empty) : r \in Rules}
    \cup {Flag("string", <<"a", "b">>, <<r, s>>, Outcome("b", <<>>, "")) : r \in Rules, s \in Rules}
    \cup {[Plain EXCEPT !.enabled = FALSE], [Plain EXCEPT !.kind = "object"]}
Chain == [k \in {"a", "b"} |->
  [match |-> "all", conditions |-> IF k = "a" THEN <<InSegment("b", FALSE)>> ELSE <<OnPlan>>]]

MCDefinitions == {<<Plain, s>> : s \in SegmentSets} \cup {<<f, Chain>> : f \in Flags}

\* Only the definitions of the second family are published again.
MCNext == (Republish /\ segments = Chain) \/ NextSubject

MCSpec == EvaluationInit /\ [][MCNext]_evaluationVars

==============================================================================
