----------------------- MODULE MCConfigurationDocument -----------------------
\* TargetingDefinitions and ConfigurationDocument for TLC: two clients on one
\* flag, a variant that one policy uses, two segments that may come to reference
\* each other, and SDKs that download what the clients write.
EXTENDS ConfigurationDocument, TLC

MCKey == {"", "s", "t", "a", "r", "default"}
MCTrim == [k \in MCKey |-> k]
MCMeets == [op \in {"equals"} |-> {<<"pro", "pro">>}]
MCAccepts == [op \in {"equals"} |-> {"pro"}]
MCBucket == [v \in {"u"} |-> 0]

InSegment(k) == [operator |-> "segment", negated |-> FALSE, attribute |-> "", value |-> k]
OnPlan == [operator |-> "equals", negated |-> FALSE, attribute |-> "plan", value |-> "pro"]
Outcome(variant) == [variant |-> variant, rollout |-> <<>>, bucketBy |-> ""]

MCVariantLists == {<<>>, <<[key |-> "a", type |-> "string"]>>}
MCPolicies ==
  {[rules |-> <<>>, fallthrough |-> Outcome("a")],
   [rules |-> <<[id |-> "r", match |-> "all", conditions |-> <<InSegment("s")>>,
                 outcome |-> Outcome("default")]>>, fallthrough |-> Outcome("")]}
Content(c) == [match |-> "all", conditions |-> <<c>>]
MCSegments == {Content(OnPlan), Content(InSegment("s")), Content(InSegment("t"))}
MCInitialSegments == {<<>>, [k \in {"s", "t"} |-> Content(OnPlan)]}
MCContexts == {[targetingKey |-> "u", plan |-> "pro"]}

MCEnvironmentOf == [s \in Sdk |-> CHOOSE e \in Environment : TRUE]

Symmetry == Permutations(Client \ Viewer)

\* The bound on writes is reached and every request and download is answered: the model
\* stops here, the program does not.
BoundReached ==
  /\ writes >= MaxWrites
  /\ \A c \in Client : request[c] = Idle
  /\ \A s \in Sdk : load[s] = NoLoad
  /\ UNCHANGED documentVars

MCSpec == DocumentInit /\ [][DocumentNext \/ BoundReached]_documentVars

==============================================================================
