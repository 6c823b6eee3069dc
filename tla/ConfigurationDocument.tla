------------------------ MODULE ConfigurationDocument ------------------------
(***************************************************************************)
(* The document an SDK downloads (sdkconfig/sdkconfig.go,                  *)
(* database/sdk_config_repository.go): a flag's definition, its policy in  *)
(* the environment of the credential and the segments it needs, assembled  *)
(* by separate statements while management requests write, then validated *)
(* as a whole.                                                             *)
(***************************************************************************)
EXTENDS TargetingDefinitions

CONSTANTS
  Sdk,            \* SDKs, each with a credential of its own
  ClientKind,     \* SDKs whose credential is of kind "client"
  EnvironmentOf   \* EnvironmentOf[s]: the environment of the credential of s

ASSUME DocumentAssumption ==
  ClientKind \subseteq Sdk /\ EnvironmentOf \in [Sdk -> Environment]

VARIABLES
  visible,   \* the client_visible column of the flag
  load       \* load[s]: the document being assembled for s

documentVars == <<definitionVars, visible, load>>

NoLoad == [pc |-> "idle"]

\* The flags of a document: the one of the model, or none.
Loading ==
  [pc: {"configs"}, delivered: BOOLEAN, variants: VariantLists \cup {<<>>}]
    \cup [pc: {"segments"}, delivered: BOOLEAN, variants: VariantLists \cup {<<>>},
          policy: Policies \cup {EmptyPolicy}]
    \cup [pc: {"loaded"}, delivered: BOOLEAN, variants: VariantLists \cup {<<>>},
          policy: Policies \cup {EmptyPolicy}, segments: SegmentSets]

Failed == [pc |-> "failed"]

DocumentTypeOK ==
  /\ DefinitionsTypeOK
  /\ visible \in BOOLEAN
  /\ load \in [Sdk -> Loading \cup {NoLoad, Failed}]

DocumentInit == DefinitionsInit /\ visible = FALSE /\ load = [s \in Sdk |-> NoLoad]

\* SetClientVisible writes when there is something to change.
SetClientVisible ==
  /\ visible' = ~visible
  /\ writes < MaxWrites /\ writes' = writes + 1
  /\ UNCHANGED <<variants, policies, segments, request, load>>

Loaded(s, document) ==
  /\ load' = [load EXCEPT ![s] = document]
  /\ UNCHANGED <<definitionVars, visible>>

\* LoadConfiguration: the flags, all of them or the client visible ones.
LoadFlags(s) ==
  /\ load[s] = NoLoad
  /\ Loaded(s, [pc |-> "configs", variants |-> variants,
                delivered |-> s \notin ClientKind \/ visible])

\* The rows of the environment; a flag without one has the empty policy.
LoadConfigs(s) ==
  /\ load[s].pc = "configs"
  /\ Loaded(s, [pc |-> "segments", variants |-> load[s].variants, delivered |-> load[s].delivered,
                policy |-> PolicyOf(policies, EnvironmentOf[s])])

\* Faulty variant: the definitions are delivered as they are stored.
ValidDocumentUnchecked(document, set) == TRUE

\* Faulty variant: policies are checked before the segments are loaded.
ValidDocumentWithoutSegments(document, set) ==
  /\ ValidSegmentSet(set)
  /\ document.delivered => /\ DefinitionWith(document.variants, document.policy)
                           /\ ValidPolicySegments(document.policy, {})

\* validateConfiguration: one definition that is not valid fails the document.
ValidDocument(document, set) ==
  /\ ValidSegmentSet(set)
  /\ document.delivered => /\ DefinitionWith(document.variants, document.policy)
                           /\ ValidPolicySegments(document.policy, DOMAIN set)

\* Faulty variant: segments that only segments reference are left out.
ReferencedDirectly(roots, set) == [k \in DOMAIN set \cap roots |-> set[k]]

\* referencedSegments follows references from `roots` until it finds no other
\* segment: what it has then is in every set that contains `roots` and all that
\* its segments reference.
ReferencedSegments(roots, set) ==
  LET closed(K) == /\ roots \cap DOMAIN set \subseteq K
                   /\ \A k \in K : SegmentReferences(set[k].conditions) \cap DOMAIN set \subseteq K
  IN [k \in {k \in DOMAIN set : \A K \in SUBSET DOMAIN set : closed(K) => k \in K} |-> set[k]]

DeliveredSegments(document, set) ==
  ReferencedSegments(IF document.delivered THEN PolicyReferences(document.policy) ELSE {}, set)

\* The segments, the validation of the document, the segments it delivers.
LoadSegments(s) ==
  /\ load[s].pc = "segments"
  /\ Loaded(s, IF ValidDocument(load[s], segments)
       THEN [pc |-> "loaded", variants |-> load[s].variants, delivered |-> load[s].delivered,
             policy |-> load[s].policy, segments |-> DeliveredSegments(load[s], segments)]
       ELSE Failed)

\* The answer is sent; or a statement fails or the request is given up.
Respond(s) == load[s] # NoLoad /\ Loaded(s, NoLoad)

DocumentNext ==
  \/ DefinitionsNext /\ UNCHANGED <<visible, load>>
  \/ SetClientVisible
  \/ \E s \in Sdk : LoadFlags(s) \/ LoadConfigs(s) \/ LoadSegments(s) \/ Respond(s)

DocumentSpec == DocumentInit /\ [][DocumentNext]_documentVars

------------------------------------------------------------------------------

\* What an SDK evaluates for the flag of a document.
Served(document, context, set) ==
  Evaluate([kind |-> Kind, default |-> Default, enabled |-> TRUE,
            variants |-> document.variants, policy |-> document.policy], context, set)

\* A delivered document never evaluates to PARSE_ERROR, whatever was written
\* between the statements that assembled it, unless a key in it has white space
\* around it.
DeliveredNeverFails ==
  \A s \in Sdk, context \in Contexts :
    (/\ load[s].pc = "loaded" /\ load[s].delivered
     /\ Trimmed(load[s].variants, load[s].policy)) =>
      Served(load[s], context, load[s].segments).error # "PARSE_ERROR"

\* A delivered document evaluates as it would with every segment of the
\* project: the segments left out make no difference to any subject.
DocumentSelfContained ==
  [][\A s \in Sdk, context \in Contexts :
       load[s].pc = "segments" /\ load'[s].pc = "loaded" /\ load'[s].delivered =>
         Served(load'[s], context, load'[s].segments) = Served(load'[s], context, segments)]_documentVars

\* A document fails to validate only when the stored definitions are broken, or
\* when variants or policies were written between the statements reading them.
FailsOnlyWhenBrokenOrMixed ==
  [][\A s \in Sdk :
       (/\ load[s].pc = "segments" /\ load'[s].pc = "failed"
        /\ load[s].variants = variants
        /\ load[s].policy = PolicyOf(policies, EnvironmentOf[s]))
       => ~Consistent]_documentVars

==============================================================================
