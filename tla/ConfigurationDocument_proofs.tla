--------------------- MODULE ConfigurationDocument_proofs --------------------
(***************************************************************************)
(* What interleaved requests on the definitions of a project cannot break, *)
(* and what they can break only by writing over a stale read.              *)
(***************************************************************************)
EXTENDS ConfigurationDocument, Evaluation_proofs

------------------------------------------------------------------------------
\* Calls, and what validation says of a segment and of a policy.

\* The fields a call has.
LEMMA CallTypes ==
  ASSUME NEW call \in Call
  PROVE  /\ call.op = "variants" => call.variants \in VariantLists
         /\ call.op \in {"policy", "scheduled"} =>
              call.environment \in Environment /\ call.policy \in Policies
         /\ call.op \in {"create", "update"} =>
              call.key \in SegmentKeys /\ call.segment \in Segments
         /\ call.op = "update" => call.id \in SegmentKeys
BY DEF Call

\* Adding or replacing a segment leaves a set of segments.
LEMMA WithSegmentTypes ==
  ASSUME NEW set \in SegmentSets, NEW k \in SegmentKeys, NEW segment \in Segments
  PROVE  /\ WithSegment(set, k, segment) \in SegmentSets
         /\ DOMAIN WithSegment(set, k, segment) = DOMAIN set \cup {k}
<1>1. PICK D \in SUBSET SegmentKeys : set \in [D -> Segments]
  BY DEF SegmentSets
<1>2. WithSegment(set, k, segment) \in [D \cup {k} -> Segments]
  BY <1>1 DEF WithSegment
<1> QED
  BY <1>1, <1>2 DEF SegmentSets, WithSegment

\* Whatever is evaluated, the error of the result is a name.
LEMMA ErrorTypes ==
  ASSUME NEW flag, NEW context, NEW set
  PROVE  Evaluate(flag, context, set).error \in ErrorCodes \cup {""}
<1>c. /\ "PARSE_ERROR" \in ErrorCodes
      /\ "TARGETING_KEY_MISSING" \in ErrorCodes
      /\ "INVALID_CONTEXT" \in ErrorCodes
  BY DEF ErrorCodes
<1>r. \A variant, reason, rule : Result(variant, reason, rule).error \in ErrorCodes \cup {""}
  BY DEF Result
<1>f. \A code \in ErrorCodes : Failure(code).error \in ErrorCodes \cup {""}
  BY DEF Failure
<1>s. \A key, reason, rule : Serve(flag, key, reason, rule).error \in ErrorCodes \cup {""}
  <2> TAKE key, reason, rule
  <2>1. CASE HasVariant(flag, key)
    BY <2>1, <1>r DEF Serve
  <2>2. CASE ~HasVariant(flag, key)
    BY <2>2, <1>f, <1>c DEF Serve
  <2> QED
    BY <2>1, <2>2
<1>1. \A rollout, bucket, rule : Allocate(flag, rollout, bucket, rule).error \in ErrorCodes \cup {""}
  BY <1>f, <1>c, <1>s DEF Allocate
<1>2. \A outcome, reason, rule :
        ResolveOutcome(flag, outcome, context, reason, rule).error \in ErrorCodes \cup {""}
  BY <1>f, <1>c, <1>s, <1>1 DEF ResolveOutcome
<1>3. EvaluateFallthrough(flag, context).error \in ErrorCodes \cup {""}
  BY <1>r, <1>2 DEF EvaluateFallthrough
<1>4. EvaluateEnabled(flag, context, set).error \in ErrorCodes \cup {""}
  BY <1>f, <1>c, <1>2, <1>3 DEF EvaluateEnabled
<1> QED
  BY <1>f, <1>c, <1>r, <1>4 DEF Evaluate

\* A candidate that is valid references only stored segments: an updated
\* segment cannot rely on a key it is validated under and not stored under.
LEMMA CandidateReferences ==
  ASSUME NEW set, NEW call, ValidCandidate(set, call), call.op \in {"create", "update"}
  PROVE  SegmentReferences(call.segment.conditions) \subseteq
           IF call.op = "create" THEN DOMAIN set \cup {call.key} ELSE DOMAIN set
<1> DEFINE rest == IF call.op = "create" THEN set ELSE Without(set, call.id)
           new == Candidate(set, call)
           refs == SegmentReferences(call.segment.conditions)
<1>1. new = WithSegment(rest, call.key, call.segment)
  BY DEF Candidate
<1>2. DOMAIN new = DOMAIN rest \cup {call.key} /\ new[call.key] = call.segment
  BY <1>1 DEF WithSegment
<1>3. ReferencesKnown(new) /\ NoCycle(new)
  BY DEF ValidCandidate, ValidSegmentSet
<1>4. refs \subseteq DOMAIN rest \cup {call.key}
  BY <1>2, <1>3 DEF ReferencesKnown
<1>5. call.key \notin refs
  BY <1>2, <1>3 DEF NoCycle
<1>6. call.op = "update" => DOMAIN rest \subseteq DOMAIN set
  BY DEF Without
<1> QED
  BY <1>4, <1>5, <1>6

\* The empty policy suits every valid list of variants.
LEMMA EmptyPolicySuits ==
  ASSUME NEW list, ValidVariants(Kind, list)
  PROVE  DefinitionWith(list, EmptyPolicy) /\ PolicyReferences(EmptyPolicy) = {}
<1>1. EmptyPolicy.rules = <<>> /\ DOMAIN EmptyPolicy.rules = {}
  BY DEF EmptyPolicy
<1>2. EmptyPolicy.fallthrough.variant = "" /\ EmptyPolicy.fallthrough.rollout = <<>>
  BY DEF EmptyPolicy
<1>3. \A allowed : ValidRules(EmptyPolicy.rules, allowed)
  BY <1>1 DEF ValidRules
<1>4. \A allowed : ValidOutcome(EmptyPolicy.fallthrough, allowed, FALSE)
  BY <1>2, EvaluationAssumption DEF ValidOutcome
<1>5. PortablePolicy(EmptyPolicy) /\ PolicyReferences(EmptyPolicy) = {}
  BY <1>1 DEF PortablePolicy, PolicyReferences
<1> QED
  BY <1>3, <1>4, <1>5, DefinitionsAssumption DEF DefinitionWith, ValidDefinition, ValidFlag

\* A definition is accepted only with a valid list of variants.
LEMMA SuitableVariants ==
  ASSUME NEW set, NEW list, SuitsPolicies(set, list)
  PROVE  ValidVariants(Kind, list)
<1>1. \A policy : DefinitionWith(list, policy) => ValidVariants(Kind, list)
  BY DEF DefinitionWith, ValidDefinition, ValidFlag
<1> QED
  BY <1>1 DEF SuitsPolicies

------------------------------------------------------------------------------
\* Types.

\* A request that goes on or is answered keeps the types.
LEMMA RequestTypes ==
  ASSUME DefinitionsTypeOK, UNCHANGED tables, NEW c \in Client,
         NEW r \in Running \cup {Idle} \cup [pc: {"answered"}, error: ErrorCodes \cup {""}],
         request' = [request EXCEPT ![c] = r]
  PROVE  DefinitionsTypeOK'
BY DEF DefinitionsTypeOK, tables

\* A request that goes on keeps the types.
LEMMA ContinueTypes ==
  ASSUME DefinitionsTypeOK, NEW c \in Client, request[c] \in Running,
         NEW pc \in {"flag", "configs", "segments", "write"},
         NEW read \in [variants: VariantLists \cup {<<>>}, policies: PolicySets,
                       segments: SegmentSets],
         Continue(c, pc, read)
  PROVE  DefinitionsTypeOK'
<1>1. request' = [request EXCEPT ![c] = [request[c] EXCEPT !.pc = pc, !.read = read]]
  BY DEF Continue, DefinitionsTypeOK
<1>2. [request[c] EXCEPT !.pc = pc, !.read = read] \in Running
  BY DEF Running
<1> QED
  BY <1>1, <1>2, RequestTypes DEF Continue

\* An answer keeps the types.
LEMMA FinishTypes ==
  ASSUME DefinitionsTypeOK, NEW c \in Client, Finish(c)
  PROVE  DefinitionsTypeOK'
BY RequestTypes DEF Finish

\* A request at a statement is running, and its call is of one of `ops`.
LEMMA AtRunning ==
  ASSUME DefinitionsTypeOK, NEW c \in Client, NEW pc, NEW ops, At(c, pc, ops),
         pc \in {"flag", "configs", "segments", "write"}
  PROVE  request[c] \in Running /\ request[c].call \in Call /\ request[c].call.op \in ops
<1>1. request[c] \in Running \cup {Idle} \cup [pc: {"answered"}, error: ErrorCodes \cup {""}]
  BY DEF DefinitionsTypeOK
<1>2. request[c].pc = pc /\ request[c].call.op \in ops
  BY DEF At
<1>3. request[c] # Idle
  BY <1>2 DEF Idle
<1>4. request[c] \notin [pc: {"answered"}, error: ErrorCodes \cup {""}]
  BY <1>2
<1>5. request[c] \in Running
  BY <1>1, <1>3, <1>4
<1> QED
  BY <1>2, <1>5 DEF Running

\* The empty tables.
LEMMA EmptyTypes == <<>> \in PolicySets /\ <<>> \in SegmentSets
<1>1. <<>> \in [{} -> Policies] /\ <<>> \in [{} -> Segments]
  OBVIOUS
<1> QED
  BY <1>1 DEF PolicySets, SegmentSets

\* The types hold at first.
LEMMA InitialTypes == DefinitionsInit => DefinitionsTypeOK
<1> SUFFICES ASSUME DefinitionsInit PROVE DefinitionsTypeOK
  OBVIOUS
<1>1. segments \in SegmentSets
  <2>1. DOMAIN segments \subseteq SegmentKeys /\ segments \in [DOMAIN segments -> Segments]
    BY DefinitionsAssumption DEF DefinitionsInit
  <2> QED
    BY <2>1 DEF SegmentSets
<1> QED
  BY <1>1, EmptyTypes DEF DefinitionsInit, DefinitionsTypeOK

\* A request that begins keeps the types.
LEMMA BeginTypes ==
  ASSUME DefinitionsTypeOK, NEW c \in Client, NEW call \in Call, Begin(c, call)
  PROVE  DefinitionsTypeOK'
<1>1. FirstRead(call.op) \in {"flag", "configs", "segments", "write"}
  BY DEF FirstRead
<1>2. NothingRead \in [variants: VariantLists \cup {<<>>}, policies: PolicySets,
                       segments: SegmentSets]
  BY EmptyTypes DEF NothingRead
<1>3. [pc |-> FirstRead(call.op), call |-> call, read |-> NothingRead] \in Running
  BY <1>1, <1>2 DEF Running
<1> QED
  BY <1>3, RequestTypes DEF Begin

\* A read keeps the types.
LEMMA ReadTypes ==
  ASSUME DefinitionsTypeOK, NEW c \in Client, ReadFlag(c) \/ ReadConfigs(c) \/ ReadSegments(c)
  PROVE  DefinitionsTypeOK'
<1> DEFINE Read == [variants: VariantLists \cup {<<>>}, policies: PolicySets,
                    segments: SegmentSets]
           read == request[c].read
<1>1. request[c] \in Running /\ read \in Read
  <2>1. request[c] \in Running
    BY AtRunning DEF ReadFlag, ReadConfigs, ReadSegments
  <2> QED
    BY <2>1 DEF Running
<1>2. /\ [read EXCEPT !.variants = variants] \in Read
      /\ [read EXCEPT !.policies = policies] \in Read
      /\ [read EXCEPT !.segments = segments] \in Read
  BY <1>1 DEF DefinitionsTypeOK
<1>3. CASE ReadFlag(c)
  BY <1>1, <1>2, <1>3, ContinueTypes, FinishTypes DEF ReadFlag
<1>4. CASE ReadConfigs(c)
  BY <1>1, <1>2, <1>4, ContinueTypes, FinishTypes DEF ReadConfigs, Decide
<1>5. CASE ReadSegments(c)
  <2>1. CASE At(c, "segments", {"preview"})
    <3>1. PICK enabled \in BOOLEAN :
            request' = [request EXCEPT ![c] =
              [pc |-> "answered",
               error |-> Preview(request[c].call, [read EXCEPT !.segments = segments],
                                 enabled).error]]
      BY <1>5, <2>1 DEF ReadSegments, At
    <3>2. Preview(request[c].call, [read EXCEPT !.segments = segments], enabled).error
            \in ErrorCodes \cup {""}
      BY ErrorTypes DEF Preview
    <3>3. UNCHANGED tables
      BY <1>5, <2>1 DEF ReadSegments, At
    <3> QED
      BY <3>1, <3>2, <3>3, RequestTypes
  <2>2. CASE ~At(c, "segments", {"preview"})
    BY <1>1, <1>2, <1>5, <2>2, ContinueTypes, FinishTypes DEF ReadSegments, Decide
  <2> QED
    BY <2>1, <2>2
<1> QED
  BY <1>3, <1>4, <1>5

\* A write keeps the types.
LEMMA WriteTypes ==
  ASSUME DefinitionsTypeOK, NEW c \in Client,
         WriteVariants(c) \/ WritePolicy(c) \/ InsertSegment(c) \/ UpdateSegment(c)
  PROVE  DefinitionsTypeOK'
<1> DEFINE Requests ==
      [Client -> Running \cup {Idle} \cup [pc: {"answered"}, error: ErrorCodes \cup {""}]]
<1>0. request' = [request EXCEPT ![c] = Idle] /\ writes' = writes + 1
  BY DEF WriteVariants, WritePolicy, InsertSegment, UpdateSegment, Wrote
<1>a. request' \in Requests
  BY <1>0 DEF DefinitionsTypeOK
<1>n. writes \in Nat
  BY DEF DefinitionsTypeOK
<1>b. writes' \in Nat
  BY <1>0, <1>n
<1>1. request' \in Requests /\ writes' \in Nat
  BY <1>a, <1>b
<1> HIDE DEF Requests
<1>d. variants \in VariantLists \cup {<<>>} /\ policies \in PolicySets /\ segments \in SegmentSets
  BY DEF DefinitionsTypeOK
<1>e. /\ variants' \in VariantLists \cup {<<>>}
      /\ policies' \in PolicySets
      /\ segments' \in SegmentSets
      => DefinitionsTypeOK'
  BY <1>1 DEF DefinitionsTypeOK, Requests
<1>2. CASE WriteVariants(c)
  <2>1. request[c].call.variants \in VariantLists
    BY <1>2, AtRunning, CallTypes DEF WriteVariants
  <2> QED
    BY <1>2, <2>1, <1>d, <1>e DEF WriteVariants
<1>3. CASE WritePolicy(c)
  <2>1. request[c].call.environment \in Environment /\ request[c].call.policy \in Policies
    BY <1>3, AtRunning, CallTypes DEF WritePolicy
  <2>2. PICK D \in SUBSET Environment : policies \in [D -> Policies]
    BY DEF DefinitionsTypeOK, PolicySets
  <2>3. policies' \in [D \cup {request[c].call.environment} -> Policies]
    BY <1>3, <2>1, <2>2 DEF WritePolicy
  <2>4. policies' \in PolicySets
    BY <2>1, <2>3 DEF PolicySets
  <2> QED
    BY <1>3, <2>4, <1>d, <1>e DEF WritePolicy
<1>4. CASE InsertSegment(c)
  <2>1. request[c].call.key \in SegmentKeys /\ request[c].call.segment \in Segments
    BY <1>4, AtRunning, CallTypes DEF InsertSegment
  <2>2. segments' \in SegmentSets
    BY <1>4, <2>1, WithSegmentTypes DEF InsertSegment, DefinitionsTypeOK
  <2> QED
    BY <1>4, <2>2, <1>d, <1>e DEF InsertSegment
<1>5. CASE UpdateSegment(c)
  <2>1. request[c].call.id \in SegmentKeys /\ request[c].call.segment \in Segments
    BY <1>5, AtRunning, CallTypes DEF UpdateSegment
  <2>2. segments' \in SegmentSets
    BY <1>5, <2>1, WithSegmentTypes DEF UpdateSegment, DefinitionsTypeOK
  <2> QED
    BY <1>5, <2>2, <1>d, <1>e DEF UpdateSegment
<1> QED
  BY <1>2, <1>3, <1>4, <1>5

\* Every step of a request keeps the types.
LEMMA DefinitionsTypeStep ==
  ASSUME DefinitionsTypeOK, DefinitionsNext
  PROVE  DefinitionsTypeOK'
<1>1. PICK c \in Client :
        \/ \E call \in Call : Begin(c, call)
        \/ ReadFlag(c) \/ ReadConfigs(c) \/ ReadSegments(c)
        \/ WriteVariants(c) \/ WritePolicy(c) \/ InsertSegment(c) \/ UpdateSegment(c)
        \/ Leave(c)
  BY DEF DefinitionsNext
<1>2. CASE Leave(c)
  BY <1>2, FinishTypes DEF Leave
<1> QED
  BY <1>1, <1>2, BeginTypes, ReadTypes, WriteTypes

------------------------------------------------------------------------------
\* References.

\* What a request about to write has validated against what it has read.
Validated(c) ==
  LET call == request[c].call
      read == request[c].read
  IN /\ At(c, "write", {"variants"}) => SuitsPolicies(read.policies, call.variants)
     /\ At(c, "segments", {"policy"}) => DefinitionWith(read.variants, call.policy)
     /\ At(c, "write", {"policy", "scheduled"}) =>
          /\ DefinitionWith(read.variants, call.policy)
          /\ PolicyReferences(call.policy) \subseteq DOMAIN segments
     /\ At(c, "write", {"create", "update"}) =>
          /\ ValidCandidate(read.segments, call)
          /\ DOMAIN read.segments \subseteq DOMAIN segments

DefinitionsInv ==
  /\ ReferencesResolve
  /\ ValidVariants(Kind, variants)
  /\ \A c \in Client : Validated(c)

\* No request is under way at first, and no segment refers to an unknown one.
LEMMA InitialInv == DefinitionsInit => DefinitionsInv
<1> SUFFICES ASSUME DefinitionsInit PROVE DefinitionsInv
  OBVIOUS
<1>1. ReferencesResolve
  <2>1. ReferencesKnown(segments)
    BY DefinitionsAssumption DEF DefinitionsInit, ValidSegmentSet
  <2>2. DOMAIN policies = {}
    BY DEF DefinitionsInit
  <2> QED
    BY <2>1, <2>2 DEF ReferencesResolve
<1>2. ValidVariants(Kind, variants)
  <2>1. variants = <<>> /\ DOMAIN variants = {}
    BY DEF DefinitionsInit
  <2> QED
    BY <2>1 DEF ValidVariants
<1>3. \A c \in Client : Validated(c)
  BY DEF DefinitionsInit, Validated, At, Idle
<1> QED
  BY <1>1, <1>2, <1>3 DEF DefinitionsInv

\* Another request's progress leaves what c has validated as it is, as long as
\* no segment disappears.
LEMMA OthersValidated ==
  ASSUME NEW c \in Client, Validated(c), request'[c] = request[c],
         DOMAIN segments \subseteq DOMAIN segments'
  PROVE  Validated(c)'
BY DEF Validated, At

\* A request that does not write: only its own validation is at stake.
LEMMA QuietInv ==
  ASSUME DefinitionsInv, UNCHANGED tables, NEW c \in Client, Validated(c)',
         \A d \in Client \ {c} : request'[d] = request[d]
  PROVE  DefinitionsInv'
<1>1. UNCHANGED <<variants, policies, segments>>
  BY DEF tables
<1>2. ReferencesResolve' /\ ValidVariants(Kind, variants)'
  BY <1>1 DEF DefinitionsInv, ReferencesResolve
<1>3. \A d \in Client \ {c} : Validated(d)'
  BY <1>1, OthersValidated DEF DefinitionsInv
<1> QED
  BY <1>2, <1>3 DEF DefinitionsInv

\* A request at rest has validated nothing.
LEMMA RestValidated ==
  ASSUME DefinitionsTypeOK, NEW c \in Client, NEW r, request' = [request EXCEPT ![c] = r],
         r.pc \notin {"write", "segments"}
  PROVE  Validated(c)' /\ \A d \in Client \ {c} : request'[d] = request[d]
<1>1. request'[c] = r /\ \A d \in Client \ {c} : request'[d] = request[d]
  BY DEF DefinitionsTypeOK
<1>2. request'[c].pc \notin {"write", "segments"}
  BY <1>1
<1> QED
  BY <1>1, <1>2 DEF Validated, At

\* A request that begins has validated nothing.
LEMMA BeginInv ==
  ASSUME DefinitionsTypeOK, DefinitionsInv, NEW c \in Client, NEW call \in Call, Begin(c, call)
  PROVE  DefinitionsInv'
<1> DEFINE r == [pc |-> FirstRead(call.op), call |-> call, read |-> NothingRead]
<1>1. /\ request'[c] = r
      /\ \A d \in Client \ {c} : request'[d] = request[d]
      /\ UNCHANGED tables
  BY DEF Begin, DefinitionsTypeOK
<1>2. Validated(c)'
  <2>1. r.pc # "write" /\ (r.call.op = "policy" => r.pc # "segments")
    BY DEF FirstRead
  <2> QED
    BY <1>1, <2>1 DEF Validated, At
<1> QED
  BY <1>1, <1>2, QuietInv

\* A request that is answered leaves the tables, and has nothing left to write.
LEMMA FinishInv ==
  ASSUME DefinitionsTypeOK, DefinitionsInv, NEW c \in Client, Finish(c)
  PROVE  DefinitionsInv'
<1>1. request' = [request EXCEPT ![c] = Idle] /\ Idle.pc \notin {"write", "segments"}
  BY DEF Finish, Idle
<1> QED
  BY <1>1, RestValidated, QuietInv DEF Finish

\* Where a request that goes on stands.
LEMMA Continued ==
  ASSUME DefinitionsTypeOK, NEW c \in Client, request[c] \in Running, NEW pc, NEW read,
         Continue(c, pc, read)
  PROVE  /\ request'[c].pc = pc
         /\ request'[c].call = request[c].call
         /\ request'[c].read = read
         /\ \A d \in Client \ {c} : request'[d] = request[d]
         /\ UNCHANGED tables
<1>1. request' = [request EXCEPT ![c] = [request[c] EXCEPT !.pc = pc, !.read = read]]
  BY DEF Continue, DefinitionsTypeOK
<1>2. /\ request'[c] = [request[c] EXCEPT !.pc = pc, !.read = read]
      /\ \A d \in Client \ {c} : request'[d] = request[d]
  BY <1>1 DEF DefinitionsTypeOK
<1>3. /\ [request[c] EXCEPT !.pc = pc, !.read = read].pc = pc
      /\ [request[c] EXCEPT !.pc = pc, !.read = read].call = request[c].call
      /\ [request[c] EXCEPT !.pc = pc, !.read = read].read = read
  BY DEF Running
<1>4. UNCHANGED tables
  BY DEF Continue
<1> QED
  BY <1>2, <1>3, <1>4

\* A policy request validates its policy against the variants it reads.
LEMMA ReadFlagInv ==
  ASSUME DefinitionsTypeOK, DefinitionsInv, NEW c \in Client, ReadFlag(c)
  PROVE  DefinitionsInv'
<1> DEFINE read == [request[c].read EXCEPT !.variants = variants]
<1>1. request[c] \in Running /\ read.variants = variants
  <2>1. request[c] \in Running
    BY AtRunning DEF ReadFlag
  <2> QED
    BY <2>1 DEF Running
<1>2. CASE Finish(c)
  BY <1>2, FinishInv
<1>3. CASE At(c, "flag", {"scheduled", "preview"}) /\ Continue(c, "configs", read)
  <2>1. request'[c].pc = "configs"
    BY <1>1, <1>3, Continued
  <2>2. Validated(c)'
    BY <2>1 DEF Validated, At
  <2> QED
    BY <1>1, <1>3, <2>2, Continued, QuietInv
<1>4. CASE /\ At(c, "flag", {"policy"}) /\ Continue(c, "segments", read)
           /\ DefinitionWith(variants, request[c].call.policy)
  <2>0. /\ request'[c].pc = "segments" /\ request'[c].call = request[c].call
        /\ request'[c].read = read
    BY <1>1, <1>4, Continued
  <2>1. /\ request'[c].pc = "segments" /\ request'[c].call = request[c].call
        /\ request'[c].read.variants = variants
    BY <1>1, <2>0
  <2>2. Validated(c)'
    BY <1>4, <2>1 DEF Validated, At
  <2> QED
    BY <1>1, <1>4, <2>2, Continued, QuietInv
<1> QED
  BY <1>2, <1>3, <1>4 DEF ReadFlag

\* A variants request validates against the policies it reads.
LEMMA ReadConfigsInv ==
  ASSUME DefinitionsTypeOK, DefinitionsInv, NEW c \in Client, ReadConfigs(c)
  PROVE  DefinitionsInv'
<1> DEFINE read == [request[c].read EXCEPT !.policies = policies]
<1>1. request[c] \in Running /\ read.policies = policies
  <2>1. request[c] \in Running
    BY AtRunning DEF ReadConfigs
  <2> QED
    BY <2>1 DEF Running
<1>2. CASE Finish(c)
  BY <1>2, FinishInv
<1>3. CASE At(c, "configs", {"scheduled", "preview"}) /\ Continue(c, "segments", read)
  <2>1. request'[c].pc = "segments" /\ request'[c].call = request[c].call
    BY <1>1, <1>3, Continued
  <2>2. request'[c].call.op \in {"scheduled", "preview"}
    BY <1>3, <2>1 DEF At
  <2>3. Validated(c)'
    BY <2>1, <2>2 DEF Validated, At
  <2> QED
    BY <1>1, <1>3, <2>3, Continued, QuietInv
<1>4. CASE /\ At(c, "configs", {"variants"}) /\ Continue(c, "write", read)
           /\ SuitsPolicies(policies, request[c].call.variants)
  <2>0. /\ request'[c].pc = "write" /\ request'[c].call = request[c].call
        /\ request'[c].read = read
    BY <1>1, <1>4, Continued
  <2>1. /\ request'[c].pc = "write" /\ request'[c].call = request[c].call
        /\ request'[c].read.policies = policies
    BY <1>1, <2>0
  <2>2. Validated(c)'
    BY <1>4, <2>1 DEF Validated, At
  <2> QED
    BY <1>1, <1>4, <2>2, Continued, QuietInv
<1> QED
  BY <1>2, <1>3, <1>4 DEF ReadConfigs, Decide

\* What a request goes on to write was validated against the segments it read.
LEMMA ReadSegmentsInv ==
  ASSUME DefinitionsTypeOK, DefinitionsInv, NEW c \in Client, ReadSegments(c)
  PROVE  DefinitionsInv'
<1> DEFINE call == request[c].call
           read == [request[c].read EXCEPT !.segments = segments]
<1>1. /\ request[c] \in Running /\ read.segments = segments
      /\ read.variants = request[c].read.variants
  <2>1. request[c] \in Running
    BY AtRunning DEF ReadSegments
  <2> QED
    BY <2>1 DEF Running
<1>2. CASE Finish(c)
  BY <1>2, FinishInv
<1>3. CASE At(c, "segments", {"preview"})
  <2>0. PICK enabled \in BOOLEAN :
          request' = [request EXCEPT ![c] =
            [pc |-> "answered", error |-> Preview(call, read, enabled).error]]
    BY <1>3 DEF ReadSegments, At
  <2> DEFINE r == [pc |-> "answered", error |-> Preview(call, read, enabled).error]
  <2>p. r.pc \notin {"write", "segments"}
    OBVIOUS
  <2> HIDE DEF r
  <2>1. request' = [request EXCEPT ![c] = r] /\ r.pc \notin {"write", "segments"}
    BY <2>0, <2>p DEF r
  <2>2. UNCHANGED tables
    BY <1>3 DEF ReadSegments, At
  <2>3. Validated(c)' /\ \A d \in Client \ {c} : request'[d] = request[d]
    BY <2>1, RestValidated
  <2> QED
    BY <2>2, <2>3, QuietInv
<1>4. ASSUME Continue(c, "write", read),
             \/ At(c, "segments", {"policy"}) /\ ValidPolicySegments(call.policy, DOMAIN segments)
             \/ /\ At(c, "segments", {"scheduled"})
                /\ DefinitionWith(read.variants, call.policy)
                /\ ValidPolicySegments(call.policy, DOMAIN segments)
             \/ At(c, "segments", {"create", "update"}) /\ ValidCandidate(segments, call)
      PROVE  DefinitionsInv'
  <2>1. /\ request'[c].pc = "write" /\ request'[c].call = call
        /\ request'[c].read = read
        /\ \A d \in Client \ {c} : request'[d] = request[d]
        /\ UNCHANGED tables
    BY <1>1, <1>4, Continued
  <2>2. UNCHANGED segments
    BY <2>1 DEF tables
  <2>3. ASSUME call.op \in {"policy", "scheduled"} PROVE Validated(c)'
    <3>1. DefinitionWith(read.variants, call.policy)
      BY <1>1, <1>4, <2>3 DEF DefinitionsInv, Validated, At
    <3>2. PolicyReferences(call.policy) \subseteq DOMAIN segments
      BY <1>4, <2>3 DEF At, ValidPolicySegments
    <3> QED
      BY <2>1, <2>2, <2>3, <3>1, <3>2 DEF Validated, At
  <2>4. ASSUME call.op \in {"create", "update"} PROVE Validated(c)'
    <3>1. ValidCandidate(segments, call)
      BY <1>4, <2>4 DEF At
    <3> QED
      BY <1>1, <2>1, <2>2, <2>4, <3>1 DEF Validated, At
  <2>5. Validated(c)'
    BY <1>4, <2>3, <2>4 DEF At
  <2> QED
    BY <2>1, <2>5, QuietInv
<1>5. \/ Finish(c)
      \/ At(c, "segments", {"preview"})
      \/ /\ Continue(c, "write", read)
         /\ \/ At(c, "segments", {"policy"}) /\ ValidPolicySegments(call.policy, DOMAIN segments)
            \/ /\ At(c, "segments", {"scheduled"})
               /\ DefinitionWith(read.variants, call.policy)
               /\ ValidPolicySegments(call.policy, DOMAIN segments)
            \/ At(c, "segments", {"create", "update"}) /\ ValidCandidate(segments, call)
  BY DEF ReadSegments, Decide
<1> QED
  BY <1>2, <1>3, <1>4, <1>5

\* Every stored segment still references stored ones after a valid one is
\* stored under a key that is new or its own.
LEMMA WithSegmentReferences ==
  ASSUME ReferencesResolve, NEW k, NEW segment,
         SegmentReferences(segment.conditions) \subseteq DOMAIN segments \cup {k},
         segments' = WithSegment(segments, k, segment), UNCHANGED policies
  PROVE  ReferencesResolve' /\ DOMAIN segments \subseteq DOMAIN segments'
<1>1. /\ DOMAIN segments' = DOMAIN segments \cup {k}
      /\ segments'[k] = segment
      /\ \A j \in DOMAIN segments \ {k} : segments'[j] = segments[j]
  BY DEF WithSegment
<1>2. ReferencesKnown(segments)'
  BY <1>1 DEF ReferencesResolve, ReferencesKnown
<1> QED
  BY <1>1, <1>2 DEF ReferencesResolve

\* A row is stored as it was sent, the others are left alone.
LEMMA StoredPolicies ==
  ASSUME NEW x, NEW policy,
         policies' = [e \in DOMAIN policies \cup {x} |-> IF e = x THEN policy ELSE policies[e]]
  PROVE  \A e \in DOMAIN policies' :
           policies'[e] = policy \/ (e \in DOMAIN policies /\ policies'[e] = policies[e])
<1>1. DOMAIN policies' = DOMAIN policies \cup {x}
  OBVIOUS
<1>2. \A e \in DOMAIN policies \cup {x} :
        policies'[e] = IF e = x THEN policy ELSE policies[e]
  OBVIOUS
<1> QED
  BY <1>1, <1>2

\* Every write keeps references resolved, keeps the segments there are and
\* keeps the variants valid.
LEMMA WriteReferences ==
  ASSUME DefinitionsTypeOK, DefinitionsInv, NEW c \in Client,
         WriteVariants(c) \/ WritePolicy(c) \/ InsertSegment(c) \/ UpdateSegment(c)
  PROVE  /\ ReferencesResolve'
         /\ DOMAIN segments \subseteq DOMAIN segments'
         /\ ValidVariants(Kind, variants)'
<1> DEFINE call == request[c].call
           read == request[c].read
<1>0. ReferencesResolve /\ ValidVariants(Kind, variants) /\ Validated(c)
  BY DEF DefinitionsInv
<1>1. CASE WriteVariants(c)
  <2>1. ValidVariants(Kind, call.variants)
    BY <1>0, <1>1, SuitableVariants DEF WriteVariants, Validated
  <2> QED
    BY <1>0, <1>1, <2>1 DEF WriteVariants, ReferencesResolve
<1>2. CASE WritePolicy(c)
  <2>1. PolicyReferences(call.policy) \subseteq DOMAIN segments
    BY <1>0, <1>2 DEF WritePolicy, Validated
  <2>p. \A e \in DOMAIN policies' :
          policies'[e] = call.policy \/ (e \in DOMAIN policies /\ policies'[e] = policies[e])
    BY <1>2, StoredPolicies DEF WritePolicy
  <2>2. UNCHANGED <<variants, segments>>
    BY <1>2 DEF WritePolicy
  <2> QED
    BY <1>0, <2>1, <2>p, <2>2 DEF ReferencesResolve
<1>3. CASE InsertSegment(c)
  <2>1. call.op = "create" /\ ValidCandidate(read.segments, call)
        /\ DOMAIN read.segments \subseteq DOMAIN segments
    BY <1>0, <1>3 DEF InsertSegment, Validated, At
  <2>2. SegmentReferences(call.segment.conditions) \subseteq DOMAIN segments \cup {call.key}
    BY <2>1, CandidateReferences
  <2> QED
    BY <1>0, <1>3, <2>2, WithSegmentReferences DEF InsertSegment
<1>4. CASE UpdateSegment(c)
  <2>1. call.op = "update" /\ ValidCandidate(read.segments, call)
        /\ DOMAIN read.segments \subseteq DOMAIN segments
    BY <1>0, <1>4 DEF UpdateSegment, Validated, At
  <2>2. SegmentReferences(call.segment.conditions) \subseteq DOMAIN segments \cup {call.id}
    BY <2>1, CandidateReferences
  <2> QED
    BY <1>0, <1>4, <2>2, WithSegmentReferences DEF UpdateSegment
<1> QED
  BY <1>1, <1>2, <1>3, <1>4

\* A write of what was validated leaves references to stored segments only.
LEMMA WriteInv ==
  ASSUME DefinitionsTypeOK, DefinitionsInv, NEW c \in Client,
         WriteVariants(c) \/ WritePolicy(c) \/ InsertSegment(c) \/ UpdateSegment(c)
  PROVE  DefinitionsInv'
<1>1. request' = [request EXCEPT ![c] = Idle]
  BY DEF WriteVariants, WritePolicy, InsertSegment, UpdateSegment, Wrote
<1>2. Idle.pc \notin {"write", "segments"}
  BY DEF Idle
<1>3. Validated(c)' /\ \A d \in Client \ {c} : request'[d] = request[d]
  BY <1>1, <1>2, RestValidated
<1>4. \A d \in Client \ {c} : Validated(d)'
  BY <1>3, WriteReferences, OthersValidated DEF DefinitionsInv
<1> QED
  BY <1>3, <1>4, WriteReferences DEF DefinitionsInv

\* Every step of a request preserves the invariant of the definitions.
LEMMA DefinitionsInvStep ==
  ASSUME DefinitionsTypeOK, DefinitionsInv, DefinitionsNext
  PROVE  DefinitionsInv'
<1>1. PICK c \in Client :
        \/ \E call \in Call : Begin(c, call)
        \/ ReadFlag(c) \/ ReadConfigs(c) \/ ReadSegments(c)
        \/ WriteVariants(c) \/ WritePolicy(c) \/ InsertSegment(c) \/ UpdateSegment(c)
        \/ Leave(c)
  BY DEF DefinitionsNext
<1>2. CASE Leave(c)
  BY <1>2, FinishInv DEF Leave
<1> QED
  BY <1>1, <1>2, BeginInv, ReadFlagInv, ReadConfigsInv, ReadSegmentsInv, WriteInv

------------------------------------------------------------------------------
\* Consistency.

\* Replacing a segment under its own key is as good as replacing it under the
\* key it was validated under: no stored segment references either key anew.
LEMMA ReplacedSegment ==
  ASSUME NEW set, ValidSegmentSet(set), NEW call, call.op = "update", ValidCandidate(set, call)
  PROVE  ValidSegmentSet(WithSegment(set, call.id, call.segment))
<1> DEFINE k == call.key
           id == call.id
           new == Candidate(set, call)
           stored == WithSegment(set, id, call.segment)
           refs(s, j) == SegmentReferences(s[j].conditions)
<1>1. /\ id \in DOMAIN set /\ k \notin DOMAIN set \ {id}
      /\ ValidSegmentSet(new)
  BY DEF ValidCandidate
<1>2. new = WithSegment(Without(set, id), k, call.segment)
  BY DEF Candidate
<1>3. /\ DOMAIN new = (DOMAIN set \ {id}) \cup {k}
      /\ new[k] = call.segment
      /\ \A j \in DOMAIN set \ {id} : new[j] = set[j]
  BY <1>1, <1>2 DEF WithSegment, Without
<1>4. /\ DOMAIN stored = DOMAIN set
      /\ stored[id] = call.segment
      /\ \A j \in DOMAIN set \ {id} : stored[j] = set[j]
  BY <1>1 DEF WithSegment
<1>5. CASE k = id
  <2>1. /\ \A j \in DOMAIN stored : ValidSegment(j, stored[j])
                                    /\ PortableConditions(stored[j].conditions)
        /\ ReferencesKnown(stored)
    BY <1>1, <1>3, <1>4, <1>5 DEF ValidSegmentSet, ReferencesKnown
  <2>2. NoCycle(stored)
    BY <1>1, <1>3, <1>4, <1>5 DEF ValidSegmentSet, NoCycle
  <2> QED
    BY <2>1, <2>2 DEF ValidSegmentSet
<1>6. CASE k # id
  <2>1. k \notin DOMAIN set /\ id \notin DOMAIN new
    BY <1>1, <1>3, <1>6
  <2>2. \A j \in DOMAIN new : refs(new, j) \subseteq DOMAIN new
    BY <1>1 DEF ValidSegmentSet, ReferencesKnown
  <2>3. refs(new, k) \subseteq DOMAIN set \ {id}
    <3>1. refs(new, k) \cap {k} = {}
      BY <1>1, <1>3 DEF ValidSegmentSet, NoCycle
    <3> QED
      BY <1>3, <2>2, <3>1
  <2>4. \A j \in DOMAIN set \ {id} : refs(set, j) \subseteq DOMAIN set \ {id}
    <3>1. \A j \in DOMAIN set : refs(set, j) \subseteq DOMAIN set
      BY DEF ValidSegmentSet, ReferencesKnown
    <3> QED
      BY <1>3, <2>1, <2>2, <3>1
  <2>5. ReferencesKnown(stored)
    BY <1>3, <1>4, <2>3, <2>4 DEF ReferencesKnown
  <2>6. \A j \in DOMAIN stored : ValidSegment(j, stored[j])
                                 /\ PortableConditions(stored[j].conditions)
    <3>1. /\ ValidSegment(id, set[id]) /\ ValidSegment(k, call.segment)
          /\ PortableConditions(call.segment.conditions)
      BY <1>1, <1>3 DEF ValidSegmentSet
    <3>2. ValidSegment(id, call.segment)
      BY <3>1 DEF ValidSegment
    <3> QED
      BY <1>4, <3>1, <3>2 DEF ValidSegmentSet
  <2>7. NoCycle(stored)
    <3> SUFFICES ASSUME NEW S \in SUBSET DOMAIN stored, S # {}
                 PROVE  \E j \in S : refs(stored, j) \cap S = {}
      BY DEF NoCycle
    <3>1. CASE S = {id}
      BY <1>3, <1>4, <2>3, <3>1
    <3>2. CASE S # {id}
      <4>1. S \ {id} \in SUBSET DOMAIN new /\ S \ {id} # {}
        BY <1>3, <1>4, <3>2
      <4>2. PICK j \in S \ {id} : refs(new, j) \cap (S \ {id}) = {}
        BY <1>1, <4>1 DEF ValidSegmentSet, NoCycle
      <4>3. refs(stored, j) = refs(new, j) /\ id \notin refs(new, j)
        BY <1>3, <1>4, <2>1, <2>2, <4>1, <4>2
      <4> QED
        BY <4>2, <4>3
    <3> QED
      BY <3>1, <3>2
  <2> QED
    BY <2>5, <2>6, <2>7 DEF ValidSegmentSet
<1> QED
  BY <1>5, <1>6

\* A write that nothing it was validated against has changed under.
LEMMA FreshWrite ==
  ASSUME DefinitionsTypeOK, DefinitionsInv, NEW c \in Client, Consistent, Fresh(c),
         WriteVariants(c) \/ WritePolicy(c) \/ InsertSegment(c) \/ UpdateSegment(c)
  PROVE  Consistent'
<1> DEFINE call == request[c].call
           read == request[c].read
<1>0. Validated(c) /\ ReferencesResolve'
  BY WriteReferences DEF DefinitionsInv
<1>1. CASE WriteVariants(c)
  <2>1. call.op = "variants" /\ SuitsPolicies(policies, call.variants)
    BY <1>0, <1>1 DEF WriteVariants, Validated, Fresh, At
  <2> QED
    BY <1>0, <1>1, <2>1 DEF WriteVariants, Consistent, SuitsPolicies
<1>2. CASE WritePolicy(c)
  <2>1. DefinitionWith(variants, call.policy)
    BY <1>0, <1>2 DEF WritePolicy, Validated, Fresh, At
  <2>p. \A e \in DOMAIN policies' :
          policies'[e] = call.policy \/ (e \in DOMAIN policies /\ policies'[e] = policies[e])
    BY <1>2, StoredPolicies DEF WritePolicy
  <2>2. UNCHANGED <<variants, segments>>
    BY <1>2 DEF WritePolicy
  <2> QED
    BY <1>0, <2>1, <2>p, <2>2 DEF Consistent
<1>3. CASE InsertSegment(c)
  <2>1. call.op = "create" /\ ValidCandidate(segments, call)
    BY <1>0, <1>3 DEF InsertSegment, Validated, Fresh, At
  <2>2. ValidSegmentSet(segments')
    BY <1>3, <2>1 DEF InsertSegment, ValidCandidate, Candidate
  <2> QED
    BY <1>0, <1>3, <2>2 DEF InsertSegment, Consistent
<1>4. CASE UpdateSegment(c)
  <2>1. call.op = "update" /\ ValidCandidate(segments, call)
    BY <1>0, <1>4 DEF UpdateSegment, Validated, Fresh, At
  <2>2. ValidSegmentSet(segments')
    BY <1>4, <2>1, ReplacedSegment DEF UpdateSegment, Consistent
  <2> QED
    BY <1>0, <1>4, <2>2 DEF UpdateSegment, Consistent
<1> QED
  BY <1>1, <1>2, <1>3, <1>4

------------------------------------------------------------------------------
\* Documents.

\* The policy of an environment is a stored one or the empty one.
LEMMA PolicyOfTypes ==
  ASSUME DefinitionsTypeOK, NEW e
  PROVE  PolicyOf(policies, e) \in Policies \cup {EmptyPolicy}
<1>1. PICK D \in SUBSET Environment : policies \in [D -> Policies]
  BY DEF DefinitionsTypeOK, PolicySets
<1> QED
  BY <1>1 DEF PolicyOf

\* The segments of a document are some of those that were loaded.
LEMMA DeliveredTypes ==
  ASSUME NEW roots, NEW set \in SegmentSets
  PROVE  ReferencedSegments(roots, set) \in SegmentSets
<1>1. PICK D \in SUBSET SegmentKeys : set \in [D -> Segments]
  BY DEF SegmentSets
<1>2. \A K : [k \in DOMAIN set \cap K |-> set[k]] \in SegmentSets
  <2> TAKE K
  <2>1. [k \in DOMAIN set \cap K |-> set[k]] \in [D \cap K -> Segments]
    BY <1>1
  <2> QED
    BY <2>1 DEF SegmentSets
<1>3. PICK K : ReferencedSegments(roots, set) = [k \in DOMAIN set \cap K |-> set[k]]
  BY DEF ReferencedSegments
<1> QED
  BY <1>2, <1>3

\* A download keeps the types.
LEMMA LoadTypes ==
  ASSUME DocumentTypeOK, NEW s \in Sdk, LoadFlags(s) \/ LoadConfigs(s) \/ LoadSegments(s) \/ Respond(s)
  PROVE  DocumentTypeOK'
<1> DEFINE Loads == Loading \cup {NoLoad, Failed}
<1>1. /\ load \in [Sdk -> Loads]
      /\ variants \in VariantLists \cup {<<>>}
      /\ segments \in SegmentSets
      /\ DefinitionsTypeOK
  BY DEF DocumentTypeOK, DefinitionsTypeOK
<1>2. /\ UNCHANGED <<definitionVars, visible>>
      /\ \E document : load' = [load EXCEPT ![s] = document]
  BY DEF LoadFlags, LoadConfigs, LoadSegments, Respond, Loaded
<1>3. load'[s] \in Loads
  <2>1. CASE LoadFlags(s)
    BY <1>1, <2>1 DEF LoadFlags, Loaded, Loading
  <2>2. CASE LoadConfigs(s)
    <3>1. load[s] \in [pc: {"configs"}, delivered: BOOLEAN, variants: VariantLists \cup {<<>>}]
      BY <1>1, <2>2 DEF LoadConfigs, Loading, NoLoad, Failed
    <3> QED
      BY <1>1, <2>2, <3>1, PolicyOfTypes DEF LoadConfigs, Loaded, Loading
  <2>3. CASE LoadSegments(s)
    <3>1. load[s] \in [pc: {"segments"}, delivered: BOOLEAN, variants: VariantLists \cup {<<>>},
                       policy: Policies \cup {EmptyPolicy}]
      BY <1>1, <2>3 DEF LoadSegments, Loading, NoLoad, Failed
    <3>2. DeliveredSegments(load[s], segments) \in SegmentSets
      BY <1>1, DeliveredTypes DEF DeliveredSegments
    <3> QED
      BY <1>1, <2>3, <3>1, <3>2 DEF LoadSegments, Loaded, Loading
  <2>4. CASE Respond(s)
    BY <1>1, <2>4 DEF Respond, Loaded
  <2> QED
    BY <2>1, <2>2, <2>3, <2>4
<1>4. load' \in [Sdk -> Loads]
  <2> HIDE DEF Loads
  <2> QED
    BY <1>1, <1>2, <1>3
<1>5. DefinitionsTypeOK' /\ visible' = visible
  BY <1>1, <1>2 DEF definitionVars, DefinitionsTypeOK
<1> QED
  BY <1>4, <1>5 DEF DocumentTypeOK

\* A loaded document was validated against the segments its own are taken from.
Assembled(s) ==
  load[s].pc = "loaded" =>
    \E set \in SegmentSets :
      ValidDocument(load[s], set) /\ load[s].segments = DeliveredSegments(load[s], set)

\* The inductive invariant of documents and definitions together.
DocumentInv == DocumentTypeOK /\ DefinitionsInv /\ \A s \in Sdk : Assembled(s)

\* A step of a download assembles a document only from what it has validated.
LEMMA LoadAssembles ==
  ASSUME DocumentTypeOK, \A s \in Sdk : Assembled(s), NEW s \in Sdk,
         LoadFlags(s) \/ LoadConfigs(s) \/ LoadSegments(s) \/ Respond(s)
  PROVE  \A r \in Sdk : Assembled(r)'
<1>1. /\ load \in [Sdk -> Loading \cup {NoLoad, Failed}]
      /\ segments \in SegmentSets
  BY DEF DocumentTypeOK, DefinitionsTypeOK
<1>2. \A r \in Sdk \ {s} : load'[r] = load[r]
  BY <1>1 DEF LoadFlags, LoadConfigs, LoadSegments, Respond, Loaded
<1>3. Assembled(s)'
  <2>1. CASE LoadFlags(s) \/ LoadConfigs(s) \/ Respond(s)
    <3>1. load'[s].pc # "loaded"
      BY <1>1, <2>1 DEF LoadFlags, LoadConfigs, Respond, Loaded, NoLoad
    <3> QED
      BY <3>1 DEF Assembled
  <2>2. CASE LoadSegments(s)
    <3>1. CASE ~ValidDocument(load[s], segments)
      <4>1. load'[s].pc = "failed"
        BY <1>1, <2>2, <3>1 DEF LoadSegments, Loaded, Failed
      <4> QED
        BY <4>1 DEF Assembled
    <3>2. CASE ValidDocument(load[s], segments)
      <4>1. /\ load'[s].variants = load[s].variants /\ load'[s].delivered = load[s].delivered
            /\ load'[s].policy = load[s].policy
            /\ load'[s].segments = DeliveredSegments(load[s], segments)
        BY <1>1, <2>2, <3>2 DEF LoadSegments, Loaded
      <4>2. ValidDocument(load'[s], segments)
        BY <3>2, <4>1 DEF ValidDocument
      <4>3. DeliveredSegments(load'[s], segments) = DeliveredSegments(load[s], segments)
        BY <4>1 DEF DeliveredSegments
      <4> QED
        BY <1>1, <4>1, <4>2, <4>3 DEF Assembled
    <3> QED
      BY <3>1, <3>2
  <2> QED
    BY <2>1, <2>2
<1> QED
  BY <1>2, <1>3 DEF Assembled

\* Every step keeps the inductive invariant.
LEMMA DocumentStep ==
  ASSUME DocumentInv, [DocumentNext]_documentVars
  PROVE  DocumentInv'
<1>1. CASE DefinitionsNext /\ UNCHANGED <<visible, load>>
  BY <1>1, DefinitionsTypeStep, DefinitionsInvStep DEF DocumentInv, DocumentTypeOK, Assembled
<1>2. CASE SetClientVisible
  <2>1. UNCHANGED <<variants, policies, segments, request, load>>
    BY <1>2 DEF SetClientVisible
  <2>2. visible' \in BOOLEAN /\ writes' = writes + 1
    BY <1>2 DEF SetClientVisible
  <2>3. DefinitionsTypeOK'
    <3>n. writes \in Nat
      BY DEF DocumentInv, DocumentTypeOK, DefinitionsTypeOK
    <3>1. writes' \in Nat
      BY <2>2, <3>n
    <3> QED
      BY <2>1, <3>1 DEF DocumentInv, DocumentTypeOK, DefinitionsTypeOK
  <2>4. DefinitionsInv'
    BY <2>1 DEF DocumentInv, DefinitionsInv, ReferencesResolve, Validated, At
  <2> QED
    BY <2>1, <2>2, <2>3, <2>4 DEF DocumentInv, DocumentTypeOK, Assembled
<1>3. ASSUME NEW s \in Sdk, LoadFlags(s) \/ LoadConfigs(s) \/ LoadSegments(s) \/ Respond(s)
      PROVE  DocumentInv'
  <2>1. UNCHANGED definitionVars
    BY <1>3 DEF LoadFlags, LoadConfigs, LoadSegments, Respond, Loaded
  <2>2. DefinitionsInv'
    BY <2>1 DEF definitionVars, DocumentInv, DefinitionsInv, ReferencesResolve, Validated, At
  <2> QED
    BY <1>3, <2>2, LoadTypes, LoadAssembles DEF DocumentInv
<1>4. CASE UNCHANGED documentVars
  BY <1>4 DEF documentVars, definitionVars, DocumentInv, DocumentTypeOK, DefinitionsTypeOK,
              DefinitionsInv, ReferencesResolve, Validated, At, Assembled
<1> QED
  BY <1>1, <1>2, <1>3, <1>4 DEF DocumentNext

\* The invariant of definitions and documents holds in every reachable state.
LEMMA DocumentInvariance == DocumentSpec => []DocumentInv
<1>1. DocumentInit => DocumentInv
  <2> SUFFICES ASSUME DocumentInit PROVE DocumentInv
    OBVIOUS
  <2>1. visible \in BOOLEAN /\ load \in [Sdk -> Loading \cup {NoLoad, Failed}]
    BY DEF DocumentInit
  <2> QED
    BY <2>1, InitialTypes, InitialInv
    DEF DocumentInit, DocumentInv, DocumentTypeOK, Assembled, NoLoad
<1>2. DocumentInv /\ [DocumentNext]_documentVars => DocumentInv'
  BY DocumentStep
<1> QED
  BY <1>1, <1>2, PTL DEF DocumentSpec

\* Every request and every document keeps the shape the program gives it.
THEOREM DocumentTypes == DocumentSpec => []DocumentTypeOK
BY DocumentInvariance, PTL DEF DocumentInv

\* A stored policy and a stored segment reference only stored segments, however
\* the requests that validate and write them interleave.
THEOREM DocumentReferences == DocumentSpec => []ReferencesResolve
<1>1. DocumentInv => ReferencesResolve
  BY DEF DocumentInv, DefinitionsInv
<1> QED
  BY <1>1, DocumentInvariance, PTL

\* Definitions become inconsistent only when a request writes what it validated
\* against rows that another request has written since.
THEOREM DocumentConsistency == DocumentSpec => BreaksOnlyOnStaleRead
<1> DEFINE Broken ==
      Consistent /\ ~Consistent' =>
        \E c \in Client : request[c].pc = "write" /\ request'[c] = Idle /\ ~Fresh(c)
<1>1. DocumentInv /\ [DocumentNext]_documentVars => [Broken]_definitionVars
  <2> SUFFICES ASSUME DocumentInv, DocumentNext, Consistent, ~Consistent'
               PROVE  \E c \in Client : request[c].pc = "write" /\ request'[c] = Idle /\ ~Fresh(c)
    BY DEF documentVars
  <2>1. ~UNCHANGED <<variants, policies, segments>>
    BY DEF Consistent, ReferencesResolve
  <2>2. PICK c \in Client :
          WriteVariants(c) \/ WritePolicy(c) \/ InsertSegment(c) \/ UpdateSegment(c)
    <3>1. DefinitionsNext
      BY <2>1 DEF DocumentNext, SetClientVisible, LoadFlags, LoadConfigs, LoadSegments, Respond,
                  Loaded, definitionVars
    <3> QED
      BY <2>1, <3>1 DEF DefinitionsNext, Begin, ReadFlag, ReadConfigs, ReadSegments, Leave,
                        Continue, Finish, Decide, tables
  <2>3. request[c].pc = "write" /\ request'[c] = Idle
    BY <2>2 DEF WriteVariants, WritePolicy, InsertSegment, UpdateSegment, Wrote, At,
                DocumentInv, DocumentTypeOK, DefinitionsTypeOK
  <2>4. ~Fresh(c)
    BY <2>2, FreshWrite DEF DocumentInv, DocumentTypeOK
  <2> QED
    BY <2>3, <2>4
<1>2. []DocumentInv /\ [][DocumentNext]_documentVars => [][Broken]_definitionVars
  BY <1>1, PTL
<1> QED
  BY <1>2, DocumentInvariance, PTL DEF DocumentSpec, BreaksOnlyOnStaleRead

\* A download fails to validate only when the stored definitions are broken, or
\* when variants or policies were written between the statements reading them.
THEOREM DocumentFailures == DocumentSpec => FailsOnlyWhenBrokenOrMixed
<1> DEFINE Told ==
      \A s \in Sdk :
        (/\ load[s].pc = "segments" /\ load'[s].pc = "failed"
         /\ load[s].variants = variants
         /\ load[s].policy = PolicyOf(policies, EnvironmentOf[s]))
        => ~Consistent
<1>1. DocumentInv /\ [DocumentNext]_documentVars => [Told]_documentVars
  <2> SUFFICES ASSUME DocumentInv, DocumentNext, NEW s \in Sdk,
                      load[s].pc = "segments", load'[s].pc = "failed",
                      load[s].variants = variants,
                      load[s].policy = PolicyOf(policies, EnvironmentOf[s]),
                      Consistent
               PROVE  FALSE
    OBVIOUS
  <2>0. load \in [Sdk -> Loading \cup {NoLoad, Failed}]
    BY DEF DocumentInv, DocumentTypeOK
  <2>1. load'[s] # load[s]
    OBVIOUS
  <2>2. LoadSegments(s)
    <3>1. PICK r \in Sdk : LoadFlags(r) \/ LoadConfigs(r) \/ LoadSegments(r) \/ Respond(r)
      BY <2>1 DEF DocumentNext, SetClientVisible
    <3>2. r = s
      BY <2>0, <2>1, <3>1 DEF LoadFlags, LoadConfigs, LoadSegments, Respond, Loaded
    <3>3. ~LoadFlags(s) /\ ~LoadConfigs(s)
      BY DEF LoadFlags, LoadConfigs, NoLoad
    <3>4. ~Respond(s)
      BY <2>0 DEF Respond, Loaded, NoLoad
    <3> QED
      BY <3>1, <3>2, <3>3, <3>4
  <2>3. ~ValidDocument(load[s], segments)
    BY <2>0, <2>2 DEF LoadSegments, Loaded
  <2>4. ValidSegmentSet(segments)
    BY DEF Consistent
  <2>5. DefinitionWith(variants, load[s].policy)
    BY EmptyPolicySuits DEF DocumentInv, DefinitionsInv, Consistent, PolicyOf
  <2>6. PolicyReferences(load[s].policy) \subseteq DOMAIN segments
    BY EmptyPolicySuits DEF DocumentInv, DefinitionsInv, ReferencesResolve, PolicyOf
  <2>7. ValidPolicySegments(load[s].policy, DOMAIN segments)
    BY <2>5, <2>6 DEF DefinitionWith, ValidDefinition, ValidPolicySegments
  <2> QED
    BY <2>3, <2>4, <2>5, <2>7 DEF ValidDocument
<1>2. []DocumentInv /\ [][DocumentNext]_documentVars => [][Told]_documentVars
  BY <1>1, PTL
<1> QED
  BY <1>2, DocumentInvariance, PTL DEF DocumentSpec, FailsOnlyWhenBrokenOrMixed

------------------------------------------------------------------------------
\* What is evaluated.

\* Stored policies and segments are what decoding yields.
LEMMA PolicyShapes ==
  ASSUME NEW policy \in Policies \cup {EmptyPolicy}
  PROVE  IsPolicy(policy)
<1>1. IsPolicy(EmptyPolicy)
  <2>1. EmptyPolicy.rules = <<>>
    BY DEF EmptyPolicy
  <2>5. DOMAIN <<>> = {}
    OBVIOUS
  <2>4. EmptyPolicy.fallthrough.variant = "" /\ EmptyPolicy.fallthrough.rollout = <<>>
    <3>1. EmptyPolicy.fallthrough = [variant |-> "", rollout |-> <<>>, bucketBy |-> ""]
      BY DEF EmptyPolicy
    <3>2. \A r, v, e, b : r = [variant |-> v, rollout |-> e, bucketBy |-> b]
                           => r.variant = v /\ r.rollout = e
      OBVIOUS
    <3> QED
      BY <3>1, <3>2
  <2>2. IsRollout(<<>>)
    BY DEF IsRollout
  <2>3. "" \in Key
    BY EvaluationAssumption
  <2> QED
    BY <2>1, <2>2, <2>3, <2>4, <2>5 DEF IsPolicy, IsOutcome
<1> QED
  BY <1>1, DefinitionsAssumption

\* So are stored segments.
LEMMA SegmentShapes ==
  ASSUME NEW set \in SegmentSets
  PROVE  IsSegments(set)
<1>1. PICK D \in SUBSET SegmentKeys : set \in [D -> Segments]
  BY DEF SegmentSets
<1> QED
  BY <1>1, DefinitionsAssumption DEF IsSegments

\* The segments of a document are a part of those loaded, with its roots.
LEMMA ReferencedIsPart ==
  ASSUME NEW roots, NEW set
  PROVE  /\ PartOf(ReferencedSegments(roots, set), set)
         /\ roots \cap DOMAIN set \subseteq DOMAIN ReferencedSegments(roots, set)
<1> DEFINE part == ReferencedSegments(roots, set)
           closed(K) ==
             /\ roots \cap DOMAIN set \subseteq K
             /\ \A k \in K : SegmentReferences(set[k].conditions) \cap DOMAIN set \subseteq K
<1>1. part = [k \in {k \in DOMAIN set : \A K \in SUBSET DOMAIN set : closed(K) => k \in K} |-> set[k]]
  BY DEF ReferencedSegments
<1>2. \A K \in SUBSET DOMAIN set :
        closed(K) <=> roots \cap DOMAIN set \subseteq K /\ ClosedUnder(set, K)
  BY DEF ClosedUnder, References
<1>3. Closure(set, roots) = {k \in DOMAIN set : \A K \in SUBSET DOMAIN set : closed(K) => k \in K}
  <2> HIDE DEF closed
  <2> QED
    BY <1>2 DEF Closure
<1>4. DOMAIN part = Closure(set, roots) /\ \A k \in DOMAIN part : part[k] = set[k]
  <2> HIDE DEF closed
  <2> QED
    BY <1>1, <1>3
<1>5. DOMAIN part \subseteq DOMAIN set
  BY <1>4 DEF Closure
<1> HIDE DEF part
<1>6. /\ roots \cap DOMAIN set \subseteq DOMAIN part
      /\ \A k \in DOMAIN part : References(set, k) \subseteq DOMAIN part
  BY <1>4, ClosureIsClosed DEF ClosedUnder
<1> QED
  BY <1>4, <1>5, <1>6 DEF PartOf, part

\* A flag as a document or a preview evaluates it.
FlagOf(enabled, list, policy) ==
  [kind |-> Kind, default |-> Default, enabled |-> enabled, variants |-> list, policy |-> policy]

\* Valid definitions of the right shape do not fail.
LEMMA ValidEvaluates ==
  ASSUME NEW list, NEW policy, IsPolicy(policy), DefinitionWith(list, policy),
         NEW set, IsSegments(set), ValidSegmentSet(set), Trimmed(list, policy),
         NEW context, NEW enabled
  PROVE  Evaluate(FlagOf(enabled, list, policy), context, set).error # "PARSE_ERROR"
<1> DEFINE f == FlagOf(enabled, list, policy)
<1>1. /\ f.kind = Kind /\ f.default = Default /\ f.variants = list /\ f.policy = policy
  BY DEF FlagOf
<1> HIDE DEF f
<1>2. IsPolicy(f.policy) /\ Trimmed(f.variants, f.policy)
      /\ ValidDefinition(f.kind, f.default, f.variants, f.policy)
  BY <1>1 DEF DefinitionWith
<1>3. Evaluate(f, context, set).error # "PARSE_ERROR"
  BY <1>2, AcceptedEvaluates
<1> QED
  BY <1>3 DEF f

\* A delivered document never fails to evaluate for what it contains.
THEOREM DocumentsEvaluate == DocumentSpec => []DeliveredNeverFails
<1>1. DocumentInv => DeliveredNeverFails
  <2> SUFFICES ASSUME DocumentInv, NEW s \in Sdk, NEW context \in Contexts,
                      load[s].pc = "loaded", load[s].delivered,
                      Trimmed(load[s].variants, load[s].policy)
               PROVE  Served(load[s], context, load[s].segments).error # "PARSE_ERROR"
    BY DEF DeliveredNeverFails
  <2> DEFINE policy == load[s].policy
             part == load[s].segments
  <2>1. policy \in Policies \cup {EmptyPolicy}
    <3>1. load[s] \in Loading \cup {NoLoad, Failed}
      BY DEF DocumentInv, DocumentTypeOK
    <3> QED
      BY <3>1 DEF Loading, NoLoad, Failed
  <2>2. PICK set \in SegmentSets :
          ValidDocument(load[s], set) /\ part = DeliveredSegments(load[s], set)
    BY DEF DocumentInv, Assembled
  <2>3. ValidSegmentSet(set) /\ DefinitionWith(load[s].variants, policy)
    BY <2>2 DEF ValidDocument
  <2>4. PartOf(part, set)
    BY <2>2, ReferencedIsPart DEF DeliveredSegments
  <2>5. IsSegments(part) /\ ValidSegmentSet(part)
    BY <2>2, <2>3, <2>4, SegmentShapes, PartIsValid
  <2>6. IsPolicy(policy)
    BY <2>1, PolicyShapes
  <2>7. Evaluate(FlagOf(TRUE, load[s].variants, policy), context, part).error # "PARSE_ERROR"
    <3> HIDE DEF policy, part
    <3> QED
      BY <2>3, <2>5, <2>6, ValidEvaluates DEF policy
  <2> QED
    BY <2>7 DEF Served, FlagOf
<1> QED
  BY <1>1, DocumentInvariance, PTL

\* The segments that a document leaves out make no difference to any subject.
THEOREM DocumentsAreSelfContained == DocumentSpec => DocumentSelfContained
<1> DEFINE Same ==
      \A s \in Sdk, context \in Contexts :
        load[s].pc = "segments" /\ load'[s].pc = "loaded" /\ load'[s].delivered =>
          Served(load'[s], context, load'[s].segments) = Served(load'[s], context, segments)
<1>1. DocumentInv /\ DocumentInv' /\ [DocumentNext]_documentVars => [Same]_documentVars
  <2> SUFFICES ASSUME DocumentInv, DocumentInv', DocumentNext,
                      NEW s \in Sdk, NEW context \in Contexts,
                      load[s].pc = "segments", load'[s].pc = "loaded", load'[s].delivered
               PROVE  Served(load'[s], context, load'[s].segments) = Served(load'[s], context, segments)
    OBVIOUS
  <2>1. load \in [Sdk -> Loading \cup {NoLoad, Failed}] /\ segments \in SegmentSets
    BY DEF DocumentInv, DocumentTypeOK, DefinitionsTypeOK
  <2>2. LoadSegments(s)
    <3>1. PICK r \in Sdk : LoadFlags(r) \/ LoadConfigs(r) \/ LoadSegments(r) \/ Respond(r)
      BY DEF DocumentNext, SetClientVisible
    <3>2. r = s
      BY <2>1, <3>1 DEF LoadFlags, LoadConfigs, LoadSegments, Respond, Loaded
    <3>3. ~LoadFlags(s) /\ ~LoadConfigs(s)
      BY DEF LoadFlags, LoadConfigs, NoLoad
    <3>4. ~Respond(s)
      BY <2>1 DEF Respond, Loaded, NoLoad
    <3> QED
      BY <3>1, <3>2, <3>3, <3>4
  <2>3. ValidDocument(load[s], segments)
    BY <2>1, <2>2 DEF LoadSegments, Loaded, Failed
  <2> DEFINE f == FlagOf(TRUE, load'[s].variants, load'[s].policy)
             part == load'[s].segments
  <2>4. /\ load'[s].policy = load[s].policy /\ load'[s].delivered = load[s].delivered
        /\ part = DeliveredSegments(load[s], segments)
    BY <2>1, <2>2, <2>3 DEF LoadSegments, Loaded
  <2>5. load'[s].policy \in Policies \cup {EmptyPolicy}
    <3>1. load'[s] \in Loading \cup {NoLoad, Failed}
      BY DEF DocumentInv, DocumentTypeOK
    <3> QED
      BY <3>1 DEF Loading, NoLoad, Failed
  <2>6. /\ PartOf(part, segments)
        /\ PolicyReferences(load'[s].policy) \cap DOMAIN segments \subseteq DOMAIN part
    BY <2>4, ReferencedIsPart DEF DeliveredSegments
  <2>7. IsSegments(segments) /\ ValidSegmentSet(segments)
    BY <2>1, <2>3, SegmentShapes DEF ValidDocument
  <2>8. f.policy = load'[s].policy /\ IsPolicy(f.policy)
    BY <2>5, PolicyShapes DEF FlagOf
  <2>9. Evaluate(f, context, part) = Evaluate(f, context, segments)
    <3> HIDE DEF f, part
    <3> QED
      BY <2>6, <2>7, <2>8, PartEvaluates
  <2> QED
    BY <2>9 DEF Served, FlagOf
<1>2. []DocumentInv /\ [][DocumentNext]_documentVars => [][Same]_documentVars
  BY <1>1, PTL
<1> QED
  BY <1>2, DocumentInvariance, PTL DEF DocumentSpec, DocumentSelfContained

\* A preview fails only for definitions that were broken before it, or that it
\* read before and after another request wrote.
THEOREM PreviewsTell == DocumentSpec => PreviewTellsBrokenDefinitions
<1> DEFINE Told ==
      \A c \in Client :
        (/\ request[c].pc = "segments" /\ request'[c].pc = "answered"
         /\ request'[c].error = "PARSE_ERROR"
         /\ request[c].read.variants = variants /\ request[c].read.policies = policies
         /\ Trimmed(variants, PolicyOf(policies, request[c].call.environment)))
        => ~Consistent
<1>1. DocumentInv /\ [DocumentNext]_documentVars => [Told]_definitionVars
  <2> SUFFICES ASSUME DocumentInv, DocumentNext, NEW c \in Client,
                      request[c].pc = "segments", request'[c].pc = "answered",
                      request[c].read.variants = variants, request[c].read.policies = policies,
                      Trimmed(variants, PolicyOf(policies, request[c].call.environment)),
                      Consistent
               PROVE  request'[c].error # "PARSE_ERROR"
    BY DEF documentVars
  <2> DEFINE call == request[c].call
             read == [request[c].read EXCEPT !.segments = segments]
             policy == PolicyOf(policies, call.environment)
  <2>1. /\ DefinitionsTypeOK /\ segments \in SegmentSets
        /\ request \in [Client -> Running \cup {Idle} \cup [pc: {"answered"}, error: ErrorCodes \cup {""}]]
    BY DEF DocumentInv, DocumentTypeOK, DefinitionsTypeOK
  <2>2. request[c] \in Running
    <3>1. \A r \in [pc: {"answered"}, error: ErrorCodes \cup {""}] : r.pc = "answered"
      OBVIOUS
    <3>2. Idle.pc = "idle"
      BY DEF Idle
    <3> QED
      BY <2>1, <3>1, <3>2
  <2>3. PICK enabled \in BOOLEAN : request'[c].error = Preview(call, read, enabled).error
    <3>1. request' # request
      OBVIOUS
    <3>2. DefinitionsNext
      BY <3>1 DEF DocumentNext, SetClientVisible, LoadFlags, LoadConfigs, LoadSegments, Respond,
                  Loaded, definitionVars
    <3>3. PICK d \in Client :
            \/ \E x \in Call : Begin(d, x)
            \/ ReadFlag(d) \/ ReadConfigs(d) \/ ReadSegments(d)
            \/ WriteVariants(d) \/ WritePolicy(d) \/ InsertSegment(d) \/ UpdateSegment(d)
            \/ Leave(d)
      BY <3>2 DEF DefinitionsNext
    <3>4. \E r : request' = [request EXCEPT ![d] = r]
      BY <2>1, <3>3 DEF Begin, ReadFlag, ReadConfigs, ReadSegments, WriteVariants, WritePolicy,
                        InsertSegment, UpdateSegment, Wrote, Leave, Continue, Finish, Decide
    <3>5. d = c
      BY <2>1, <3>4
    <3>6. ReadSegments(c)
      <4>1. request[c] # Idle
        BY DEF Idle
      <4>2. ~Leave(c)
        <5>1. request' = [request EXCEPT ![c] = Idle] => request'[c] = Idle
          BY <2>1
        <5>2. Idle.pc # "answered"
          BY DEF Idle
        <5> QED
          BY <5>1, <5>2 DEF Leave, Finish
      <4> QED
        BY <3>3, <3>5, <4>1, <4>2 DEF Begin, ReadFlag, ReadConfigs, WriteVariants, WritePolicy,
                                      InsertSegment, UpdateSegment, At
    <3>7. ASSUME NEW pc \in {"write"}, NEW new, Continue(c, pc, new) \/ Finish(c)
          PROVE  request'[c].pc # "answered"
      <4>1. request[c].pc # "answered" /\ Idle.pc = "idle"
        BY DEF Idle
      <4>2. CASE Finish(c)
        BY <2>1, <4>1, <4>2 DEF Finish
      <4>3. CASE Continue(c, pc, new)
        <5>1. request'[c] = [request[c] EXCEPT !.pc = pc, !.read = new]
          BY <2>1, <4>3 DEF Continue
        <5> QED
          BY <2>2, <5>1 DEF Running
      <4> QED
        BY <3>7, <4>2, <4>3
    <3>8. ASSUME NEW valid
          PROVE  ~Decide(c, valid, read)
      <4> HIDE DEF read
      <4> QED
        BY <3>7 DEF Decide
    <3>9. PICK enabled \in BOOLEAN :
            request' = [request EXCEPT ![c] =
                          [pc |-> "answered", error |-> Preview(call, read, enabled).error]]
      BY <3>6, <3>8 DEF ReadSegments
    <3>10. request'[c] = [pc |-> "answered", error |-> Preview(call, read, enabled).error]
      BY <2>1, <3>9
    <3>11. \A e : [pc |-> "answered", error |-> e].error = e
      OBVIOUS
    <3> HIDE DEF read, call
    <3> QED
      BY <3>10, <3>11
  <2>4. read.variants = variants /\ read.policies = policies /\ read.segments = segments
    BY <2>2 DEF Running
  <2>5. Preview(call, read, enabled) = Evaluate(FlagOf(enabled, variants, policy), call.context, segments)
    BY <2>4 DEF Preview, FlagOf
  <2>6. DefinitionWith(variants, policy)
    BY EmptyPolicySuits DEF DocumentInv, DefinitionsInv, Consistent, PolicyOf
  <2>7. IsPolicy(policy) /\ IsSegments(segments) /\ ValidSegmentSet(segments)
    BY <2>1, PolicyOfTypes, PolicyShapes, SegmentShapes DEF Consistent
  <2>8. Evaluate(FlagOf(enabled, variants, policy), call.context, segments).error # "PARSE_ERROR"
    <3>1. Trimmed(variants, policy)
      OBVIOUS
    <3> HIDE DEF policy
    <3> QED
      BY <2>6, <2>7, <3>1, ValidEvaluates
  <2> HIDE DEF policy, read
  <2> QED
    BY <2>3, <2>5, <2>8
<1>2. []DocumentInv /\ [][DocumentNext]_documentVars => [][Told]_definitionVars
  BY <1>1, PTL
<1> QED
  BY <1>2, DocumentInvariance, PTL DEF DocumentSpec, PreviewTellsBrokenDefinitions

==============================================================================
