-------------------------- MODULE FlagConfig_proofs --------------------------
(***************************************************************************)
(* Theorems about FlagConfig, for any sets of rows, requests and policies  *)
(* and any bound.  The inductive invariant adds to the type invariant what *)
(* a request remembers: a revision it has read is one the row has earned,  *)
(* an INSERT of a toggle is one that enables, and a row that does not      *)
(* exist has the contents of NoRow.                                        *)
(***************************************************************************)
EXTENDS FlagConfig, TLAPS

RequestInv ==
  \A c \in Client : request[c] # NoRequest =>
    /\ request[c].seen.revision <= commits[request[c].target]
    /\ At(c, "insert", "enabled") => request[c].value = TRUE

ConfigInv ==
  /\ ConfigTypeOK
  /\ \A t \in Target : config[t].revision <= commits[t]
  /\ \A t \in Target : config[t].revision = 0 => config[t] = NoRow
  /\ RequestInv

USE DEF Row, NoRow, NoRequest, Stage, Request, Exists, At, Goto, WriteRow

\* An UPDATE of a well-formed row gives a well-formed row.
LEMMA RowUpdate ==
  ASSUME NEW r \in Row, NEW n \in Nat
  PROVE  /\ \A e \in BOOLEAN : LET q == [r EXCEPT !.enabled = e, !.revision = n]
                               IN  q \in Row /\ q.revision = n
         /\ \A p \in Policy : LET q == [r EXCEPT !.policy = p, !.revision = n]
                              IN  q \in Row /\ q.revision = n
  OBVIOUS

\* An empty table, no requests: the invariant holds initially.
LEMMA ConfigInitInv == ConfigInit => ConfigInv
  BY ConfigAssumption DEF ConfigInit, ConfigInv, ConfigTypeOK, RequestInv

\* A statement that writes row t for request c keeps the invariant when the
\* new row is well formed, exists and has at most one revision more than the
\* statements counted so far.
LEMMA WriteRowInv ==
  ASSUME ConfigInv, NEW c \in Client, NEW row \in Row,
         request[c] \in Request,
         row.revision > 0, row.revision <= commits[request[c].target] + 1,
         WriteRow(c, row)
  PROVE  ConfigInv'
<1> DEFINE t == request[c].target
<1>1. t \in Target
  OBVIOUS
<1>2. ConfigTypeOK'
  <2>1. config' \in [Target -> Row] /\ commits' \in [Target -> Nat]
    BY <1>1 DEF ConfigInv, ConfigTypeOK
  <2>2. [request[c] EXCEPT !.pc = "done"] \in Request
    OBVIOUS
  <2>3. request' \in [Client -> Request \cup {NoRequest}]
    BY <2>2 DEF ConfigInv, ConfigTypeOK
  <2>4. QED
    BY <2>1, <2>3 DEF ConfigTypeOK
<1>3. \A u \in Target : /\ config'[u].revision <= commits'[u]
                        /\ config'[u].revision = 0 => config'[u] = NoRow
                        /\ commits'[u] >= commits[u]
  <2>1. /\ config' = [config EXCEPT ![t] = row]
        /\ commits' = [commits EXCEPT ![t] = @ + 1]
    OBVIOUS
  <2>2. config \in [Target -> Row] /\ commits \in [Target -> Nat]
    BY DEF ConfigInv, ConfigTypeOK
  <2>3. TAKE u \in Target
  <2>4. /\ config'[u] = IF u = t THEN row ELSE config[u]
        /\ commits'[u] = IF u = t THEN commits[t] + 1 ELSE commits[u]
    BY <2>1, <2>2, <1>1
  <2>5. row.revision \in Nat /\ commits[u] \in Nat
    BY <2>2
  <2>6. CASE u = t
    BY <2>4, <2>5, <2>6
  <2>7. CASE u # t
    <3> HIDE DEF NoRow
    <3>1. /\ config[u].revision <= commits[u]
          /\ config[u].revision = 0 => config[u] = NoRow
      BY DEF ConfigInv
    <3>2. QED
      BY <2>4, <2>5, <2>7, <3>1
  <2>8. QED
    BY <2>6, <2>7
<1>4. RequestInv'
  BY <1>1, <1>3 DEF ConfigInv, ConfigTypeOK, RequestInv
<1>5. QED
  BY <1>2, <1>3, <1>4 DEF ConfigInv

\* A step that only moves request c on keeps the invariant when what the
\* request remembers is well formed.
LEMMA MoveInv ==
  ASSUME ConfigInv, NEW c \in Client, NEW r \in Request \cup {NoRequest},
         request' = [request EXCEPT ![c] = r],
         UNCHANGED <<config, commits>>,
         r # NoRequest => r.seen.revision <= commits[r.target],
         r # NoRequest /\ r.pc = "insert" /\ r.op = "enabled" => r.value = TRUE
  PROVE  ConfigInv'
  BY DEF ConfigInv, ConfigTypeOK, RequestInv

\* One step of a request: each statement that writes a row is a case for
\* WriteRowInv, each step that reads or answers one for MoveInv.
LEMMA ConfigNextInv == ConfigInv /\ ConfigNext => ConfigInv'
<1> SUFFICES ASSUME ConfigInv, NEW c \in Client,
                    SetEnabledStep(c) \/ SetPolicyStep(c) \/ Respond(c) \/ Reject(c)
             PROVE  ConfigInv'
  BY DEF ConfigNext
<1>0. /\ request[c] \in Request \cup {NoRequest}
      /\ request \in [Client -> Request \cup {NoRequest}]
      /\ config \in [Target -> Row]
      /\ commits \in [Target -> Nat]
  BY DEF ConfigInv, ConfigTypeOK
<1>1. ASSUME NEW op \in {"enabled", "policy"}, NEW t \in Target,
             NEW v, v \in IF op = "enabled" THEN BOOLEAN ELSE Policy,
             Begin(c, op, t, v)
      PROVE  ConfigInv'
  <2> DEFINE r == [pc |-> "find", op |-> op, target |-> t, value |-> v, seen |-> NoRow]
  <2>1. r \in Request /\ r.pc # "insert"
    BY <1>1, ConfigAssumption
  <2>2. r.seen.revision <= commits[r.target]
    BY <1>0
  <2>3. request' = [request EXCEPT ![c] = r] /\ UNCHANGED <<config, commits>>
    BY <1>1 DEF Begin
  <2> HIDE DEF r, Row, NoRow, Stage, Request, Exists, WriteRow
  <2>4. QED
    BY <2>1, <2>2, <2>3, MoveInv
<1>2. ASSUME Respond(c) \/ Reject(c) PROVE ConfigInv'
  BY <1>2, MoveInv DEF Respond, Reject
<1>3. ASSUME request[c] \in Request, NEW p \in Stage \ {"insert"}, Goto(c, p),
             UNCHANGED <<config, commits>>
      PROVE  ConfigInv'
  <2> DEFINE r == [request[c] EXCEPT !.pc = p]
  <2>1. r \in Request /\ r.pc # "insert"
    BY <1>3
  <2>2. r.seen.revision <= commits[r.target]
    BY <1>3 DEF ConfigInv, RequestInv
  <2>3. request' = [request EXCEPT ![c] = r]
    BY <1>0, <1>3
  <2> HIDE DEF r, Row, NoRow, Stage, Request, Exists, WriteRow
  <2>4. QED
    BY <1>3, <2>1, <2>2, <2>3, MoveInv
<1>4. ASSUME request[c] \in Request, Goto(c, "insert"),
             request[c].op = "enabled" => request[c].value = TRUE,
             UNCHANGED <<config, commits>>
      PROVE  ConfigInv'
  <2> DEFINE r == [request[c] EXCEPT !.pc = "insert"]
  <2>1. r \in Request /\ (r.op = "enabled" => r.value = TRUE)
    BY <1>4
  <2>2. r.seen.revision <= commits[r.target]
    BY <1>4 DEF ConfigInv, RequestInv
  <2>3. request' = [request EXCEPT ![c] = r]
    BY <1>0, <1>4
  <2> HIDE DEF r, Row, NoRow, Stage, Request, Exists, WriteRow
  <2>4. QED
    BY <1>4, <2>1, <2>2, <2>3, MoveInv
<1>5. ASSUME request[c] \in Request,
             request' = [request EXCEPT ![c].pc = "update",
                                        ![c].seen = config[request[c].target]],
             UNCHANGED <<config, commits>>
      PROVE  ConfigInv'
  <2> DEFINE r == [request[c] EXCEPT !.pc = "update", !.seen = config[request[c].target]]
  <2>1. r \in Request /\ r.pc # "insert"
    BY <1>0, <1>5
  <2>2. r.seen.revision <= commits[r.target]
    BY <1>5 DEF ConfigInv
  <2>3. request' = [request EXCEPT ![c] = r]
    BY <1>0, <1>5
  <2> HIDE DEF r, Row, NoRow, Stage, Request, Exists, WriteRow
  <2>4. QED
    BY <1>5, <2>1, <2>2, <2>3, MoveInv
<1>6. ASSUME EnabledAfterRead(c, config[request[c].target]), request[c] \in Request,
             UNCHANGED <<config, commits>>
      PROVE  ConfigInv'
  BY <1>3, <1>5, <1>6 DEF EnabledAfterRead
<1>7. ASSUME FindForEnabled(c) PROVE ConfigInv'
  <2>1. request[c] \in Request /\ request[c].op = "enabled"
    BY <1>0, <1>7 DEF FindForEnabled
  <2>2. QED
    BY <1>3, <1>4, <1>6, <1>7, <2>1 DEF FindForEnabled
<1>8. ASSUME ReloadEnabled(c) PROVE ConfigInv'
  BY <1>0, <1>6, <1>8 DEF ReloadEnabled
<1>9. ASSUME FindForPolicy(c) PROVE ConfigInv'
  <2>1. request[c] \in Request /\ request[c].op = "policy"
    BY <1>0, <1>9 DEF FindForPolicy
  <2>2. QED
    BY <1>3, <1>4, <1>5, <1>9, <2>1 DEF FindForPolicy
<1>10. ASSUME NEW row \in Row, request[c] \in Request, WriteRow(c, row),
              row.revision > 0, row.revision <= commits[request[c].target] + 1
       PROVE  ConfigInv'
  BY <1>10, WriteRowInv
<1>11. ASSUME InsertEnabled(c) PROVE ConfigInv'
  <2>1. request[c] \in Request
    BY <1>0, <1>11 DEF InsertEnabled
  <2>2. CASE Exists(request[c].target)
    BY <1>3, <1>11, <2>1, <2>2 DEF InsertEnabled
  <2>3. CASE ~Exists(request[c].target)
    <3> DEFINE row == [enabled |-> TRUE, policy |-> NoPolicy, revision |-> 1]
    <3>1. row \in Row /\ row.revision > 0 /\ row.revision <= commits[request[c].target] + 1
      BY <1>0, <2>1, ConfigAssumption
    <3>2. WriteRow(c, row)
      BY <1>11, <2>3 DEF InsertEnabled
    <3> HIDE DEF row
    <3>3. QED
      BY <1>10, <2>1, <3>1, <3>2
  <2>4. QED
    BY <2>2, <2>3
<1>12. ASSUME UpdateEnabled(c) PROVE ConfigInv'
  <2> DEFINE row == [config[request[c].target] EXCEPT
                       !.enabled = request[c].value,
                       !.revision = request[c].seen.revision + 1]
  <2>1. request[c] \in Request /\ request[c].op = "enabled"
    BY <1>0, <1>12 DEF UpdateEnabled
  <2>2. request[c].seen.revision \in Nat /\ request[c].value \in BOOLEAN
    BY <2>1
  <2>3. request[c].seen.revision <= commits[request[c].target]
    BY <2>1 DEF ConfigInv, RequestInv
  <2>4. row \in Row /\ row.revision > 0 /\ row.revision <= commits[request[c].target] + 1
    <3>1. config[request[c].target] \in Row /\ commits[request[c].target] \in Nat
      BY <1>0, <2>1
    <3>2. row \in Row /\ row.revision = request[c].seen.revision + 1
      <4>1. request[c].seen.revision + 1 \in Nat
        BY <2>2
      <4>2. QED
        BY <2>2, <3>1, <4>1, RowUpdate
    <3> HIDE DEF row
    <3>3. QED
      BY <2>2, <2>3, <3>1, <3>2
  <2>5. WriteRow(c, row)
    BY <1>12 DEF UpdateEnabled
  <2> HIDE DEF row
  <2>6. QED
    BY <1>10, <2>1, <2>4, <2>5
<1>13. ASSUME InsertPolicy(c) PROVE ConfigInv'
  <2>1. request[c] \in Request /\ request[c].op = "policy" /\ request[c].value \in Policy
    BY <1>0, <1>13 DEF InsertPolicy
  <2>2. CASE Exists(request[c].target)
    BY <1>13, <2>2, MoveInv DEF InsertPolicy
  <2>3. CASE ~Exists(request[c].target)
    <3> DEFINE row == [enabled |-> FALSE, policy |-> request[c].value, revision |-> 1]
    <3>1. row \in Row /\ row.revision > 0 /\ row.revision <= commits[request[c].target] + 1
      BY <1>0, <2>1
    <3>2. WriteRow(c, row)
      BY <1>13, <2>3 DEF InsertPolicy
    <3> HIDE DEF row
    <3>3. QED
      BY <1>10, <2>1, <3>1, <3>2
  <2>4. QED
    BY <2>2, <2>3
<1>14. ASSUME UpdatePolicy(c) PROVE ConfigInv'
  <2> DEFINE row == [config[request[c].target] EXCEPT
                       !.policy = request[c].value, !.revision = @ + 1]
  <2>1. request[c] \in Request /\ request[c].op = "policy" /\ request[c].value \in Policy
    BY <1>0, <1>14 DEF UpdatePolicy
  <2>2. config[request[c].target].revision <= commits[request[c].target]
    BY <2>1 DEF ConfigInv
  <2>3. row \in Row /\ row.revision > 0 /\ row.revision <= commits[request[c].target] + 1
    <3>1. config[request[c].target] \in Row /\ commits[request[c].target] \in Nat
      BY <1>0, <2>1
    <3>2. row \in Row /\ row.revision = config[request[c].target].revision + 1
      <4>1. config[request[c].target].revision + 1 \in Nat
        BY <3>1
      <4>2. QED
        BY <2>1, <3>1, <4>1, RowUpdate
    <3> HIDE DEF row
    <3>3. QED
      BY <2>2, <3>1, <3>2
  <2>4. WriteRow(c, row)
    BY <1>14 DEF UpdatePolicy
  <2> HIDE DEF row
  <2>5. QED
    BY <1>10, <2>1, <2>3, <2>4
<1>15. QED
  BY <1>1, <1>2, <1>7, <1>8, <1>9, <1>11, <1>12, <1>13, <1>14
     DEF SetEnabledStep, SetPolicyStep, BeginSetEnabled, BeginSetPolicy

\* The invariant is about the variables of FlagConfig only.
LEMMA ConfigStutterInv == ConfigInv /\ UNCHANGED configVars => ConfigInv'
  BY DEF ConfigInv, ConfigTypeOK, RequestInv, configVars

\* ConfigInv holds in every reachable state: what requests remember between
\* their statements stays within what the rows they write have earned.
THEOREM ConfigInvariant == ConfigSpec => []ConfigInv
  BY ConfigInitInv, ConfigNextInv, ConfigStutterInv, PTL DEF ConfigSpec

\* The variables have the values the code can store: rows, requests in one of
\* their stages, counters.
THEOREM ConfigTypeCorrect == ConfigSpec => []ConfigTypeOK
<1>1. ConfigInv => ConfigTypeOK
  BY DEF ConfigInv
<1>2. QED
  BY <1>1, ConfigInvariant, PTL

\* SetEnabled copies a revision it read earlier, SetPolicy and the scheduler
\* add one: together they never count more changes than were written.
THEOREM RevisionCountsCommitsHolds == ConfigSpec => []RevisionCountsCommits
<1>1. ConfigInv => RevisionCountsCommits
  BY DEF ConfigInv, RevisionCountsCommits
<1>2. QED
  BY <1>1, ConfigInvariant, PTL

------------------------------------------------------------------------------

\* The step behind RevisionGrowsUnlessRaced: only the four statements that
\* write a row change its content, and each of them raises its revision
\* unless it is the UPDATE of a toggle that read an older one.
LEMMA RevisionStep ==
  ASSUME ConfigInv, ConfigNext, NEW t \in Target,
         Content(config[t])' # Content(config[t]), ~StaleToggle(t)
  PROVE  config'[t].revision > config[t].revision
<1> PICK c \in Client : SetEnabledStep(c) \/ SetPolicyStep(c) \/ Respond(c) \/ Reject(c)
  BY DEF ConfigNext
<1>0. /\ request[c] \in Request \cup {NoRequest}
      /\ config[t] \in Row
      /\ config \in [Target -> Row]
  BY DEF ConfigInv, ConfigTypeOK
<1>1. config' # config
  BY DEF Content
<1>2. \/ \E row \in {[enabled |-> TRUE, policy |-> NoPolicy, revision |-> 1],
                     [enabled |-> FALSE, policy |-> request[c].value, revision |-> 1]} :
           ~Exists(request[c].target) /\ WriteRow(c, row)
      \/ UpdateEnabled(c)
      \/ UpdatePolicy(c)
  BY <1>1 DEF SetEnabledStep, SetPolicyStep, Respond, Reject, BeginSetEnabled,
     BeginSetPolicy, Begin, FindForEnabled, InsertEnabled, ReloadEnabled,
     FindForPolicy, InsertPolicy
<1>3. ASSUME NEW row, WriteRow(c, row)
      PROVE  request[c].target = t /\ config'[t] = row
  BY <1>0, <1>1, <1>3 DEF Content
<1>4. CASE \E row \in {[enabled |-> TRUE, policy |-> NoPolicy, revision |-> 1],
                       [enabled |-> FALSE, policy |-> request[c].value, revision |-> 1]} :
             ~Exists(request[c].target) /\ WriteRow(c, row)
  <2>1. PICK row \in {[enabled |-> TRUE, policy |-> NoPolicy, revision |-> 1],
                      [enabled |-> FALSE, policy |-> request[c].value, revision |-> 1]} :
             ~Exists(request[c].target) /\ WriteRow(c, row)
    BY <1>4
  <2>2. row.revision = 1
    OBVIOUS
  <2>3. config'[t] = row /\ request[c].target = t
    BY <1>3, <2>1
  <2>4. ~(config[t].revision > 0)
    BY <2>1, <2>3
  <2>5. QED
    BY <1>0, <2>2, <2>3, <2>4
<1>5. CASE UpdateEnabled(c)
  <2>1. request[c] \in Request /\ request[c].seen.revision \in Nat
    BY <1>0, <1>5 DEF UpdateEnabled
  <2>2. /\ request[c].target = t
        /\ config'[t] = [config[t] EXCEPT !.enabled = request[c].value,
                                          !.revision = request[c].seen.revision + 1]
    BY <1>3, <1>5 DEF UpdateEnabled
  <2>3. ~(request[c].seen.revision < config[t].revision)
    BY <1>5, <2>2 DEF StaleToggle, UpdateEnabled
  <2>4. config'[t].revision = request[c].seen.revision + 1
    BY <1>0, <2>2
  <2>5. QED
    BY <1>0, <2>1, <2>3, <2>4
<1>6. CASE UpdatePolicy(c)
  <2>1. /\ request[c].target = t
        /\ config'[t] = [config[t] EXCEPT !.policy = request[c].value, !.revision = @ + 1]
    BY <1>3, <1>6 DEF UpdatePolicy
  <2>2. QED
    BY <1>0, <2>1
<1>7. QED
  BY <1>2, <1>4, <1>5, <1>6

\* For all numbers of requests: a revision that fails to grow with a change is
\* the work of a toggle that raced with another writer of its row.
THEOREM RevisionGrowsHolds == ConfigSpec => RevisionGrowsUnlessRaced
<1>1. ConfigInv /\ [ConfigNext]_configVars =>
        [\A t \in Target :
           Content(config[t])' # Content(config[t]) /\ ~StaleToggle(t)
             => config'[t].revision > config[t].revision]_configVars
  BY RevisionStep
<1>2. QED
  BY <1>1, ConfigInvariant, PTL DEF ConfigSpec, RevisionGrowsUnlessRaced

------------------------------------------------------------------------------
(* FlagConfig implements FlagStore. *)

\* A request in progress maps to a call that is done once it has been answered.
LEMMA CallOfRequest ==
  ASSUME NEW r \in Request
  PROVE  /\ r # NoRequest
         /\ CallOf(r) = [op |-> r.op, target |-> r.target, value |-> r.value,
                         phase |-> IF r.pc = "done" THEN "done" ELSE "open"]
         /\ CallOf(r) \in Store!Call
         /\ CallOf(r) # Store!NoCall
<1>1. r # NoRequest
  <2>1. r.pc # "idle"
    OBVIOUS
  <2>2. NoRequest.pc = "idle"
    OBVIOUS
  <2>3. QED
    BY <2>1, <2>2
<1>2. CallOf(r) = [op |-> r.op, target |-> r.target, value |-> r.value,
                    phase |-> IF r.pc = "done" THEN "done" ELSE "open"]
  BY <1>1 DEF CallOf
<1>3. CallOf(r).op # "none"
  BY <1>2
<1>4. CallOf(r) # Store!NoCall
  BY <1>3 DEF Store!NoCall
<1>5. CallOf(r) \in Store!Call
  BY <1>2 DEF Store!Call
<1>6. QED
  BY <1>1, <1>2, <1>4, <1>5

\* The empty table maps to flags nobody has configured.
LEMMA StoreInit == ConfigInit => Store!Init
  BY DEF ConfigInit, Store!Init, Store!NoCall, Flags, Calls, CallOf, NoRow

\* A step of one request changes one call and nothing else of the others.
LEMMA CallsStep ==
  ASSUME ConfigInv, NEW c \in Client, NEW r, request' = [request EXCEPT ![c] = r]
  PROVE  Calls' = [Calls EXCEPT ![c] = CallOf(r)]
  BY DEF ConfigInv, ConfigTypeOK, Calls, CallOf

\* An open request that moves to "done" marks its call and no other as done.
LEMMA DoneStep ==
  ASSUME ConfigInv, NEW c \in Client, request[c] \in Request, request[c].pc # "done",
         Goto(c, "done")
  PROVE  /\ Calls[c] = [op |-> request[c].op, target |-> request[c].target,
                        value |-> request[c].value, phase |-> "open"]
         /\ Calls[c] # Store!NoCall
         /\ Calls' = [Calls EXCEPT ![c].phase = "done"]
<1> DEFINE r == request[c]
           k == CallOf(r)
           q == [r EXCEPT !.pc = "done"]
<1>1. /\ Calls[c] = k
      /\ k # Store!NoCall
      /\ k = [op |-> r.op, target |-> r.target, value |-> r.value, phase |-> "open"]
  BY CallOfRequest DEF Calls
<1>2. request' = [request EXCEPT ![c] = q]
  BY DEF ConfigInv, ConfigTypeOK
<1>3. q \in Request /\ q.pc = "done" /\ q.op = r.op /\ q.target = r.target /\ q.value = r.value
  OBVIOUS
<1> HIDE DEF q
<1>4. CallOf(q) = [op |-> r.op, target |-> r.target, value |-> r.value, phase |-> "done"]
  BY <1>3, CallOfRequest
<1>5. Calls' = [Calls EXCEPT ![c] = CallOf(q)]
  BY <1>2, CallsStep
<1> HIDE DEF k
<1>6. [k EXCEPT !.phase = "done"]
         = [op |-> r.op, target |-> r.target, value |-> r.value, phase |-> "done"]
  BY <1>1
<1>7. QED
  BY <1>1, <1>4, <1>5, <1>6

\* A statement that writes a row is the point where its request takes effect.
LEMMA WriteTakesEffect ==
  ASSUME ConfigInv, NEW c \in Client, request[c] \in Request, request[c].pc # "done",
         NEW row \in Row, WriteRow(c, row),
         request[c].op = "enabled" =>
           row.enabled = request[c].value /\ row.policy = config[request[c].target].policy,
         request[c].op = "policy" =>
           row.policy = request[c].value /\ row.enabled = config[request[c].target].enabled
  PROVE  Store!TakeEffect(c)
<1> DEFINE r == request[c]
           t == request[c].target
<1>0. /\ config \in [Target -> Row]
      /\ t \in Target
      /\ config[t] \in Row
      /\ r.op \in {"enabled", "policy"}
  BY DEF ConfigInv, ConfigTypeOK
<1>1. /\ Calls[c] = [op |-> r.op, target |-> t, value |-> r.value, phase |-> "open"]
      /\ Calls[c] # Store!NoCall
      /\ Calls' = [Calls EXCEPT ![c].phase = "done"]
  BY DoneStep
<1>3. Flags' = [Flags EXCEPT ![t] = Store!Written(@, r.op, r.value)]
  <2>1. config' = [config EXCEPT ![t] = row]
    OBVIOUS
  <2>2. [enabled |-> row.enabled, policy |-> row.policy]
          = Store!Written([enabled |-> config[t].enabled, policy |-> config[t].policy],
                          r.op, r.value)
    BY <1>0 DEF Store!Written
  <2>3. Flags[t] = [enabled |-> config[t].enabled, policy |-> config[t].policy]
    BY <1>0 DEF Flags
  <2>4. Flags' = [Flags EXCEPT ![t] = [enabled |-> row.enabled, policy |-> row.policy]]
    BY <1>0, <2>1 DEF Flags
  <2>5. QED
    BY <2>2, <2>3, <2>4
<1>4. QED
  BY <1>1, <1>3 DEF Store!TakeEffect, Calls, Flags, CallOf

\* A request that answers without writing takes effect too: what it asked for
\* is in force at the moment of its read.
LEMMA ReadTakesEffect ==
  ASSUME ConfigInv, NEW c \in Client, request[c] \in Request, request[c].pc # "done",
         Goto(c, "done"), UNCHANGED config,
         request[c].op = "enabled" => config[request[c].target].enabled = request[c].value,
         request[c].op = "policy" => config[request[c].target].policy = request[c].value
  PROVE  Store!TakeEffect(c)
<1> DEFINE r == request[c]
           t == request[c].target
<1>0. /\ config \in [Target -> Row]
      /\ t \in Target
      /\ config[t] \in Row
      /\ r.op \in {"enabled", "policy"}
  BY DEF ConfigInv, ConfigTypeOK
<1>1. /\ Calls[c] = [op |-> r.op, target |-> t, value |-> r.value, phase |-> "open"]
      /\ Calls[c] # Store!NoCall
      /\ Calls' = [Calls EXCEPT ![c].phase = "done"]
  BY DoneStep
<1>3. Flags' = [Flags EXCEPT ![t] = Store!Written(@, r.op, r.value)]
  <2>1. Flags' = Flags
    BY DEF Flags
  <2>2. Flags[t] = [enabled |-> config[t].enabled, policy |-> config[t].policy]
    BY <1>0 DEF Flags
  <2>3. Store!Written(Flags[t], r.op, r.value) = Flags[t]
    BY <1>0, <2>2 DEF Store!Written
  <2>4. Flags = [Flags EXCEPT ![t] = Flags[t]]
    BY DEF Flags
  <2>5. QED
    BY <2>1, <2>3, <2>4
<1>4. QED
  BY <1>1, <1>3 DEF Store!TakeEffect, Calls, Flags, CallOf

\* Between its statements a request is an open call.
LEMMA OpenStep ==
  ASSUME ConfigInv, NEW c \in Client, request[c] \in Request, request[c].pc # "done",
         UNCHANGED config, NEW r \in Request, r.pc # "done",
         request' = [request EXCEPT ![c] = r],
         r.op = request[c].op, r.target = request[c].target, r.value = request[c].value
  PROVE  UNCHANGED Store!vars
<1>1. CallOf(r) = CallOf(request[c])
  BY CallOfRequest
<1>2. Calls' = [Calls EXCEPT ![c] = CallOf(r)]
  BY CallsStep
<1>3. Calls[c] = CallOf(request[c])
  BY DEF Calls
<1>4. Calls' = Calls
  BY <1>1, <1>2, <1>3 DEF Calls
<1>5. Flags' = Flags
  BY DEF Flags
<1>6. QED
  BY <1>4, <1>5 DEF Store!vars, Calls, Flags, CallOf

\* A request that begins is a call that is invoked.
LEMMA StoreInvoke ==
  ASSUME ConfigInv, NEW c \in Client, NEW op \in {"enabled", "policy"}, NEW t \in Target,
         NEW v, v \in IF op = "enabled" THEN BOOLEAN ELSE Policy, Begin(c, op, t, v)
  PROVE  Store!Invoke(c)
<1> DEFINE r == [pc |-> "find", op |-> op, target |-> t, value |-> v, seen |-> NoRow]
           k == CallOf(r)
<1>1. request[c] = NoRequest /\ request' = [request EXCEPT ![c] = r] /\ config' = config
  BY DEF Begin
<1>2. r \in Request /\ r.pc = "find"
  BY ConfigAssumption
<1> HIDE DEF r
<1>3. k \in Store!Call /\ k.phase = "open"
  BY <1>2, CallOfRequest
<1>4. Calls' = [Calls EXCEPT ![c] = k]
  BY <1>1, CallsStep
<1>5. Calls[c] = Store!NoCall
  BY <1>1 DEF Calls, CallOf, Store!NoCall
<1> HIDE DEF k
<1>6. Flags' = Flags
  BY <1>1 DEF Flags
<1>7. \E q \in {q \in Store!Call : q.phase = "open"} : Calls' = [Calls EXCEPT ![c] = q]
  BY <1>3, <1>4
<1>8. QED
  BY <1>5, <1>6, <1>7 DEF Store!Invoke, Calls, Flags, CallOf

\* An answered request returns, one that ends with an error aborts.
LEMMA StoreAnswer ==
  ASSUME ConfigInv, NEW c \in Client, request[c] \in Request,
         request' = [request EXCEPT ![c] = NoRequest], UNCHANGED config
  PROVE  Store!Return(c) \/ Store!Abort(c)
<1> DEFINE r == request[c]
           k == CallOf(r)
<1>1. /\ Calls[c] = k
      /\ k # Store!NoCall
      /\ k.phase \in {"open", "done"}
  BY CallOfRequest DEF Calls
<1>2. Calls' = [Calls EXCEPT ![c] = Store!NoCall]
  BY CallsStep DEF CallOf, Store!NoCall
<1>3. Flags' = Flags
  BY DEF Flags
<1> HIDE DEF k
<1>4. QED
  BY <1>1, <1>2, <1>3 DEF Store!Return, Store!Abort, Calls, Flags, CallOf

\* Every step of a request maps to a step of FlagStore or to a stutter.
LEMMA StoreNext == ConfigInv /\ ConfigNext => Store!Next \/ UNCHANGED Store!vars
<1> SUFFICES ASSUME ConfigInv, NEW c \in Client,
                    SetEnabledStep(c) \/ SetPolicyStep(c) \/ Respond(c) \/ Reject(c)
             PROVE  \/ Store!Invoke(c) \/ Store!TakeEffect(c)
                    \/ Store!Return(c) \/ Store!Abort(c)
                    \/ UNCHANGED Store!vars
  BY DEF ConfigNext, Store!Next
<1>0. /\ request[c] \in Request \cup {NoRequest}
      /\ request \in [Client -> Request \cup {NoRequest}]
      /\ config \in [Target -> Row]
  BY DEF ConfigInv, ConfigTypeOK
<1>1. ASSUME NEW t \in Target, NEW v,
             \/ v \in BOOLEAN /\ BeginSetEnabled(c, t, v)
             \/ v \in Policy /\ BeginSetPolicy(c, t, v)
      PROVE  Store!Invoke(c)
  BY <1>1, StoreInvoke DEF BeginSetEnabled, BeginSetPolicy
<1>2. ASSUME Respond(c) \/ Reject(c) PROVE Store!Return(c) \/ Store!Abort(c)
  BY <1>0, <1>2, StoreAnswer DEF Respond, Reject
<1>3. ASSUME request[c] \in Request, request[c].pc # "done", NEW p \in Stage \ {"done"},
             Goto(c, p), UNCHANGED config
      PROVE  UNCHANGED Store!vars
  <2> DEFINE r == [request[c] EXCEPT !.pc = p]
  <2>1. /\ r \in Request /\ r.pc # "done"
        /\ r.op = request[c].op /\ r.target = request[c].target /\ r.value = request[c].value
    BY <1>3
  <2>2. request' = [request EXCEPT ![c] = r]
    BY <1>0, <1>3
  <2> HIDE DEF r, Row, NoRow, NoRequest, Stage, Request, Exists, At, Goto, WriteRow
  <2>3. QED
    BY <1>3, <2>1, <2>2, OpenStep
<1>4. ASSUME request[c] \in Request, request[c].pc # "done", UNCHANGED config,
             request' = [request EXCEPT ![c].pc = "update",
                                        ![c].seen = config[request[c].target]]
      PROVE  UNCHANGED Store!vars
  <2> DEFINE r == [request[c] EXCEPT !.pc = "update", !.seen = config[request[c].target]]
  <2>1. /\ r \in Request /\ r.pc # "done"
        /\ r.op = request[c].op /\ r.target = request[c].target /\ r.value = request[c].value
    BY <1>0, <1>4
  <2>2. request' = [request EXCEPT ![c] = r]
    BY <1>0, <1>4
  <2> HIDE DEF r, Row, NoRow, NoRequest, Stage, Request, Exists, At, Goto, WriteRow
  <2>3. QED
    BY <1>4, <2>1, <2>2, OpenStep
<1>5. ASSUME request[c] \in Request, request[c].pc # "done", request[c].op = "enabled",
             EnabledAfterRead(c, config[request[c].target]), UNCHANGED config
      PROVE  Store!TakeEffect(c) \/ UNCHANGED Store!vars
  BY <1>4, <1>5, ReadTakesEffect DEF EnabledAfterRead
<1>6. ASSUME NEW t \in Target, ~Exists(t) PROVE config[t].enabled = FALSE /\ config[t].policy = NoPolicy
  <2>1. config[t].revision = 0
    BY <1>0, <1>6
  <2>2. config[t] = NoRow
    BY <2>1 DEF ConfigInv
  <2>3. QED
    BY <2>2
<1>7. CASE FindForEnabled(c)
  <2>1. /\ request[c] \in Request /\ request[c].pc # "done"
        /\ request[c].op = "enabled" /\ UNCHANGED config
    BY <1>0, <1>7 DEF FindForEnabled
  <2>2. CASE EnabledAfterRead(c, config[request[c].target])
    BY <1>5, <2>1, <2>2
  <2>3. CASE Goto(c, "insert")
    BY <1>3, <2>1, <2>3
  <2>4. CASE ~Exists(request[c].target) /\ ~request[c].value /\ Goto(c, "done")
    <3>1. config[request[c].target].enabled = request[c].value
      BY <1>6, <2>1, <2>4
    <3>2. QED
      BY <2>1, <2>4, <3>1, ReadTakesEffect
  <2>5. QED
    BY <1>7, <2>2, <2>3, <2>4 DEF FindForEnabled
<1>8. CASE InsertEnabled(c)
  <2>1. request[c] \in Request /\ request[c].pc # "done" /\ request[c].op = "enabled"
    BY <1>0, <1>8 DEF InsertEnabled
  <2>2. CASE Exists(request[c].target)
    BY <1>3, <1>8, <2>1, <2>2 DEF InsertEnabled
  <2>3. CASE ~Exists(request[c].target)
    <3> DEFINE row == [enabled |-> TRUE, policy |-> NoPolicy, revision |-> 1]
    <3>1. row \in Row /\ WriteRow(c, row)
      BY <1>8, <2>3, ConfigAssumption DEF InsertEnabled
    <3>2. request[c].value = TRUE
      BY <1>8, <2>1, CallOfRequest DEF ConfigInv, RequestInv, InsertEnabled
    <3>3. row.enabled = request[c].value /\ row.policy = config[request[c].target].policy
      BY <1>6, <2>1, <2>3, <3>2
    <3> HIDE DEF row
    <3>4. QED
      BY <2>1, <3>1, <3>3, WriteTakesEffect
  <2>4. QED
    BY <2>2, <2>3
<1>9. CASE ReloadEnabled(c)
  BY <1>0, <1>5, <1>9 DEF ReloadEnabled
<1>10. CASE UpdateEnabled(c)
  <2> DEFINE row == [config[request[c].target] EXCEPT
                       !.enabled = request[c].value,
                       !.revision = request[c].seen.revision + 1]
  <2>1. /\ request[c] \in Request /\ request[c].pc # "done" /\ request[c].op = "enabled"
        /\ request[c].value \in BOOLEAN
    BY <1>0, <1>10 DEF UpdateEnabled
  <2>2. request[c].seen.revision + 1 \in Nat /\ config[request[c].target] \in Row
    BY <1>0, <2>1
  <2>3. row \in Row
    BY <2>1, <2>2, RowUpdate
  <2>4. row.enabled = request[c].value /\ row.policy = config[request[c].target].policy
    BY <2>2
  <2>5. WriteRow(c, row)
    BY <1>10 DEF UpdateEnabled
  <2> HIDE DEF row
  <2>6. QED
    BY <2>1, <2>3, <2>4, <2>5, WriteTakesEffect
<1>11. CASE FindForPolicy(c)
  <2>1. /\ request[c] \in Request /\ request[c].pc # "done"
        /\ request[c].op = "policy" /\ UNCHANGED config
    BY <1>0, <1>11 DEF FindForPolicy
  <2>2. CASE config[request[c].target].policy = request[c].value /\ Goto(c, "done")
    BY <2>1, <2>2, ReadTakesEffect
  <2>3. QED
    BY <1>3, <1>4, <1>11, <2>1, <2>2 DEF FindForPolicy
<1>12. CASE InsertPolicy(c)
  <2>1. /\ request[c] \in Request /\ request[c].pc # "done" /\ request[c].op = "policy"
        /\ request[c].value \in Policy
    BY <1>0, <1>12 DEF InsertPolicy
  <2>2. CASE Exists(request[c].target)
    BY <1>12, <2>1, <2>2, StoreAnswer DEF InsertPolicy
  <2>3. CASE ~Exists(request[c].target)
    <3> DEFINE row == [enabled |-> FALSE, policy |-> request[c].value, revision |-> 1]
    <3>1. row \in Row /\ WriteRow(c, row)
      BY <1>12, <2>1, <2>3 DEF InsertPolicy
    <3>2. row.policy = request[c].value /\ row.enabled = config[request[c].target].enabled
      BY <1>6, <2>1, <2>3
    <3> HIDE DEF row
    <3>3. QED
      BY <2>1, <3>1, <3>2, WriteTakesEffect
  <2>4. QED
    BY <2>2, <2>3
<1>13. CASE UpdatePolicy(c)
  <2> DEFINE row == [config[request[c].target] EXCEPT
                       !.policy = request[c].value, !.revision = @ + 1]
  <2>1. /\ request[c] \in Request /\ request[c].pc # "done" /\ request[c].op = "policy"
        /\ request[c].value \in Policy
    BY <1>0, <1>13 DEF UpdatePolicy
  <2>2. config[request[c].target] \in Row /\ config[request[c].target].revision + 1 \in Nat
    BY <1>0, <2>1
  <2>3. row \in Row
    BY <2>1, <2>2, RowUpdate
  <2>4. row.policy = request[c].value /\ row.enabled = config[request[c].target].enabled
    BY <2>2
  <2>5. WriteRow(c, row)
    BY <1>13 DEF UpdatePolicy
  <2> HIDE DEF row
  <2>6. QED
    BY <2>1, <2>3, <2>4, <2>5, WriteTakesEffect
<1>14. QED
  BY <1>1, <1>2, <1>7, <1>8, <1>9, <1>10, <1>11, <1>12, <1>13
     DEF SetEnabledStep, SetPolicyStep

\* SetEnabled and SetPolicy are atomic: every behaviour of their statements is
\* a behaviour of a store whose calls take effect in one step.
THEOREM ConfigImplementsFlagStore == ConfigSpec => ImplementsFlagStore
<1>1. UNCHANGED configVars => UNCHANGED Store!vars
  BY DEF configVars, Store!vars, Flags, Calls, CallOf
<1>2. ConfigInv /\ [ConfigNext]_configVars => [Store!Next]_(Store!vars)
  BY <1>1, StoreNext
<1>3. QED
  BY <1>2, StoreInit, ConfigInvariant, PTL DEF ConfigSpec, ImplementsFlagStore, Store!Spec

==============================================================================
