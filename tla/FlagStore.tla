------------------------------ MODULE FlagStore ------------------------------
(***************************************************************************)
(* What the control plane promises about the state of one flag in one      *)
(* environment: a toggle (enabled) and a targeting policy are registers.   *)
(* A call takes effect in one atomic step between its invocation and its   *)
(* answer, or is answered with an error and never takes effect.            *)
(*                                                                         *)
(* FlagConfig implements this module with separate SELECT, INSERT and      *)
(* UPDATE statements against a sparse table of rows.                       *)
(***************************************************************************)
CONSTANTS
  Target,    \* (environment, feature flag) pairs
  Client,    \* concurrent management requests
  Policy,    \* targeting policies, opaque here
  NoPolicy   \* the empty policy of an environment nobody configured

VARIABLES
  flag,      \* flag[t]: the effective toggle and policy of t
  call       \* call[c]: the call client c is in, or NoCall

vars == <<flag, call>>

NoCall == [op |-> "none"]

Call ==
  [op: {"enabled"}, target: Target, value: BOOLEAN, phase: {"open", "done"}]
    \cup [op: {"policy"}, target: Target, value: Policy, phase: {"open", "done"}]

TypeOK ==
  /\ flag \in [Target -> [enabled: BOOLEAN, policy: Policy]]
  /\ call \in [Client -> Call \cup {NoCall}]

\* The state a call leaves behind: one of the two registers is replaced.
Written(state, op, value) ==
  IF op = "enabled" THEN [state EXCEPT !.enabled = value]
                    ELSE [state EXCEPT !.policy = value]

------------------------------------------------------------------------------

Init ==
  /\ flag = [t \in Target |-> [enabled |-> FALSE, policy |-> NoPolicy]]
  /\ call = [c \in Client |-> NoCall]

Invoke(c) ==
  /\ call[c] = NoCall
  /\ call' \in {[call EXCEPT ![c] = k] : k \in {k \in Call : k.phase = "open"}}
  /\ UNCHANGED flag

TakeEffect(c) ==
  /\ call[c] # NoCall
  /\ call[c].phase = "open"
  /\ flag' = [flag EXCEPT ![call[c].target] = Written(@, call[c].op, call[c].value)]
  /\ call' = [call EXCEPT ![c].phase = "done"]

Return(c) ==
  /\ call[c] # NoCall
  /\ call[c].phase = "done"
  /\ call' = [call EXCEPT ![c] = NoCall]
  /\ UNCHANGED flag

Abort(c) ==
  /\ call[c] # NoCall
  /\ call[c].phase = "open"
  /\ call' = [call EXCEPT ![c] = NoCall]
  /\ UNCHANGED flag

Next == \E c \in Client : Invoke(c) \/ TakeEffect(c) \/ Return(c) \/ Abort(c)

Spec == Init /\ [][Next]_vars

==============================================================================
