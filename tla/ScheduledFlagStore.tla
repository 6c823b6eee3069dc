-------------------------- MODULE ScheduledFlagStore --------------------------
(***************************************************************************)
(* What the control plane promises about flags that scheduled changes      *)
(* write beside management requests: the registers and calls of FlagStore, *)
(* and changes that take effect in one step, once, after a replica has     *)
(* taken them up.  A cancel before that is final; a later one comes too    *)
(* late to be relied upon.                                                 *)
(*                                                                         *)
(* FlagScheduler implements this module with rows of two tables, claims    *)
(* with leases, and replicas that fail half-way.                           *)
(***************************************************************************)
EXTENDS FlagStore

CONSTANTS
  Schedule,      \* scheduled changes
  Patch,         \* patches of one or both registers
  Unset,         \* a register a patch leaves alone
  PromptWorkers  \* TRUE: replicas finish what they take up within the lease

VARIABLE
  change         \* change[s]: the scheduled change s, or NoChange

promiseVars == <<vars, change>>

NoChange == [state |-> "absent"]

\* withdrawn: cancelled after it was taken up.
State == {"waiting", "taken", "applied", "failed", "cancelled", "withdrawn"}

PromiseTypeOK ==
  /\ TypeOK
  /\ change \in [Schedule -> [state: State, target: Target, patch: Patch] \cup {NoChange}]

------------------------------------------------------------------------------

PromiseInit == Init /\ change = [s \in Schedule |-> NoChange]

Turn(s, from, to) ==
  /\ change[s].state \in from
  /\ change' = [change EXCEPT ![s].state = to]

Add(s) ==
  /\ change[s] = NoChange
  /\ \E t \in Target, p \in Patch :
       change' = [change EXCEPT ![s] = [state |-> "waiting", target |-> t, patch |-> p]]
  /\ UNCHANGED vars

TakeUp(s) == Turn(s, {"waiting"}, "taken") /\ UNCHANGED vars

Cancel(s) ==
  /\ Turn(s, {"waiting"}, "cancelled") \/ Turn(s, {"taken", "failed"}, "withdrawn")
  /\ UNCHANGED vars

Fail(s) == Turn(s, {"taken"}, "failed") /\ UNCHANGED vars

\* Where a change may take effect: a replica that outlives its lease may apply
\* it when another one has failed or even applied it.
Applicable == {"taken", "withdrawn"} \cup IF PromptWorkers THEN {} ELSE {"failed", "applied"}

\* A register gets what the patch sets and otherwise keeps what it had.  It may
\* also keep it against the patch: AppliedWholeUnlessOvertaken of FlagScheduler
\* says that this takes a request that wrote the row while the change was
\* being applied.
Patched(old, new) == {old, new} \ {Unset}

Apply(s) ==
  /\ Turn(s, Applicable, "applied")
  /\ \E e \in Patched(flag[change[s].target].enabled, change[s].patch.enabled),
        p \in Patched(flag[change[s].target].policy, change[s].patch.policy) :
       flag' = [flag EXCEPT ![change[s].target] = [enabled |-> e, policy |-> p]]
  /\ UNCHANGED call

PromiseNext ==
  \/ Next /\ UNCHANGED change
  \/ \E s \in Schedule : Add(s) \/ TakeUp(s) \/ Cancel(s) \/ Fail(s) \/ Apply(s)

PromiseSpec == PromiseInit /\ [][PromiseNext]_promiseVars

==============================================================================
