--------------------------- MODULE MCFlagScheduler ---------------------------
\* FlagScheduler for TLC.  Replicas, requests and cancels are interchangeable;
\* schedules are not, their IDs order a batch.
EXTENDS FlagScheduler, TLC

CONSTANTS none, p1, unset

EnablePatch == {[enabled |-> TRUE, policy |-> unset]}

\* The patches that change one column, and one that changes both.
Patches ==
  {[enabled |-> TRUE, policy |-> unset], [enabled |-> unset, policy |-> p1],
   [enabled |-> TRUE, policy |-> p1]}

Symmetry ==
  Permutations(Worker) \cup Permutations(Client) \cup Permutations(Operator)

==============================================================================
