---------------------------- MODULE MCManagement -----------------------------
\* Management for TLC: three requests, one on a replica of its own, so that
\* setups meet at the advisory lock, and two on a replica with two
\* connections, so that they meet at its pool.
EXTENDS Management

CONSTANTS r1, r2, r3, s1, s2, e1, e2

MCServerOf == [r \in Request |-> IF r = r1 THEN s1 ELSE s2]

\* Setups on different replicas carry different addresses, so that only the
\* lock keeps them apart; on one replica the same, so that they may conflict.
AddressesByReplica ==
  \A r \in Request :
    request[r] = Idle /\ request'[r] # Idle /\ request'[r].call.op = "bootstrap"
      => request'[r].call.email = IF r = r1 THEN e1 ELSE e2

MCSpec ==
  /\ ManagementInit
  /\ [][ManagementNext /\ AddressesByReplica]_managementVars
  /\ ManagementFairness

==============================================================================
