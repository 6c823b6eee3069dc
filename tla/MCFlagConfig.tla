---------------------------- MODULE MCFlagConfig -----------------------------
\* FlagConfig for TLC: three concurrent requests on one row, one policy
\* besides the empty one, so that inserts collide and stale toggles overtake.
EXTENDS FlagConfig, TLC

Symmetry == Permutations(Client) \cup Permutations(Policy \ {NoPolicy})

\* Every row has reached its bound and every request is answered: the model
\* stops here, the program does not.  A request that gets stuck half-way is
\* still reported as a deadlock.
BoundReached ==
  /\ \A t \in Target : commits[t] >= MaxCommits
  /\ \A c \in Client : request[c] = NoRequest
  /\ UNCHANGED configVars

MCSpec == ConfigInit /\ [][ConfigNext \/ BoundReached]_configVars

==============================================================================
