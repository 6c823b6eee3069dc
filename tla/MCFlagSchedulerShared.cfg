SPECIFICATION Spec
CONSTANTS
  none = none
  p1 = p1
  unset = unset
  t1 = t1
  c1 = c1
  c2 = c2
  o1 = o1
  w1 = w1
  w2 = w2
  Target = {t1}
  Client = {c1, c2}
  Policy = {none, p1}
  NoPolicy = none
  MaxCommits = 2
  Schedule = {1}
  Worker = {w1}
  Operator = {o1}
  Patch <- Patches
  Unset = unset
  Lease = 1
  BatchLimit = 1
  MaxTime = 2
  MaxExecuteAt = 1
  MaxFaults = 1
  PromptWorkers = FALSE
SYMMETRY Symmetry
INVARIANTS RevisionCountsCommits
PROPERTIES RevisionGrowsUnlessRaced AppliedWholeUnlessOvertaken ImplementsScheduledFlagStore
