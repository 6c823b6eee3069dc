SPECIFICATION Spec
CONSTANTS
  none = none
  p1 = p1
  unset = unset
  t1 = t1
  c1 = c1
  o1 = o1
  w1 = w1
  w2 = w2
  Target = {t1}
  Client = {}
  Policy = {none, p1}
  NoPolicy = none
  MaxCommits = 1
  Schedule = {1}
  Worker = {w1, w2}
  Operator = {}
  Patch <- EnablePatch
  Unset = unset
  Lease = 1
  BatchLimit = 2
  MaxTime = 3
  MaxExecuteAt = 2
  MaxFaults = 0
  PromptWorkers = FALSE
SYMMETRY Symmetry
PROPERTIES StaleWorkerNeverCommits
