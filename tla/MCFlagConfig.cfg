SPECIFICATION MCSpec
CONSTANTS
  t1 = t1
  c1 = c1
  c2 = c2
  c3 = c3
  none = none
  p1 = p1
  Target = {t1}
  Client = {c1, c2, c3}
  Policy = {none, p1}
  NoPolicy = none
  MaxCommits = 3
SYMMETRY Symmetry
INVARIANTS ConfigTypeOK RevisionCountsCommits
PROPERTIES ImplementsFlagStore RevisionGrowsUnlessRaced
