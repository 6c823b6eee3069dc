CONSTANTS
  r1 = r1
  r2 = r2
  r3 = r3
  s1 = s1
  s2 = s2
  e1 = e1
  e2 = e2
  Server = {s1, s2}
  Request = {r1, r2, r3}
  ServerOf <- MCServerOf
  Connections = 2
  Browser = {b1}
  None = None
  Email = {e1, e2}
  ProjectKey = {p1}
  Kind = {"flag"}
  Key = {k1}
  MaxSends = 3
SPECIFICATION MCSpec
INVARIANTS ManagementTypeOK OneOwnerUnderLock
PROPERTIES AnsweredUnlessJammed SignedInUntilEnded WritesNeedSession
CHECK_DEADLOCK FALSE
