SPECIFICATION DeliverySpec
CONSTANTS
  e1 = e1
  e2 = e2
  s1 = s1
  Environment = {e1, e2}
  Everywhere = Everywhere
  Sdk = {s1}
  EnvironmentOf <- MCEnvironmentOf
  Revocable = {s1}
  MaxChanges = 2
  MaxFailures = 2
INVARIANTS DeliveryTypeOK NoSignalLost
PROPERTIES EventuallyCurrent RevocationClosesUnlessUnheard
