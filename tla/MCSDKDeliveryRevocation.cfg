SPECIFICATION DeliverySpec
CONSTANTS
  e1 = e1
  e2 = e2
  s1 = s1
  s2 = s2
  Environment = {e1, e2}
  Everywhere = Everywhere
  Sdk = {s1, s2}
  EnvironmentOf <- MCEnvironmentOf
  Revocable = {s1}
  MaxChanges = 1
  MaxFailures = 0
PROPERTIES RevocationClosesStream
