SPECIFICATION MCSpec
CONSTANTS
  c1 = c1
  c2 = c2
  s1 = s1
  e1 = e1
  Client = {c1, c2}
  Viewer = {}
  Environment = {e1}
  Kind = "string"
  Default = "string"
  MaxWrites = 2
  Scale = 1
  MaxInt = 1
  Portable = {}
  Key <- MCKey
  Trim <- MCTrim
  Meets <- MCMeets
  Accepts <- MCAccepts
  Bucket <- MCBucket
  VariantLists <- MCVariantLists
  Policies <- MCPolicies
  Segments <- MCSegments
  SegmentKeys = {"s", "t"}
  InitialSegments <- MCInitialSegments
  Contexts <- MCContexts
  Sdk = {s1}
  ClientKind = {s1}
  EnvironmentOf <- MCEnvironmentOf
SYMMETRY Symmetry
INVARIANTS DocumentTypeOK ReferencesResolve DeliveredNeverFails
PROPERTIES BreaksOnlyOnStaleRead PreviewTellsBrokenDefinitions DocumentSelfContained FailsOnlyWhenBrokenOrMixed
