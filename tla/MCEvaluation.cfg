SPECIFICATION MCSpec
CONSTANTS
  Key <- MCKey
  Trim <- MCTrim
  Meets <- MCMeets
  Accepts <- MCAccepts
  Portable <- MCPortable
  Bucket <- MCBucket
  Scale <- MCScale
  MaxInt <- MCMaxInt
  Definitions <- MCDefinitions
  Rollouts <- MCRollouts
  Contexts <- MCContexts
  Subjects <- MCSubjects
INVARIANTS ValidDefinitionsEvaluate MembershipAgrees VisitDecidesCycles WeightsAreShares
PROPERTIES CohortRetained
