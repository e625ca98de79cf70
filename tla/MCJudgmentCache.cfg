SPECIFICATION Spec
CONSTANTS
  i1 = i1
  i2 = i2
  i3 = i3
  Ids = {i1, i2, i3}
  r1 = r1
  r2 = r2
  Results = {r1, r2}
  NoId = NoId
  Weight <- MCWeight
  Policies <- MCPolicies
  Skew = 1
  MaxInstant = 9
  MaxClock = 2
SYMMETRY Alike
INVARIANTS
  PartsAgree
  WithinLimits
  HitsAreFresh
PROPERTIES
  ImplementsLossyCache
  ExpiryNeverExtended
  MostRecentSurvives
  EvictsOnlyWhatItMust
CHECK_DEADLOCK TRUE
