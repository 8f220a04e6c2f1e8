SPECIFICATION Spec
CONSTANTS
  p1 = p1
  p2 = p2
  s1 = s1
  Plans <- MCPlans
  Scopes <- MCScopes
  ScopeOf <- MCScopeOf
  Threshold = 1
  MaxTransfers = 2
  MaxDbFails = 2
  MaxCrashes = 1
INVARIANTS
  MainAtMostOnce
  MainAfterTest
PROPERTIES
  TrippedScopeRests
SYMMETRY PlanSymmetry
CHECK_DEADLOCK FALSE
