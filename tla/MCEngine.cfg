\* Not kept by the code: CloseEnds, HaltedStillCloses (properties).
SPECIFICATION FairSpec
CONSTANTS
  a1 = a1
  NoLeg = NoLeg
  Assets <- OneAsset
  TargetQty = 2
  Tolerance = 0
  MaxOpen = 1
  MaxIds = 1
  MaxDbFails = 1
  MaxCrashes = 1
INVARIANTS
  RecordedIsReal
  HedgeWithinTolerance
PROPERTIES
  OrdersHaveRow
  DegradedWaitsForOperator
  CloseRequestIsTaken
CHECK_DEADLOCK FALSE
