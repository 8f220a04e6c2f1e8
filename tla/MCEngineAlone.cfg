SPECIFICATION Spec
CONSTANTS
  a1 = a1
  NoLeg = NoLeg
  Assets <- OneAsset
  TargetQty = 2
  Tolerance = 0
  MaxOpen = 1
  MaxIds = 1
  MaxDbFails = 0
  MaxCrashes = 0
INVARIANTS
  NoLegAlone
CHECK_DEADLOCK FALSE
