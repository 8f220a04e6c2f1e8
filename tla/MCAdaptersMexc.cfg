SPECIFICATION SpecAdapters
CONSTANTS
  Multiplier = 2
  MaxQty = 3
  Qtys <- MCQtys
  Slices <- MCSlices
  Legs <- MCLegs
  Delistable = {}
  Traded <- MexcOnly
  Lossy <- MexcOnly
INVARIANTS
  OrderHasItsSide
CHECK_DEADLOCK FALSE
