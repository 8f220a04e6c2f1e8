SPECIFICATION SpecAdapters
CONSTANTS
  Multiplier = 2
  MaxQty = 3
  Qtys <- MCQtys
  Slices <- MCSlices
  Legs <- MCLegs
  Delistable <- MCDelistable
  Traded <- GateOnly
  Lossy <- GateOnly
PROPERTIES
  NotFoundMeansAbsent
CHECK_DEADLOCK FALSE
