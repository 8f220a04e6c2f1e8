SPECIFICATION SpecAdapters
CONSTANTS
  Multiplier = 2
  MaxQty = 3
  Qtys <- MCQtys
  Slices <- MCSlices
  Legs <- MCLegs
  Delistable <- MCDelistable
  Traded <- AllVenues
  Lossy <- MCLossy
INVARIANTS
  OrderIsTheRequest
  TerminalIsFinal
  SettingIsDone
PROPERTIES
  NotFoundMeansAbsent
  ImplementsOrderExecutor
CHECK_DEADLOCK FALSE
