SPECIFICATION FairSpec
CONSTANTS
  ClientIds <- MCClientIds
  MaxQty = 2
  MaxRequotes = 1
  MaxPosition = 2
INVARIANTS
  NoPhantomClose
  SuccessClosesBoth
  StopsOnAmbiguity
PROPERTIES
  CloseReturns
  ImplementsPairReduction
CHECK_DEADLOCK FALSE
