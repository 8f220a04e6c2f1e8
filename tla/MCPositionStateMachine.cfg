SPECIFICATION FairSpec
CONSTANTS
  c1 = c1
  c2 = c2
  NoRow = NoRow
  Callers <- MCCallers
  Deltas <- MCDeltas
  MaxLog = 5
INVARIANTS
  TypeOK
  RowAtMostOneStepAhead
  MemoryMatchesRow
  LogIsPath
