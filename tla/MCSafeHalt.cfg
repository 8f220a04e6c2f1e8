\* Not kept by the code: KillSwitchStopsWorker (invariant).
CONSTANTS
  Keys = {binance, bybit}
  Threshold = 2
SPECIFICATION Spec
INVARIANTS
  HaltIsDurable
  KillSwitchIsComplete
PROPERTIES
  WatchdogHalts
