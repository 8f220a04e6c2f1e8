\* Not kept by the code: SurvivesRestarts (invariant).
CONSTANTS
  Events <- MCEvents
  Keys <- MCKeys
  KeyOf <- MCKeyOf
  Flaky <- MCFlaky
  Dispatchers = {old, new}
  MaxAttempts = 2
  BatchSize = 1
  MaxDbFails = 2
  MaxCrashes = 1
  MaxServerRestarts = 1
SPECIFICATION Spec
INVARIANTS
  OneHandlerAtATime
  OneEventPerKey
PROPERTIES
  AcceptedIsServed
  ImplementsAtLeastOnce
CHECK_DEADLOCK FALSE
