SPECIFICATION Spec
CONSTANTS
  read1 = read1
  read2 = read2
  order1 = order1
  Calls <- MCCalls
  Safe <- MCSafe
  Timed <- MCTimed
  Period = 2
  Burst = 1
  MaxRetries = 1
  BaseDelay = 1
  MaxDelay = 2
  Jitter = 1
  Deadline = 2
  FailureThreshold = 2
  ResetTimeout = 3
  InitialDelay = 1
  MaxBackoff = 2
  Spread = 1
  Streamed <- AllVenues
  Subscriptions <- MCSubscriptions
  MaxUpdates = 3
  MaxWire = 2
  PublicBuffer = 1
  PrivateBuffer = 1
INVARIANTS
  WithinRate
  UnsafeSentOnce
  TokenIsDue
  BreakerRests
  EventsAreFaithful
PROPERTIES
  CallsReturn
  StopEnds
CHECK_DEADLOCK FALSE
