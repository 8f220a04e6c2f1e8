SPECIFICATION Spec
CONSTANTS
  Offers <- MCOffers
  MaxAge = 0
  MinSeconds = 2
  Default = 4
  Horizon = 6
  Notional = 2
  Fees = 1
  MinNet = 1
  Slow = 1
PROPERTIES
  EntryIsTimely
  EntryIsReal
  EntryPays
CHECK_DEADLOCK FALSE
