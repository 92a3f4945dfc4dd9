SPECIFICATION FairSpec
CONSTANTS
  MaxUpdates = 3
  DefaultLimit = 2
  DefaultErrorTimeout = 1
  Limit = 1
  RetryAfters <- FloodWaits
  Unparsable <- NoUpdate
  Poison <- ThirdUpdate
INVARIANTS
  NoGap
  ConfirmedHandled
  NoRedelivery
  FloodRespected
  StreamInv
PROPERTIES
  ImplementsDelivery
  EventuallyHandled
