SPECIFICATION FairAppSpec
CONSTANTS
  MaxUpdates = 2
  DefaultLimit = 2
  DefaultErrorTimeout = 1
  Limit = 1
  RetryAfters <- NoWait
  Unparsable <- NoUpdate
  Poison <- AllUpdates
  N = 1
  Stuck <- AllUpdates
INVARIANTS
  ConfirmedBegun
  BegunInOrder
  OneDispatch
  PollingSurvives
  AppInv
PROPERTIES
  DeliveryGoesOn
