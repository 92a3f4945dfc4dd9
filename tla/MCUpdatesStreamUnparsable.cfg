SPECIFICATION FairSpec
CONSTANTS
  MaxUpdates = 2
  DefaultLimit = 3
  DefaultErrorTimeout = 1
  Limit = 2
  RetryAfters <- NoWait
  Unparsable <- SecondUpdate
  Poison <- NoUpdate
PROPERTIES
  EventuallyHandled
