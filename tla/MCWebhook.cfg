SPECIFICATION FairSpec
CONSTANTS
  c1 = c1
  c2 = c2
  u1 = u1
  u2 = u2
  Connections <- TwoConnections
  Updates <- TwoUpdates
  QueueSize = 2
  Poison <- TwoUpdates
INVARIANTS
  AckedKept
  OrderKept
  WebhookInv
PROPERTIES
  EventuallyHandled
