SPECIFICATION FairSpec
CONSTANTS
  u1 = u1
  u2 = u2
  Updates <- TwoUpdates
  N = 3
  Stuck <- OneStuck
INVARIANTS
  Gated
  Accounted
  PanicContained
  DispatchInv
PROPERTIES
  Independent
CHECK_DEADLOCK FALSE
