SPECIFICATION Spec
CONSTANTS
  c1 = c1
  c2 = c2
  n1 = n1
  v1 = v1
  v2 = v2
  Forever = Forever
  Clients <- OneClient
  Namespaces <- OneNamespace
  Names <- OneName
  Values <- TwoValues
  Seconds <- Timeouts
  Lifetime = 2
  Checks <- BothBuilds
  Crashes = TRUE
  Ops <- AllOps
  MaxTime = 3
INVARIANTS
  TypeOK
PROPERTIES
  YoungKept
  ImplementsStore
