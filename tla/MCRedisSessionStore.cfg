SPECIFICATION Spec
CONSTANTS
  c1 = c1
  c2 = c2
  n1 = n1
  v1 = v1
  v2 = v2
  Forever = Forever
  Clients <- TwoClients
  Namespaces <- OneNamespace
  Names <- TwoNames
  Values <- TwoValues
  Seconds <- OneTimeout
  Lifetime = 1
  MaxTime = 1
SYMMETRY Symmetric
INVARIANTS
  TypeOK
  LifetimeKept
PROPERTIES
  NotCutShort
  ImplementsStore
