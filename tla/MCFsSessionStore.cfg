SPECIFICATION FairSpec
CONSTANTS
  c1 = c1
  c2 = c2
  n1 = n1
  v1 = v1
  v2 = v2
  Forever = Forever
  Clients <- TwoClients
  Namespaces <- OneNamespace
  Names <- ThreeNames
  Values <- OneValue
  Seconds <- OneTimeout
  Lifetime = Forever
  Checks <- Checked
  Crashes = FALSE
  Ops <- SetAndGetExpireDel
  MaxTime = 0
INVARIANTS
  OnlyWritten
PROPERTIES
  MarkerWritten
