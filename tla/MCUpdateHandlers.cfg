SPECIFICATION Spec
CONSTANTS
  Bots <- AllBots
  Capacity = 2
  Builds <- BothBuilds
  SomeIds <- Ids
  NoUpdate <- NoRaw
INVARIANTS
  TypeOK
  OnlyPollsPanic
  SessionsSeparate
  BudgetsSeparate
  ArgumentsWhole
