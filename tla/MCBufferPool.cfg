SPECIFICATION FairSpec
CONSTANTS
  N = 3
  wifi = wifi
  client = client
  handler = handler
  Tasks <- MCTasks
  Isrs <- MCIsrs
  Cores <- MCCores
  MayRunOn <- MCMayRunOn
  MaxGrants = 5
  NONE = NONE
INVARIANTS
  TypeOK
  ReuseDistance
PROPERTY
  SomeoneIsServed
\* the number of calls is bounded
CHECK_DEADLOCK FALSE
