SPECIFICATION FairSpec
CONSTANTS
  QueueLen = 32
  MaxConn = 3
  MaxReq = 2
  MaxDrops = 0
  Polite = TRUE
  BindMayFail = FALSE
  TaskMayFail = FALSE
INVARIANTS
  ClientKept
  OwnAnswers
PROPERTIES
  EveryClientServed
  EveryRequestAnswered
\* connections and requests are bounded, so every behaviour comes to rest
CHECK_DEADLOCK FALSE
