SPECIFICATION Spec
CONSTANTS
  QueueLen = 32
  MaxConn = 1
  MaxReq = 0
  MaxDrops = 1
  Polite = TRUE
  BindMayFail = FALSE
  TaskMayFail = FALSE
INVARIANTS
  ServerRuns
\* connections and requests are bounded, so every behaviour comes to rest
CHECK_DEADLOCK FALSE
