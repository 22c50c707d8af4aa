SPECIFICATION Spec
CONSTANTS
  QueueLen = 32
  MaxConn = 2
  MaxReq = 1
  MaxDrops = 2
  Polite = FALSE
  BindMayFail = TRUE
  TaskMayFail = TRUE
INVARIANTS
  TypeOK
  DescriptorsOwned
  OneClientAtATime
\* connections and requests are bounded, so every behaviour comes to rest
CHECK_DEADLOCK FALSE
