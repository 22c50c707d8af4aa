SPECIFICATION Spec
CONSTANTS
  N = 8
  InLen = 10
  OutLen = 4
  SrvLen = 32
  MaxConn = 1
  MaxReq = 2
  Window = 2
  Unsolicited = 4
  EarlyClients = FALSE
  Polite = TRUE
  Failures = FALSE
  NONE = NONE
INVARIANTS
  AssertHolds
\* the traffic is bounded, so every behaviour ends in a state of rest
CHECK_DEADLOCK FALSE
