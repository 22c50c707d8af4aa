SPECIFICATION FairSpec
CONSTANTS
  N = 8
  InLen = 10
  OutLen = 4
  SrvLen = 1
  MaxConn = 2
  MaxReq = 2
  Window = 1
  Unsolicited = 1
  EarlyClients = FALSE
  Polite = TRUE
  Failures = TRUE
  NONE = NONE
INVARIANTS
  TypeOK
  Intact
  AssertHolds
  NothingLost
PROPERTIES
  NeverTakenInUse
  AnswersReturn
  RequestReplySafety
\* the traffic is bounded, so every behaviour ends in a state of rest
CHECK_DEADLOCK FALSE
