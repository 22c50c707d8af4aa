SPECIFICATION FairSpec
CONSTANTS
  InLen = 10
  OutLen = 4
  SrvLen = 32
  WifiLen = 4
  MaxTx = 4
  MaxRx = 4
  RxKinds = {"to_gdb"}
  Window = 1
  Unsolicited = 0
  BackToBack = FALSE
  NULL = NULL
INVARIANTS
  ZeroBufferIsZero
PROPERTIES
  AttnHeld
  RequestReplySpec
\* the traffic is bounded, so every behaviour ends in a state of rest
CHECK_DEADLOCK FALSE
