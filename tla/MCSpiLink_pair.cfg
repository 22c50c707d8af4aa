SPECIFICATION FairSpec
CONSTANTS
  InLen = 10
  OutLen = 4
  SrvLen = 32
  WifiLen = 4
  MaxTx = 2
  MaxRx = 0
  RxKinds = {"to_gdb"}
  Window = 2
  Unsolicited = 0
  BackToBack = FALSE
  NULL = NULL
INVARIANTS
  NoStall
PROPERTIES
  RemovesCompleted
  EveryPacketDelivered
\* the traffic is bounded, so every behaviour ends in a state of rest
CHECK_DEADLOCK FALSE
