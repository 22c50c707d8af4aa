SPECIFICATION Spec
CONSTANTS
  InLen = 3
  OutLen = 2
  SrvLen = 1
  WifiLen = 1
  MaxTx = 3
  MaxRx = 2
  RxKinds = {"to_gdb", "set_network_info"}
  Window = 3
  Unsolicited = 2
  BackToBack = TRUE
  NULL = NULL
INVARIANTS
  TypeOK
  NoNullTransfer
  InOrder
\* the traffic is bounded, so every behaviour ends in a state of rest
CHECK_DEADLOCK FALSE
