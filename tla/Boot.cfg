SPECIFICATION FairSpec
CONSTANTS
  LogLen = 2
  InLen = 10
  MaxPackets = 2
  MaxDrops = 1
INVARIANTS
  TypeOK
  OnlyEarlyLog
  
PROPERTIES
  StartUpEnds
\* an abort, and the bounds on traffic, end a behaviour
CHECK_DEADLOCK FALSE
