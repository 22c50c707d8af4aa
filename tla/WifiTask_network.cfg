SPECIFICATION FairSpec
CONSTANTS
  Names = {ctxlink_net, lab}
  Default = ctxlink_net
  NONE = NONE
  QueueLen = 4
  MaxInfo = 1
  MaxEvents = 4
  MaxResets = 1
INVARIANTS
  TypeOK
  StartsAsStored
  LastReportTrue
PROPERTIES
  ServerFollows
  TakesCredentials
  ServerControlSpec
\* Credentials and driver events are bounded, and the task may wait for ever
\* in wifi_disconnect: the system may stop.
CHECK_DEADLOCK FALSE
