SPECIFICATION FairSpec
CONSTANTS
  Sock = {s1, s2}
  Platform = "web"
  BufferLimit = 2
  HbInterval = 2
  HbTimeout = 1
  InitialDelay = 1
  MaxDelay = 2
  MaxEvents = 3
  None = None
INVARIANTS TypeOK OneConnection HeartbeatFollowsSocket AuthFirst DeliveredOnce
PROPERTIES StreamSpec Reconnects
