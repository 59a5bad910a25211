SPECIFICATION Spec
CONSTANTS
  XudpModes = {TRUE, FALSE}
  MaxSessions = 3
  MaxClients = 2
  MaxSends = 2
CHECK_DEADLOCK FALSE
INVARIANTS
  WaitersReleased
  LiveSessionListed
  FlowHearsOfClose
  FramesInOrder
