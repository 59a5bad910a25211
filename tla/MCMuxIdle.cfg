SPECIFICATION Spec
CONSTANTS
  XudpModes = {TRUE}
  MaxSessions = 1
  MaxClients = 1
  MaxSends = 1
CHECK_DEADLOCK FALSE
INVARIANT
  IdleTimed
