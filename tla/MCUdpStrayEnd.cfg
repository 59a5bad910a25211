SPECIFICATION Spec
CONSTANTS
  Keys = {k1}
  Paths = {"proxy"}
  MAX_UDP_FLOWS = 1
  udpMaxBufferSize = 1
  MaxFlows = 1
CHECK_DEADLOCK FALSE
INVARIANT
  NoStrayEnd
