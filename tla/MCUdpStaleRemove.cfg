SPECIFICATION Spec
CONSTANTS
  Keys = {k1, k2}
  Paths = {"proxy"}
  MAX_UDP_FLOWS = 2
  udpMaxBufferSize = 2
  MaxFlows = 2
CHECK_DEADLOCK FALSE
INVARIANT
  ActiveFlowListed
