SPECIFICATION Spec
CONSTANTS
  Keys = {k1, k2, k3}
  Paths = {"direct", "proxy", "mux", "shadowsocks", "vision443", "badCredentials"}
  MAX_UDP_FLOWS = 2
  udpMaxBufferSize = 1
  MaxFlows = 3
CHECK_DEADLOCK FALSE
INVARIANTS
  NoClosedFlowListed
  BufferedHasOutcome
  NoOrphanOutbound
