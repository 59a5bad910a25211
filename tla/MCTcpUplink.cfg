SPECIFICATION FairSpec
CONSTANTS
  Routes = {"direct", "proxy"}
  MaxUp = 4
  MaxDown = 1
  TCP_WND = 3
  tcpMaxPendingDataSize = 5
  TCP_SND_BUF = 1
  tcpMaxCoalesceSize = 2
  drainLowWaterMark = 1
  MaxRead = 1
CHECK_DEADLOCK FALSE
INVARIANTS
  WindowConserved
  NoStrandedUplink
  NoUseAfterClose
  NoOrphanConnection
  ProxyUplinkInOrder
PROPERTY
  EventuallyClosed
