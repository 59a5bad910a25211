SPECIFICATION Spec
CONSTANTS
  Routes = {"direct", "proxy"}
  MaxUp = 1
  MaxDown = 6
  TCP_WND = 3
  tcpMaxPendingDataSize = 5
  TCP_SND_BUF = 2
  tcpMaxCoalesceSize = 2
  drainLowWaterMark = 2
  MaxRead = 2
CHECK_DEADLOCK FALSE
INVARIANTS
  DownlinkInOrder
  DownlinkNeverStalls
