SPECIFICATION Spec
CONSTANTS
    SeqMod = 16
    TCP_MSS = 2
    TCP_SND_BUF = 2
    TCP_WND = 3
    WndUnit = 2
    MaxWndField = 2
    TCP_MAXRTX = 2
    TCP_WND_UPDATE_THRESHOLD = 2
    Down = 3
    Up = 2
    PeerBuf = 1
    LwipIss = 14
    PeerIss = 13
    LinkCap = 2
    Losses = 1
    MemFails = FALSE
    SplitFin = FALSE
    Rejects = TRUE
INVARIANTS
    EdgeNeverShrinks
CHECK_DEADLOCK FALSE
