SPECIFICATION FairSpec
CONSTANTS
    SeqMod = 16
    TCP_MSS = 1
    TCP_SND_BUF = 2
    TCP_WND = 4
    WndUnit = 2
    MaxWndField = 3
    TCP_MAXRTX = 2
    TCP_WND_UPDATE_THRESHOLD = 2
    Down = 2
    Up = 0
    PeerBuf = 1
    LwipIss = 14
    PeerIss = 13
    LinkCap = 1
    Losses = 2
    MemFails = TRUE
    SplitFin = FALSE
    Rejects = FALSE
PROPERTIES
    Delivered
    CloseCompletes
CHECK_DEADLOCK FALSE
