SPECIFICATION Spec
CONSTANTS
    SeqMod = 16
    TCP_MSS = 2
    TCP_SND_BUF = 3
    TCP_WND = 4
    WndUnit = 2
    MaxWndField = 3
    TCP_MAXRTX = 2
    TCP_WND_UPDATE_THRESHOLD = 2
    Down = 5
    Up = 0
    PeerBuf = 4
    LwipIss = 14
    PeerIss = 13
    LinkCap = 2
    Losses = 0
    MemFails = FALSE
    SplitFin = TRUE
    Rejects = FALSE
INVARIANTS
    NoEarlyFin
CHECK_DEADLOCK FALSE
