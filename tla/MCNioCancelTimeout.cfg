SPECIFICATION FairSpec
CONSTANTS
    Addresses = 2
    HasInitial = TRUE
    Size = 2
    MaxSends = 1
    MaxPending = 3
    MaxReceived = 1
PROPERTY ConnectAlwaysEnds
CHECK_DEADLOCK FALSE
