SPECIFICATION Spec
CONSTANTS
    MaxCol = 2
    MaxQueue = 3
    MaxNesting = 3
    MAX_DEPTH = 3
    Files <- MCFiles
INVARIANTS
    KeysStillQueued
    CollectionsMatch
    BridgeInStep
    JsonWellFormed
    NeverLoops
CHECK_DEADLOCK FALSE
