SPECIFICATION FairSpec
CONSTANTS
    MaxReconnectCounts = {0, 2}
    Deadlines = {0, 3}
    MaxDelayCount = 3
    FailCap = 5
INVARIANTS
    LoopTypeOK
    DialsSpaced
PROPERTIES
    Reconnects
    GivesUp
CHECK_DEADLOCK FALSE
