SPECIFICATION FairSpec
CONSTANTS
    MaxReconnectCounts = {0, 2}
    Deadlines = {0, 3}
    MaxDelayCount = 3
    FailCap = 5
PROPERTIES
    DeadlineEnds
CHECK_DEADLOCK FALSE
