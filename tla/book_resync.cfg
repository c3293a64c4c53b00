SPECIFICATION FeedSpec
CONSTANTS
    Price = {1, 2, 3}
    Size = {1, 2}
    Limit = 1
    Streams = {0}
    MaxBatch = 2
    MaxDrift = 2
    MaxEarly = 2
INVARIANTS
    LevelsAreListed
    TracksUpstream
    FullViewExact
    PanicHasCause
CHECK_DEADLOCK FALSE
