SPECIFICATION FeedSpec
CONSTANTS
    Price = {1, 2, 3}
    Size = {1, 2}
    Limit = 1
    Streams = {}
    MaxBatch = 2
    MaxDrift = 3
    MaxEarly = 0
INVARIANTS
    NoNilOrder
CHECK_DEADLOCK FALSE
