SPECIFICATION FeedSpec
CONSTANTS
    Price = {1, 2, 3, 4}
    Size = {1, 2}
    Limit = 1
    Streams = {1}
    MaxBatch = 2
    MaxDrift = 2
    MaxEarly = 0
INVARIANTS
    TypeOK
    BookConsistent
    QuoteIsTop
    DepthViewCovers
    DepthViewExact
CHECK_DEADLOCK FALSE
