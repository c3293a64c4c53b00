SPECIFICATION FairSpec
CONSTANTS
    HeartbeatFailCount = 2
    PipeCap = 1
    SourceCap = 1
    DestCap = 1
    WireCap = 1
    MaxData = 2
    MaxUnasked = 1
INVARIANTS
    ClientTypeOK
    NothingLost
    NoGap
    HonestPeerKept
    SafeWhileOpen
PROPERTIES
    DeadPeerDetected
    StreamEnds
CHECK_DEADLOCK FALSE
