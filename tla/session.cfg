SPECIFICATION FairSpec
CONSTANTS
    HeartbeatFailCount = 3
INVARIANTS
    SessionTypeOK
    HonestPeerKept
PROPERTIES
    DeadPeerClosed
    ClosedLeaves
CHECK_DEADLOCK FALSE
