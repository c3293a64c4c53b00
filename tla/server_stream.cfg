SPECIFICATION FairSpec
CONSTANTS
    r1 = r1
    r2 = r2
    s1 = s1
    s2 = s2
    Reader = {r1, r2}
    Session = {s1, s2}
    SessionOf <- OneEach
    Slow = {s2}
    Closable = {s2}
    PipeCap = 1
    SourceCap = 1
    DestCap = 1
    MaxData = 2
INVARIANTS
    TypeOK
    GaplessStream
    NeverClosedTwice
    CleanupDone
PROPERTIES
    ReaderKeepsUp
    CloseReturns
CHECK_DEADLOCK FALSE
