SPECIFICATION Spec
CONSTANTS
    Messages <- MCMessages
    Partials <- MCPartials
    PriceCap = 2
    QueueCap = 2
    MaxPartials = 2
    MaxUpdates = 4
INVARIANTS
    InstrumentTypeOK
    CacheTracks
    ViewTracks
CHECK_DEADLOCK FALSE
