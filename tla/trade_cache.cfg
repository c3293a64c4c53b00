SPECIFICATION Spec
CONSTANTS
    Trade = {1, 2}
    maxTradeLen = 2
    maxMultiple = 3
    MaxBatch = 3
INVARIANTS
    TypeOK
    ViewIsSnapshot
PROPERTIES
    KeepsWindow
