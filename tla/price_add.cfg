SPECIFICATION FairSpec
CONSTANTS
    Price = {1, 2, 3, 4, 5, 6, 7}
    MaxLen = 6
INVARIANTS
    IndexInRange
    ReturnsRank
PROPERTY
    Terminates
