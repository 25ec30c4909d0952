SPECIFICATION Spec
CONSTANTS
    PageSize = 16
    WordBits = 8
    Base = 64
    Limit = 160
    Sizes <- TwoSizes
    MaxObjects = 3
INVARIANTS InsideBlock
