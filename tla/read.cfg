CONSTANTS
    Retry = 3
    WordMod = 8
    FifoWords = 2
    Lengths = {1, 4, 7, 13}
    MaxReads = 3
    MayStall = FALSE
SPECIFICATION Spec
INVARIANTS
    Delivered
    InOrder
    NoUnderflow
    IdleAtStart
PROPERTY ReadReturns
\* No read is called for beyond MaxReads.
CHECK_DEADLOCK FALSE
