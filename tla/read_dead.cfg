CONSTANTS
    Retry = 3
    WordMod = 8
    FifoWords = 2
    Lengths = {1, 4, 7, 13}
    MaxReads = 3
    MayStall = TRUE
SPECIFICATION Spec
PROPERTY ReadReturns
CHECK_DEADLOCK FALSE
