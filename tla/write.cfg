CONSTANTS
    Retry = 8
    WordMod = 32
    PageSize = 8
    Threshold = 1
    FifoWords = 3
    Lengths = {1, 8, 13, 21}
    Latency = 1
    MaxWrites = 2
SPECIFICATION Spec
INVARIANTS
    SentAll
    NoOverflow
    RestAtStart
    WritesSucceed
PROPERTY WriteReturns
\* No write is called for beyond MaxWrites.
CHECK_DEADLOCK FALSE
