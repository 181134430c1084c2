CONSTANTS
    PageSize = 8
    WordMod = 32
    PageOffset = 2
    Sizes <- SampleSizes
    KeptOrder = {}
SPECIFICATION Spec
INVARIANT EntersWholeImage
CHECK_DEADLOCK FALSE
