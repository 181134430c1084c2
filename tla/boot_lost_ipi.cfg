CONSTANTS
    PageSize = 8
    WordMod = 32
    PageOffset = 2
    Sizes <- SampleSizes
    KeptOrder <- ProgramOrder
SPECIFICATION Spec
PROPERTY HartOneFollows
CHECK_DEADLOCK FALSE
