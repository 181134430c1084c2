CONSTANTS
    PageSize = 8
    WordMod = 64
    PageOffset = 2
    Sizes <- AllSizes
SPECIFICATION LoadSpec
INVARIANT LoadedIsFile
