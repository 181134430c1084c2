CONSTANTS
    Taps = 4
    MaxHz = 2
    Chips = {0, 1}
    Ops = {"rdid", "other"}
    Windows <- MCWindows
    MaxCalls = 3
    Table <- MCTable
    Ids <- MCIds
    Boards <- MCBoards
SPECIFICATION Spec
INVARIANTS
    FreshSlaveReads
    CachedSlaveReads
    OneCommandEach
    FlashIsTheSlaves
\* No call comes after MaxCalls.
CHECK_DEADLOCK FALSE
