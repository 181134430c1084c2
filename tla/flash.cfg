CONSTANTS
    PageSize = 2
    Size = 8
    AddrMod = 8
    Timeout = 2
    Calls <- AllCalls
    MaxCalls = 2
SPECIFICATION Spec
INVARIANTS
    EraseDone
    ProgramDone
    LeftProtected
PROPERTIES
    Confined
    EveryCallReturns
\* No call comes after MaxCalls.
CHECK_DEADLOCK FALSE
