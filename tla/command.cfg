CONSTANTS
    Retry = 5
    WordMod = 16
    Latency = 3
    MaxCommands = 3
SPECIFICATION Spec
INVARIANTS
    FreshAnswer
    IdleOnSuccess
    CallsSucceed
PROPERTIES
    NoOverlap
    EveryCallReturns
\* No command is called for beyond MaxCommands.
CHECK_DEADLOCK FALSE
