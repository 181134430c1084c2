CONSTANTS
    Retry = 5
    WordMod = 16
    Latency = 3
    MaxCommands = 1
SPECIFICATION Spec
INVARIANT OneMeansIdle
\* No command is called for beyond MaxCommands.
CHECK_DEADLOCK FALSE
