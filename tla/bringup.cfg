SPECIFICATION MCSpec
CONSTANTS
    Layout <- ChipLayout
    Programs <- MCPrograms
    InitialWords <- MCInitialWords
    RomLength = 192
    SectionSizes <- MCSectionSizes
    OutSize = 6
    Characters <- MCCharacters
    Messages <- MCMessages
    OldLines <- MCOldLines
INVARIANTS
    RamReady
    LineSet
    
PROPERTIES
    ImplementsFieldStore
    FullPulse
    ReleasedWithClock
    HandsOver
CHECK_DEADLOCK FALSE
