CONSTANTS
    PageSize = 8
    WordMod = 32
    PageOffset = 2
    Sizes <- FittingSizes
\* No more than RVWMO keeps without a fence.
    KeptOrder = {}
SPECIFICATION Spec
INVARIANTS
    EntersLoadedImage
    HartOneHeld
    LoadedIsFile
    BoundedOverrun
PROPERTIES
    ImplementsGate
    ImplementsLoad
    ParkedHartFollows
\* The image is outside the program: once both harts are in it, or hart 0 is
\* in while(1), nothing more is modelled.
CHECK_DEADLOCK FALSE
