\* Values, types and failsafe states on 10 pins: value lists start, and the mask of a
\* list ends, in the middle of a byte.
SPECIFICATION MCSpec
CONSTANTS
    NB_PINS   =  10
    IdModulus =  2
    IdRestart =  1
    Crashes   =  FALSE
    HeapJunk  <- MCHeapJunk
    Class     <- MCClass
    Calls     <- MCCalls
INVARIANT MirrorAgrees
PROPERTY ImplementsRemotePins
