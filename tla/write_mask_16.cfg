\* A list of 16-bit values.
SPECIFICATION Spec
CONSTANTS
    NB_PINS   =  16
    IdModulus =  2
    IdRestart =  1
    Crashes   =  FALSE
    HeapJunk  <- MCHeapJunk
    Calls     <- MCWriteCalls
PROPERTY StoredExact
