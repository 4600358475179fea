\* A mask of failsafe states in which an enabled pin follows a disabled one.
SPECIFICATION Spec
CONSTANTS
    NB_PINS   =  16
    IdModulus =  2
    IdRestart =  1
    Crashes   =  FALSE
    HeapJunk  <- MCHeapJunk
    Calls     <- MCDisabledMaskCalls
PROPERTY ReadBackExact
