\* A reset and nothing that interrupts it.
SPECIFICATION FairSpec
CONSTANTS
    NB_PINS   =  16
    IdModulus =  2
    IdRestart =  1
    Crashes   =  TRUE
    HeapJunk  <- MCHeapJunk
    Calls     <- MCResetCalls
PROPERTY ResetReturns
