\* Every kind of packet, processes killed at any time.
SPECIFICATION FairSpec
CONSTANTS
    NB_PINS   =  16
    IdModulus =  2
    IdRestart =  1
    Crashes   =  TRUE
    HeapJunk  <- MCHeapJunk
    Calls     <- MCAllCalls
INVARIANTS TypeOK StopAndWait OpensMeet PacketsFit
PROPERTIES Answered DeviceStops
