\* Every offset, width and sample value: the closed forms are the loops.
SPECIFICATION Spec
CONSTANTS
    Offsets <- MCOffsets
    Sizes   <- MCSizes
    Values  <- MCValues
    Bytes   =  5
    Contents <- MCContents
INVARIANTS
    WriteClosedForm
    ReadClosedForm
    FieldRoundTrip
CHECK_DEADLOCK FALSE
