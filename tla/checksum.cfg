\* Bytes with carries and wraps of the sum, the buffer of the embedded build.
SPECIFICATION Spec
CONSTANTS
    Bytes     = {0, 1, 2, 127, 128, 255}
    DataSizes = {0, 1, 2}
    BUFF_SIZE = 42
INVARIANTS Intact OneByteDetected
\* One packet, and it is over.
CHECK_DEADLOCK FALSE
