\* Requests shorter than the read that takes them, as all are with 16 pins (4 to 40 bytes
\* to 42), two of which may lie in it, up to a last one that overruns the array.
SPECIFICATION FairSpec
CONSTANTS
    FIFO_SIZE = 8
    BUFF_SIZE = 4
    Sizes     = {2, 3}
    ReplySize = 2
    OVERHEAD_SIZE = 2
    Resets    = {2}
    MaxSent   = 3
    Impatient = TRUE
    Noise     = 1
INVARIANTS ServedInOrder RepliesWhole
PROPERTIES ImplementsByteQueue ReadReturns
\* The device may wait for bytes nobody sends.
CHECK_DEADLOCK FALSE
