\* One ping on a line without noise: its 5 bytes (one of data) to the 42
\* that the device reads, as 2 to 4.
SPECIFICATION FairSpec
CONSTANTS
    FIFO_SIZE = 8
    BUFF_SIZE = 4
    Sizes     = {2}
    ReplySize = 2
    OVERHEAD_SIZE = 2
    Resets    = {}
    MaxSent   = 1
    Impatient = FALSE
    Noise     = 0
PROPERTIES PingAnswered
\* The device waits for bytes nobody sends.
CHECK_DEADLOCK FALSE
