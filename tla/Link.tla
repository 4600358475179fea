-------------------------------- MODULE Link --------------------------------
(***************************************************************************)
(* The connection between the two processes: the two named pipes, who      *)
(* holds their ends, and the primitives of src/src/connection.c.           *)
(*                                                                         *)
(* A pipe is the sequence of the packets written to it and not yet read.   *)
(* It is a byte stream: connection_read asks for BUFF_SIZE bytes, gets all *)
(* that is there, and decodes the first packet only; what follows it in    *)
(* the buffer is lost.  Nothing numbers the requests and read_reply does   *)
(* not compare reply ids (the test is commented out), so the protocol      *)
(* relies on there never being a second packet.                            *)
(***************************************************************************)
EXTENDS Protocol, Sequences

CONSTANTS
    HeapJunk,   \* what uninitialised or foreign heap memory may hold
    Crashes     \* whether a process may be killed at any time

ASSUME LinkAssumption ==
    /\ HeapJunk # {} /\ HeapJunk \subseteq SUBSET Nat
    /\ Crashes \in BOOLEAN

VARIABLES
    drv,             \* where the driver process is
    dev,             \* where the device process is
    fifos,           \* whether the two FIFO files exist
    opened,          \* the ends of the FIFOs whose open() has been entered
    driver2device,   \* DRIV2DEV: requests on their way
    device2driver    \* DEV2DRIV: replies on their way

pipes    == <<driver2device, device2driver>>
linkVars == <<drv, dev, fifos, opened, pipes>>

\* open_in and open_out: blocked in that open().  waiting: blocked in read_reply.
\* failed: connection_open returned NULL.  exited: exit(1) in read_reply.
DriverStates == {"start", "open_in", "open_out", "idle", "waiting",
                 "closed", "exited", "killed", "failed"}

\* loop: blocked in the read of mainloop.  serving: a request is decoded.
DeviceStates == {"start", "open_out", "open_in", "loop", "serving",
                 "ended", "killed"}

\* open() on a FIFO blocks until the other end's open() has been entered.
Ends == {"drv_in", "drv_out", "dev_in", "dev_out"}

BUFF_SIZE == 612

\* The process is over, so the kernel has closed its ends of the pipes.
DriverGone == drv \in {"closed", "exited", "killed"}
DeviceGone == dev \in {"ended", "killed"}

LinkTypeOK ==
    /\ drv \in DriverStates
    /\ dev \in DeviceStates
    /\ fifos \in BOOLEAN
    /\ opened \subseteq Ends
    /\ driver2device \in Seq(Packet)
    /\ device2driver \in Seq(Packet)

LinkInit ==
    /\ drv = "start"
    /\ dev = "start"
    /\ fifos \in BOOLEAN    \* a killed device leaves its FIFOs behind
    /\ opened = {}
    /\ driver2device = << >>
    /\ device2driver = << >>

\* connection_write on a pipe whose other end is open.
connection_write(pipe, p) == Append(pipe, p)

\* What connection_read leaves in the pipe once it has decoded the head.
unread(pipe) == << >>

\* The memory behind reply.data or p.data: the bytes received, then the heap.
received(p, junk) == p.data \cup {i \in junk : i \div 8 >= p.size}

=============================================================================
