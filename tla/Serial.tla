------------------------------- MODULE Serial -------------------------------
(***************************************************************************)
(* The EMBEDDED build of the firmware: the interrupt that stores received  *)
(* bytes (src/firmware/firmware.c), the blocking read and the write of     *)
(* src/firmware/src/io_utils.c below connection_read, and a host that      *)
(* speaks the protocol of driver.c over the line.  A byte is its request   *)
(* (or reply) and its position in it.                                      *)
(***************************************************************************)
EXTENDS Naturals, Sequences, FiniteSets

CONSTANTS
    FIFO_SIZE,      \* the receiver's array (200 in uart.h)
    BUFF_SIZE,      \* what connection_read asks for (42 in connection.c)
    Sizes,          \* packet_bytes_nb of the requests of the host
    ReplySize,      \* packet_bytes_nb of a reply
    OVERHEAD_SIZE,  \* the least that connection_read takes for a packet (4)
    Resets,         \* which requests of the host are resets, by their number
    MaxSent,        \* bound: requests of the host
    Impatient,      \* whether an application is started behind one that ends in a call
    Noise           \* bound: bytes corrupted on the line

ASSUME SerialAssumption ==
    /\ FIFO_SIZE \in Nat \ {0} /\ BUFF_SIZE \in Nat \ {0} /\ ReplySize \in Nat \ {0}
    /\ OVERHEAD_SIZE \in Nat /\ Resets \subseteq Nat
    /\ Sizes \subseteq Nat \ {0} /\ MaxSent \in Nat
    /\ Impatient \in BOOLEAN /\ Noise \in Nat

VARIABLES
    sent,           \* the size of each request the host has sent
    host,           \* "idle", "waiting" in read_reply, or "over" after its exit(1)
    line,           \* bytes on their way to the device
    array, last_write, last_read,       \* fifo_receiver
    received,       \* history: the bytes the interrupt took from UDR
    hoisted,        \* how the build loads last_write: see read_waits
    seen,           \* the last_write that the loop of read compares with
    i,              \* the bytes that the current read has
    got,            \* all bytes that went into a buffer of connection_read
    pc,             \* where the device's program is
    answered,       \* the requests that were performed and answered
    written,        \* bytes of the current reply given to uart_write
    udr,            \* the transmitter's data register, Nothing when UDRE is set
    host_in,        \* the bytes the host has received
    host_got        \* how many of them connection_read has taken

at_host == <<sent, host, host_got>>
fifo    == <<array, last_write, last_read, received>>
reading == <<hoisted, seen, i, got>>
sending == <<answered, written, udr, host_in>>
vars    == <<at_host, line, fifo, reading, sending, pc>>

Garbled == <<0, 0>>     \* a corrupted byte
Nothing == << >>        \* no byte
Nobody  == 0            \* the sender of a request that nobody sent

\* What may come to the device.
Byte == {Garbled} \cup UNION {(1 .. MaxSent) \X (1 .. n) : n \in Sizes}

Init ==
    /\ sent = << >> /\ host = "idle" /\ host_got = 0
    /\ line = << >>
    /\ array = [j \in 0 .. FIFO_SIZE - 1 |-> Nothing]
    /\ last_write = 0 /\ last_read = 0 /\ received = << >>
    /\ hoisted \in BOOLEAN
    /\ seen = 0 /\ i = 0 /\ got = << >>
    /\ pc = "init_communication"
    /\ answered = << >> /\ written = 0 /\ udr = Nothing /\ host_in = << >>

-----------------------------------------------------------------------------
(* The host and the line.                                                  *)

request(k, n) == [j \in 1 .. n |-> <<k, j>>]

send_packet ==
    /\ host = "idle" /\ Len(sent) < MaxSent
    /\ \E n \in Sizes :
         /\ sent' = Append(sent, n)
         /\ line' = line \o request(Len(sent) + 1, n)
    /\ host' = "waiting"
    /\ UNCHANGED <<host_got, fifo, reading, sending, pc>>

\* What the host's connection_read takes: the bytes that have come, up to its buffer.
taken == LET come == Len(host_in) - host_got IN IF come < BUFF_SIZE THEN come ELSE BUFF_SIZE

\* Its read returns with the first bytes that come.  Those of half a header are an error,
\* and exit(1); any others are the reply, whatever is in them.
read_reply ==
    /\ host = "waiting"
    /\ taken > 0
    /\ host_got' = host_got + taken
    /\ host' = IF taken < OVERHEAD_SIZE THEN "over" ELSE "idle"
    /\ UNCHANGED <<sent, line, fifo, reading, sending, pc>>

\* An application that was stopped in a call, or has ended in it, is started again.
give_up ==
    /\ Impatient /\ host \in {"waiting", "over"}
    /\ host' = "idle"
    /\ UNCHANGED <<sent, host_got, line, fifo, reading, sending, pc>>

\* The receiver is not enabled yet, or no longer: main has returned.
byte_lost ==
    /\ pc \in {"init_communication", "ended"}
    /\ line # << >>
    /\ line' = Tail(line)
    /\ UNCHANGED <<at_host, fifo, reading, sending, pc>>

\* A byte has left the data register for the line.
transmit ==
    /\ udr # Nothing
    /\ host_in' = Append(host_in, udr)
    /\ udr' = Nothing
    /\ UNCHANGED <<at_host, line, fifo, reading, answered, written, pc>>

-----------------------------------------------------------------------------
(* Reception.                                                              *)

\* uart_init and sei().
init_communication ==
    /\ pc = "init_communication"
    /\ pc' = "mainloop"
    /\ UNCHANGED <<at_host, line, fifo, reading, sending>>

\* The line may still corrupt a byte.
garbling ==
    IF Cardinality({j \in DOMAIN received : received[j] = Garbled}) < Noise
    THEN {Garbled} ELSE {}

\* Mutant of ISR: the index is advanced first.
ISR_preincrement ==
    /\ pc \notin {"init_communication", "ended", "overrun"}
    /\ line # << >>
    /\ line' = Tail(line)
    /\ \/ /\ last_write + 1 < FIFO_SIZE
          /\ array' = [array EXCEPT ![last_write + 1] = Head(line)]
          /\ received' = Append(received, Head(line))
          /\ last_write' = last_write + 1
          /\ UNCHANGED pc
       \/ /\ last_write + 1 >= FIFO_SIZE
          /\ pc' = "overrun"
          /\ UNCHANGED <<array, last_write, received>>
    /\ UNCHANGED <<at_host, last_read, reading, sending>>

(***************************************************************************)
(* ISR( USART_RXC_vect ): array[last_write++] = UDR, between any two steps *)
(* of the program.  Neither index ever goes back.  A store behind the      *)
(* array lands in last_read and last_write themselves, and the model does  *)
(* not follow the program from there.                                      *)
(***************************************************************************)
ISR ==
    /\ pc \notin {"init_communication", "ended", "overrun"}
    /\ line # << >>
    /\ line' = Tail(line)
    /\ \/ /\ last_write < FIFO_SIZE
          /\ \E b \in {Head(line)} \cup garbling :
               /\ array' = [array EXCEPT ![last_write] = b]
               /\ received' = Append(received, b)
          /\ last_write' = last_write + 1
          /\ UNCHANGED pc
       \/ /\ last_write >= FIFO_SIZE
          /\ pc' = "overrun"
          /\ UNCHANGED <<array, last_write, received>>
    /\ UNCHANGED <<at_host, last_read, reading, sending>>

-----------------------------------------------------------------------------
(* connection_read, and the read of io_utils.c.                            *)

\* Mutant of read: each call starts at the front of the array.
read_from_start ==
    /\ pc = "mainloop"
    /\ pc' = "read"
    /\ i' = 0 /\ seen' = last_write /\ last_read' = 0
    /\ UNCHANGED <<at_host, line, array, last_write, received, hoisted, got, sending>>

read ==
    /\ pc = "mainloop"
    /\ pc' = "read"
    /\ i' = 0 /\ seen' = last_write
    /\ UNCHANGED <<at_host, line, fifo, hoisted, got, sending>>

\* Mutant of read_byte: the last byte of the array is left for later.
read_byte_but_one ==
    /\ pc = "read" /\ i < BUFF_SIZE
    /\ seen > last_read + 1
    /\ got' = Append(got, array[last_read])
    /\ last_read' = last_read + 1
    /\ i' = i + 1
    /\ seen' = last_write
    /\ UNCHANGED <<at_host, line, array, last_write, received, hoisted, sending, pc>>

\* The store into the buffer may alias fifo_receiver: last_write is loaded again.
read_byte ==
    /\ pc = "read" /\ i < BUFF_SIZE
    /\ seen # last_read
    /\ got' = Append(got, array[last_read])
    /\ last_read' = last_read + 1
    /\ i' = i + 1
    /\ seen' = last_write
    /\ UNCHANGED <<at_host, line, array, last_write, received, hoisted, sending, pc>>

(***************************************************************************)
(* Nothing new: _delay_ms, and the comparison again.  fifo_receiver is not *)
(* volatile and shared with the interrupt, a data race: the build (-Os)    *)
(* may load last_write anew, or keep it in a register over the loop.       *)
(***************************************************************************)
read_waits ==
    /\ pc = "read" /\ i < BUFF_SIZE
    /\ seen = last_read
    /\ ~hoisted
    /\ seen' = last_write
    /\ UNCHANGED <<at_host, line, fifo, hoisted, i, got, sending, pc>>

\* The bytes that connection_read decodes.
buffer == SubSeq(got, Len(got) - BUFF_SIZE + 1, Len(got))

\* The buffer starts with the whole request k, so its checksum is right.
packet_valid(k) ==
    /\ sent[k] <= BUFF_SIZE
    /\ \A j \in 1 .. sent[k] : buffer[j] = <<k, j>>

\* k is performed, and its reply is written.
reply(k) ==
    /\ answered' = Append(answered, k)
    /\ written' = 0
    /\ pc' = "write"

(***************************************************************************)
(* The rest of mainloop's turn: the first packet of the buffer is decoded  *)
(* and what follows it is dropped.  A reset is performed without a reply   *)
(* (reply_reset is empty).  A buffer that starts inside a packet, a packet *)
(* longer than the buffer and a corrupted one have any checksum: mainloop  *)
(* returns and main ends, or a request nobody sent is performed, with a    *)
(* reply or (an unknown command) without.                                  *)
(***************************************************************************)
mainloop ==
    /\ pc = "read" /\ i = BUFF_SIZE
    /\ \/ \E k \in DOMAIN sent \ Resets : packet_valid(k) /\ reply(k)
       \/ /\ \E k \in DOMAIN sent \cap Resets : packet_valid(k)
          /\ pc' = "mainloop" /\ UNCHANGED <<answered, written>>
       \/ /\ \A k \in DOMAIN sent : ~packet_valid(k)
          /\ \/ reply(Nobody)
             \/ /\ pc' \in {"mainloop", "ended"}
                /\ UNCHANGED <<answered, written>>
    /\ UNCHANGED <<at_host, line, fifo, reading, udr, host_in>>

-----------------------------------------------------------------------------
(* write: uart_write for each byte of the reply.                           *)

\* Mutant of uart_write: UDRE is not waited for.
uart_write_no_wait ==
    /\ pc = "write"
    /\ udr' = <<answered[Len(answered)], written + 1>>
    /\ written' = written + 1
    /\ pc' = IF written + 1 = ReplySize THEN "mainloop" ELSE "write"
    /\ UNCHANGED <<at_host, line, fifo, reading, answered, host_in>>

\* UDR = c, whether the register is free or not.
uart_write ==
    /\ pc = "write"
    /\ udr' = <<answered[Len(answered)], written + 1>>
    /\ written' = written + 1
    /\ pc' = "udre"
    /\ UNCHANGED <<at_host, line, fifo, reading, answered, host_in>>

\* while(!(UCSRA & (1<< UDRE)))
uart_write_done ==
    /\ pc = "udre"
    /\ udr = Nothing
    /\ pc' = IF written = ReplySize THEN "mainloop" ELSE "write"
    /\ UNCHANGED <<at_host, line, fifo, reading, sending>>

-----------------------------------------------------------------------------
DeviceRuns ==
    \/ init_communication
    \/ read \/ read_byte \/ read_waits
    \/ mainloop
    \/ uart_write \/ uart_write_done

Next ==
    \/ send_packet \/ read_reply \/ give_up \/ byte_lost
    \/ transmit \/ ISR
    \/ DeviceRuns

Spec == Init /\ [][Next]_vars

\* The processor runs, the line and the transmitter move, the host reads what has
\* come.  Nothing makes the host send, or another application start.
FairSpec ==
    /\ Spec
    /\ WF_vars(DeviceRuns) /\ WF_vars(ISR) /\ WF_vars(transmit) /\ WF_vars(read_reply)

-----------------------------------------------------------------------------
\* The fifo hands every received byte to connection_read once and in order, whenever
\* the interrupt comes and however last_write is loaded, until the array is overrun.
Queue == INSTANCE ByteQueue WITH put <- received

ImplementsByteQueue == Queue!Spec

\* No request is performed twice, or after a later one, although what follows a packet
\* in the buffer is dropped and the host may have asked again.
ServedInOrder ==
    \A m, n \in DOMAIN answered :
        m < n /\ answered[m] # Nobody /\ answered[n] # Nobody => answered[m] < answered[n]

\* The host receives the replies byte for byte, none lost in the data register.
RepliesWhole ==
    \A n \in DOMAIN host_in :
        host_in[n] = <<answered[(n - 1) \div ReplySize + 1], ((n - 1) % ReplySize) + 1>>

\* A read for which enough bytes have come returns, when last_write is loaded anew.
ReadReturns ==
    (/\ ~hoisted /\ pc = "read"
     /\ i + (last_write - last_read) >= BUFF_SIZE) ~> pc # "read"

\* A request is answered (driver.h: "Send a ping request to check if the board is
\* alive").
PingAnswered == host = "waiting" ~> host = "idle"

=============================================================================
