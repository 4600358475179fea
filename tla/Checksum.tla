------------------------------ MODULE Checksum ------------------------------
(***************************************************************************)
(* The checksum of src/src/protocol.c against a line that changes a byte:  *)
(* a packet is sent, one byte of it may be corrupted, and it is read from  *)
(* the zeroed buffer of connection_read and checked, as mainloop and       *)
(* read_reply do.  Here a packet has its bytes, as packet_write lays them  *)
(* out; the other modules have packets that arrive whole.                  *)
(***************************************************************************)
EXTENDS Naturals, Sequences

CONSTANTS
    Bytes,          \* the byte values that are tried
    DataSizes,      \* the sizes of the data that are tried
    BUFF_SIZE       \* the buffer of connection_read

ASSUME ChecksumAssumption ==
    /\ Bytes \subseteq 0 .. 255
    /\ BUFF_SIZE \in Nat
    /\ \A n \in DataSizes : n \in Nat /\ n + 4 <= BUFF_SIZE

VARIABLES
    p,              \* the packet: header, size, data and checksum
    wire,           \* its bytes on the line
    corrupted,      \* the places of the bytes that were changed
    q,              \* the packet that is read
    valid           \* what packet_valid says of it, "unknown" until then

vars == <<p, wire, corrupted, q, valid>>

Empty == [header |-> 0, size |-> 0, data |-> << >>, checksum |-> 0]

-----------------------------------------------------------------------------
\* The bytes added up: sum[n] is that of the first n.
sum(data) ==
    LET s[n \in 0 .. Len(data)] == IF n = 0 THEN 0 ELSE s[n - 1] + data[n]
    IN  s[Len(data)]

\* Mutant of compute_checksum: the header is left out.
compute_checksum_no_header(r) ==
    255 - (((r.size % 256) + (r.size \div 256) + sum(r.data)) % 256)

\* The complement of the sum, in a uint8_t.
compute_checksum(r) ==
    255 - ((r.header + (r.size % 256) + (r.size \div 256) + sum(r.data)) % 256)

\* Mutant of packet_write: the low byte of the size first.
packet_write_swapped(r) ==
    <<r.header, r.size % 256, r.size \div 256>> \o r.data \o <<r.checksum>>

\* write_bit_value puts the high byte of the size first.
packet_write(r) ==
    <<r.header, r.size \div 256, r.size % 256>> \o r.data \o <<r.checksum>>

\* The buffer after read(): zeros behind what has come.
buffer == [n \in 1 .. BUFF_SIZE |-> IF n <= Len(wire) THEN wire[n] ELSE 0]

read_data_size == buffer[2] * 256 + buffer[3]

\* What packet_read finds, when the size it reads leaves it within the buffer.
packet_read ==
    [header   |-> buffer[1],
     size     |-> read_data_size,
     data     |-> SubSeq(buffer, 4, 3 + read_data_size),
     checksum |-> buffer[4 + read_data_size]]

packet_valid(r) == compute_checksum(r) = r.checksum

-----------------------------------------------------------------------------
Init ==
    /\ \E h \in Bytes, n \in DataSizes : \E d \in [1 .. n -> Bytes] :
         p = [header |-> h, size |-> n, data |-> d, checksum |-> 0]
    /\ wire = << >>
    /\ corrupted = {}
    /\ q = Empty
    /\ valid = "unknown"

\* The checksum is set by send_packet.
send_packet ==
    /\ wire = << >>
    /\ p' = [p EXCEPT !.checksum = compute_checksum(p)]
    /\ wire' = packet_write(p')
    /\ UNCHANGED <<corrupted, q, valid>>

\* The line changes a byte.
corrupt ==
    /\ valid = "unknown" /\ corrupted = {}
    /\ \E n \in DOMAIN wire, b \in Bytes :
         /\ b # wire[n]
         /\ wire' = [wire EXCEPT ![n] = b]
         /\ corrupted' = {n}
    /\ UNCHANGED <<p, q, valid>>

\* connection_read and packet_valid.  A size that leads out of the buffer has the
\* checksum of whatever lies behind.
connection_read ==
    /\ valid = "unknown" /\ wire # << >>
    /\ \/ /\ 4 + read_data_size <= BUFF_SIZE
          /\ q' = packet_read
          /\ valid' = IF packet_valid(q') THEN "valid" ELSE "invalid"
       \/ /\ 4 + read_data_size > BUFF_SIZE
          /\ q' = [Empty EXCEPT !.header = buffer[1], !.size = read_data_size]
          /\ valid' \in {"valid", "invalid"}
    /\ UNCHANGED <<p, wire, corrupted>>

Next == send_packet \/ corrupt \/ connection_read

Spec == Init /\ [][Next]_vars

-----------------------------------------------------------------------------
\* A packet that arrives whole is read back as it was sent, and accepted.
Intact == valid # "unknown" /\ corrupted = {} => valid = "valid" /\ q = p

\* One changed byte of header, data or checksum is found out: a corrupted packet is
\* accepted only when its size was hit, and the checksum looked for elsewhere.
OneByteDetected ==
    valid = "valid" /\ corrupted # {} => corrupted \subseteq {2, 3} /\ q.size # p.size

=============================================================================
