---------------------------- MODULE SerialProofs ----------------------------
(***************************************************************************)
(* Proofs about the serial line of the EMBEDDED build, for every size of   *)
(* the receiver's array, of the read and of the packets, and any noise:    *)
(* the interrupt and the reading loop together are a byte queue, requests  *)
(* are served in order, and replies arrive whole.                          *)
(***************************************************************************)
EXTENDS Serial, SequenceTheorems, TLAPS

PCs == {"init_communication", "mainloop", "read", "write", "udre", "ended", "overrun"}

SerialType ==
    /\ sent \in Seq(Sizes) /\ Len(sent) <= MaxSent
    /\ host \in {"idle", "waiting", "over"}
    /\ line \in Seq(Byte)
    /\ array \in [0 .. FIFO_SIZE - 1 -> Byte \cup {Nothing}]
    /\ last_write \in 0 .. FIFO_SIZE /\ last_read \in Nat
    /\ received \in Seq(Byte) /\ got \in Seq(Byte)
    /\ hoisted \in BOOLEAN /\ seen \in Nat /\ i \in 0 .. BUFF_SIZE
    /\ pc \in PCs
    /\ answered \in Seq(0 .. MaxSent)
    /\ written \in 0 .. ReplySize
    /\ pc \in {"write", "udre"} => answered # << >>
    /\ pc = "write" => written < ReplySize
    /\ udr \in ((0 .. MaxSent) \X (1 .. ReplySize)) \cup {Nothing}
    /\ host_in \in Seq((0 .. MaxSent) \X (1 .. ReplySize))

\* The array holds what was received, what was read of it is what read has returned,
\* and the last_write the loop compares with is never behind last_read.
FifoInv ==
    /\ last_write = Len(received) /\ last_read = Len(got)
    /\ \A j \in 1 .. Len(received) : array[j - 1] = received[j]
    /\ \A j \in 1 .. Len(got) : got[j] = received[j]
    /\ last_read <= seen /\ seen <= last_write

\* The first byte of a packet comes before the first byte of a later one: in the array,
\* on the line, and from one to the other.
Sooner(b, c) == b[1] < c[1]
FirstByte(b) == b[1] # Nobody /\ b[2] = 1

StreamInv ==
    /\ \A m, n \in DOMAIN received :
         m < n /\ FirstByte(received[m]) /\ FirstByte(received[n])
           => Sooner(received[m], received[n])
    /\ \A m \in DOMAIN received, n \in DOMAIN line :
         FirstByte(received[m]) /\ FirstByte(line[n]) => Sooner(received[m], line[n])
    /\ \A m, n \in DOMAIN line :
         m < n /\ FirstByte(line[m]) /\ FirstByte(line[n]) => Sooner(line[m], line[n])
    /\ \A m \in DOMAIN received : received[m][1] <= Len(sent)
    /\ \A m \in DOMAIN line : line[m][1] <= Len(sent)

\* How many bytes of got are behind the request in hand.
Before == Len(got) - (IF pc = "read" THEN i ELSE 0)

\* A request that was performed began among the bytes of an earlier read.
ServedInv ==
    /\ pc = "read" => i <= Len(got)
    /\ \A n \in DOMAIN answered :
         answered[n] # Nobody =>
           \E m \in 1 .. Before : got[m] = <<answered[n], 1>>

\* The byte of the replies at place n, in the order they are written.
ReplyByte(n) == <<answered[(n - 1) \div ReplySize + 1], ((n - 1) % ReplySize) + 1>>

\* How many bytes of replies have been given to the data register.
WrittenBytes == IF answered = << >> THEN 0 ELSE ReplySize * (Len(answered) - 1) + written

ReplyInv ==
    /\ pc \in {"init_communication", "mainloop", "read", "ended"} =>
         answered = << >> \/ written = ReplySize
    /\ pc \notin {"udre", "overrun"} => udr = Nothing
    /\ WrittenBytes = Len(host_in) + (IF udr = Nothing THEN 0 ELSE 1)
    /\ \A n \in 1 .. Len(host_in) : host_in[n] = ReplyByte(n)
    /\ udr # Nothing => udr = ReplyByte(Len(host_in) + 1)

-----------------------------------------------------------------------------
(* Types.                                                                  *)

\* A byte is a pair of the number of a request and a place in it.
LEMMA ByteIsPair == Byte \subseteq (0 .. MaxSent) \X Nat
<1>1. ASSUME NEW n \in Sizes  PROVE (1 .. MaxSent) \X (1 .. n) \subseteq (0 .. MaxSent) \X Nat
  BY SerialAssumption
<1>. QED  BY <1>1, SerialAssumption DEF Byte, Garbled

\* The bytes of a request of an allowed size are bytes of the line.
LEMMA RequestType ==
  ASSUME NEW k \in 1 .. MaxSent, NEW n \in Sizes
  PROVE  /\ request(k, n) \in Seq(Byte)
         /\ Len(request(k, n)) = n
         /\ \A j \in 1 .. n : request(k, n)[j] = <<k, j>>
<1>1. n \in Nat /\ n > 0
  BY SerialAssumption
<1>2. \A j \in 1 .. n : <<k, j>> \in Byte
  BY <1>1 DEF Byte
<1>. QED  BY <1>1, <1>2 DEF request

\* The interrupt stores the next byte of the line, or a corrupted one, behind the others,
\* or overruns the array.
LEMMA InterruptStep ==
  ASSUME SerialType, ISR
  PROVE  /\ Head(line) \in Byte /\ line' = Tail(line) /\ line' \in Seq(Byte)
         /\ UNCHANGED <<at_host, last_read, reading, sending>>
         /\ \/ /\ pc' = "overrun" /\ UNCHANGED <<array, last_write, received>>
            \/ /\ last_write < FIFO_SIZE /\ last_write' = last_write + 1 /\ pc' = pc
               /\ \E b \in {Head(line), Garbled} :
                    /\ b \in Byte
                    /\ array' = [array EXCEPT ![last_write] = b]
                    /\ received' = Append(received, b)
<1>1. line # << >> /\ line' = Tail(line) /\ UNCHANGED <<at_host, last_read, reading, sending>>
  BY DEF ISR
<1>2. Head(line) \in Byte /\ line' \in Seq(Byte)
  BY <1>1 DEF SerialType
<1>3. Garbled \in Byte /\ garbling \subseteq {Garbled}
  BY DEF Byte, garbling
<1>4. CASE pc' = "overrun" /\ UNCHANGED <<array, last_write, received>>
  BY <1>1, <1>2, <1>4
<1>5. CASE last_write < FIFO_SIZE /\ last_write' = last_write + 1 /\ pc' = pc
           /\ \E b \in {Head(line)} \cup garbling :
                /\ array' = [array EXCEPT ![last_write] = b]
                /\ received' = Append(received, b)
  <2>1. PICK b \in {Head(line)} \cup garbling : /\ array' = [array EXCEPT ![last_write] = b]
                                                /\ received' = Append(received, b)
    BY <1>5
  <2>2. b \in {Head(line), Garbled} /\ b \in Byte
    BY <1>2, <1>3, <2>1
  <2>. QED  BY <1>1, <1>2, <1>5, <2>1, <2>2
<1>. QED  BY <1>4, <1>5, Zenon DEF ISR

\* The types of the variables are kept by every step: a byte that read takes was put
\* into the array before.
LEMMA SerialTypeStep ==
  SerialType /\ FifoInv /\ [Next]_vars => SerialType'
<1>. SUFFICES ASSUME SerialType, FifoInv, [Next]_vars PROVE SerialType'
  OBVIOUS
<1>. USE SerialAssumption
<1>1. CASE send_packet
  <2>1. PICK n \in Sizes : /\ sent' = Append(sent, n)
                           /\ line' = line \o request(Len(sent) + 1, n)
    BY <1>1 DEF send_packet
  <2>2. Len(sent) + 1 \in 1 .. MaxSent
    BY <1>1 DEF send_packet, SerialType
  <2>3. line' \in Seq(Byte)
    BY <2>1, <2>2, RequestType, ConcatProperties DEF SerialType
  <2>4. sent' \in Seq(Sizes) /\ Len(sent') <= MaxSent
    BY <2>1, <2>2, AppendProperties DEF SerialType
  <2>. QED  BY <1>1, <2>3, <2>4 DEF send_packet, SerialType, fifo, reading, sending
<1>2. CASE read_reply
  BY <1>2 DEF read_reply, SerialType, fifo, reading, sending
<1>3. CASE give_up
  BY <1>3 DEF give_up, SerialType, fifo, reading, sending
<1>4. CASE byte_lost
  BY <1>4 DEF byte_lost, SerialType, at_host, fifo, reading, sending
<1>5. CASE transmit
  BY <1>5 DEF transmit, SerialType, at_host, fifo, reading
<1>6. CASE ISR
  <2>1. /\ line' \in Seq(Byte)
        /\ UNCHANGED <<at_host, last_read, reading, sending>>
    BY <1>6, InterruptStep
  <2>2. /\ array' \in [0 .. FIFO_SIZE - 1 -> Byte \cup {Nothing}]
        /\ received' \in Seq(Byte) /\ last_write' \in 0 .. FIFO_SIZE
        /\ pc' \in {pc, "overrun"}
    <3>1. CASE pc' = "overrun" /\ UNCHANGED <<array, last_write, received>>
      BY <3>1 DEF SerialType
    <3>2. ASSUME NEW b \in Byte, last_write < FIFO_SIZE, last_write' = last_write + 1,
                 pc' = pc, array' = [array EXCEPT ![last_write] = b],
                 received' = Append(received, b)
          PROVE  /\ array' \in [0 .. FIFO_SIZE - 1 -> Byte \cup {Nothing}]
                 /\ received' \in Seq(Byte) /\ last_write' \in 0 .. FIFO_SIZE
                 /\ pc' \in {pc, "overrun"}
      BY <3>2 DEF SerialType
    <3>. QED  BY <1>6, <3>1, <3>2, InterruptStep
  <2>. QED  BY <2>1, <2>2 DEF SerialType, PCs, at_host, reading, sending
<1>7. CASE init_communication
  BY <1>7 DEF init_communication, SerialType, PCs, at_host, fifo, reading, sending
<1>8. CASE read
  BY <1>8 DEF read, SerialType, PCs, at_host, fifo, sending
<1>9. CASE read_byte
  <2>1. last_read < last_write
    BY <1>9 DEF read_byte, FifoInv, SerialType
  <2>2. array[last_read] = received[last_read + 1] /\ received[last_read + 1] \in Byte
    BY <2>1 DEF FifoInv, SerialType
  <2>3. got' \in Seq(Byte)
    BY <1>9, <2>2 DEF read_byte, SerialType
  <2>. QED  BY <1>9, <2>3 DEF read_byte, SerialType, at_host, sending
<1>10. CASE read_waits
  BY <1>10 DEF read_waits, SerialType, at_host, fifo, sending
<1>11. CASE mainloop
  <2>1. DOMAIN sent \subseteq 1 .. MaxSent /\ Nobody \in 0 .. MaxSent
    BY DEF SerialType, Nobody
  <2>2. UNCHANGED <<at_host, line, fifo, reading, udr, host_in>>
    BY <1>11 DEF mainloop
  <2>3. ASSUME NEW k \in 0 .. MaxSent, reply(k)  PROVE SerialType'
    <3>1. answered' \in Seq(0 .. MaxSent) /\ answered' # << >>
      <4>1. answered \in Seq(0 .. MaxSent) /\ answered' = Append(answered, k)
        BY <2>3 DEF reply, SerialType
      <4>. QED  BY <4>1, AppendProperties
    <3>. QED  BY <2>2, <2>3, <3>1 DEF reply, SerialType, PCs, at_host, fifo, reading
  <2>4. CASE pc' \in {"mainloop", "ended"} /\ UNCHANGED <<answered, written>>
    BY <2>2, <2>4 DEF SerialType, PCs, at_host, fifo, reading
  <2>. QED  BY <1>11, <2>1, <2>3, <2>4 DEF mainloop
<1>12. CASE uart_write
  <2>1. answered[Len(answered)] \in 0 .. MaxSent /\ written + 1 \in 1 .. ReplySize
    BY <1>12 DEF uart_write, SerialType
  <2>. QED  BY SMTT(60), <1>12, <2>1 DEF uart_write, SerialType, PCs, at_host, fifo, reading
<1>13. CASE uart_write_done
  BY <1>13 DEF uart_write_done, SerialType, PCs, at_host, fifo, reading, sending
<1>14. CASE UNCHANGED vars
  BY <1>14 DEF vars, SerialType, at_host, fifo, reading, sending
<1>. QED
  BY <1>1, <1>2, <1>3, <1>4, <1>5, <1>6, <1>7, <1>8, <1>9, <1>10, <1>11, <1>12, <1>13,
     <1>14 DEF Next, DeviceRuns

LEMMA SerialTypeInit == Init => SerialType /\ FifoInv
<1>. SUFFICES ASSUME Init PROVE SerialType /\ FifoInv
  OBVIOUS
<1>. USE SerialAssumption
<1>1. array \in [0 .. FIFO_SIZE - 1 -> Byte \cup {Nothing}]
  BY DEF Init
<1>2. SerialType
  BY <1>1 DEF Init, SerialType, PCs
<1>. QED  BY <1>2 DEF Init, FifoInv

\* One step of the interrupt, or of the reading loop, keeps what relates the array to
\* what was received and read; the others do not touch it.
LEMMA FifoStep == SerialType /\ FifoInv /\ [Next]_vars => FifoInv'
<1>. SUFFICES ASSUME SerialType, FifoInv, [Next]_vars PROVE FifoInv'
  OBVIOUS
<1>. USE SerialAssumption
<1>1. CASE ISR
  <2>1. UNCHANGED <<last_read, seen, got>>
    BY <1>1, InterruptStep DEF reading
  <2>2. CASE UNCHANGED <<array, last_write, received>>
    BY <2>1, <2>2 DEF FifoInv
  <2>3. ASSUME NEW b \in Byte, last_write < FIFO_SIZE, last_write' = last_write + 1,
               array' = [array EXCEPT ![last_write] = b],
               received' = Append(received, b)
        PROVE  FifoInv'
    <3>1. /\ Len(received') = last_write'
          /\ \A j \in 1 .. Len(received') : array'[j - 1] = received'[j]
      <4>1. /\ Len(received') = last_write + 1
            /\ \A j \in 1 .. Len(received) : received'[j] = received[j]
            /\ received'[last_write + 1] = b
        BY <2>3, AppendProperties DEF SerialType, FifoInv
      <4>2. ASSUME NEW j \in 1 .. last_write + 1  PROVE array'[j - 1] = received'[j]
        <5>1. CASE j = last_write + 1
          BY <2>3, <4>1, <5>1 DEF SerialType
        <5>2. CASE j \in 1 .. last_write
          <6>1. array[j - 1] = received[j] /\ received'[j] = received[j]
            BY <4>1, <5>2 DEF FifoInv
          <6>. QED  BY <2>3, <5>2, <6>1 DEF SerialType
        <5>. QED  BY <5>1, <5>2 DEF SerialType
      <4>. QED  BY <2>3, <4>1, <4>2
    <3>2. \A j \in 1 .. Len(got) : got[j] = received'[j]
      BY <2>3 DEF SerialType, FifoInv
    <3>. QED  BY SMTT(60), <2>1, <2>3, <3>1, <3>2 DEF SerialType, FifoInv
  <2>. QED  BY <1>1, <2>2, <2>3, InterruptStep
<1>2. CASE read
  BY <1>2 DEF read, SerialType, FifoInv, fifo
<1>3. CASE read_byte
  <2>1. last_read < last_write
    BY <1>3 DEF read_byte, FifoInv, SerialType
  <2>2. array[last_read] = received[last_read + 1]
    <3>1. last_read + 1 \in 1 .. Len(received) /\ (last_read + 1) - 1 = last_read
      BY <2>1 DEF FifoInv, SerialType
    <3>. QED  BY <3>1 DEF FifoInv
  <2>4. array[last_read] \in Byte
    BY <2>1, <2>2 DEF FifoInv, SerialType
  <2>5. /\ got' = Append(got, array[last_read]) /\ last_read' = last_read + 1
        /\ seen' = last_write /\ UNCHANGED <<array, last_write, received>>
    BY <1>3 DEF read_byte
  <2>6. /\ Len(got') = last_read' /\ got'[last_read + 1] = received[last_read + 1]
        /\ \A j \in 1 .. Len(got) : got'[j] = got[j]
    BY <2>2, <2>4, <2>5, AppendProperties DEF SerialType, FifoInv
  <2>7. \A j \in 1 .. Len(got') : got'[j] = received'[j]
    <3>1. /\ Len(got) = last_read /\ last_read \in Nat /\ received' = received
          /\ \A j \in 1 .. Len(got) : got[j] = received[j]
      BY <2>5 DEF SerialType, FifoInv
    <3>2. \A j \in 1 .. last_read + 1 : j = last_read + 1 \/ j \in 1 .. last_read
      BY <3>1
    <3>. QED  BY <2>5, <2>6, <3>1, <3>2
  <2>8. last_write' = Len(received') /\ last_read' = Len(got')
    BY <2>5, <2>6 DEF FifoInv
  <2>9. \A j \in 1 .. Len(received') : array'[j - 1] = received'[j]
    BY <2>5 DEF FifoInv
  <2>10. last_read' <= seen' /\ seen' <= last_write'
    BY <2>1, <2>5 DEF SerialType
  <2>. QED  BY <2>7, <2>8, <2>9, <2>10 DEF FifoInv
<1>4. CASE read_waits
  BY <1>4 DEF read_waits, SerialType, FifoInv, fifo
<1>5. CASE \/ send_packet \/ read_reply \/ give_up \/ byte_lost \/ transmit
           \/ init_communication \/ mainloop \/ uart_write \/ uart_write_done
           \/ UNCHANGED vars
  BY <1>5 DEF send_packet, read_reply, give_up, byte_lost, transmit, init_communication,
    mainloop, uart_write, uart_write_done, vars, FifoInv, fifo, reading
<1>. QED  BY <1>1, <1>2, <1>3, <1>4, <1>5 DEF Next, DeviceRuns

\* The types of the variables, and the fifo's array against what was received and read.
THEOREM SerialTypeHolds == Spec => [](SerialType /\ FifoInv)
<1>. QED  BY SerialTypeInit, SerialTypeStep, FifoStep, PTL DEF Spec

-----------------------------------------------------------------------------
(* The fifo.                                                               *)

\* What an action that neither stores nor reads a byte leaves alone.
LEMMA FifoLeftAlone ==
  ASSUME \/ send_packet \/ read_reply \/ give_up \/ byte_lost \/ transmit
         \/ init_communication \/ read \/ read_waits \/ mainloop \/ uart_write
         \/ uart_write_done \/ UNCHANGED vars
  PROVE  UNCHANGED <<received, got>>
BY DEF send_packet, read_reply, give_up, byte_lost, transmit, init_communication, read,
  read_waits, mainloop, uart_write, uart_write_done, vars, fifo, reading

\* The fifo hands every received byte to connection_read once and in order, whenever
\* the interrupt comes and however last_write is loaded: each step of the line is a
\* step of the byte queue, or leaves it alone.
THEOREM SerialImplementsByteQueue == Spec => ImplementsByteQueue
<1>1. Init => Queue!Init
  BY DEF Init, Queue!Init
<1>2. SerialType /\ FifoInv /\ [Next]_vars => [Queue!Put \/ Queue!Get]_<<received, got>>
  <2>. SUFFICES ASSUME SerialType, FifoInv, [Next]_vars
                PROVE  Queue!Put \/ Queue!Get \/ UNCHANGED <<received, got>>
    OBVIOUS
  <2>1. CASE ISR
    <3>1. got' = got
      BY <2>1, InterruptStep DEF reading
    <3>2. received' = received \/ \E b \in Byte : received' = Append(received, b)
      BY <2>1, InterruptStep
    <3>. QED  BY <3>1, <3>2 DEF Queue!Put
  <2>2. CASE read_byte
    <3>1. last_read < last_write /\ last_read = Len(got) /\ last_write = Len(received)
      BY <2>2 DEF read_byte, FifoInv, SerialType
    <3>2. array[last_read] = received[last_read + 1]
      <4>1. last_read + 1 \in 1 .. Len(received) /\ (last_read + 1) - 1 = last_read
        BY <3>1 DEF FifoInv, SerialType
      <4>. QED  BY <4>1 DEF FifoInv
    <3>. QED  BY <2>2, <3>1, <3>2 DEF read_byte, Queue!Get
  <2>. QED  BY <2>1, <2>2, FifoLeftAlone DEF Next, DeviceRuns
<1>. QED  BY <1>1, <1>2, SerialTypeHolds, PTL
          DEF Spec, ImplementsByteQueue, Queue!Spec, Queue!vars

-----------------------------------------------------------------------------
(* The order in which requests are served.                                 *)

LEMMA StreamInit == Init => StreamInv
BY DEF Init, StreamInv

\* The first bytes of packets stay in order over the line and the array.
LEMMA StreamStep == SerialType /\ StreamInv /\ [Next]_vars => StreamInv'
<1>. SUFFICES ASSUME SerialType, StreamInv, [Next]_vars PROVE StreamInv'
  OBVIOUS
<1>. USE SerialAssumption
<1>1. CASE send_packet
  <2>. DEFINE k == Len(sent) + 1
  <2>1. k \in 1 .. MaxSent /\ received' = received
    BY <1>1 DEF send_packet, SerialType, fifo
  <2>2. PICK n \in Sizes : sent' = Append(sent, n) /\ line' = line \o request(k, n)
    BY <1>1 DEF send_packet
  <2>3. Len(sent') = k
    BY <2>2, AppendProperties DEF SerialType
  <2>4. /\ request(k, n) \in Seq(Byte) /\ Len(request(k, n)) = n /\ n \in Nat
        /\ \A j \in 1 .. n : request(k, n)[j] = <<k, j>>
    BY <2>1, RequestType
  <2>. HIDE DEF k
  <2>5. /\ Len(line') = Len(line) + n /\ line' \in Seq(Byte)
        /\ \A j \in 1 .. Len(line) : line'[j] = line[j]
        /\ \A j \in Len(line) + 1 .. Len(line) + n : line'[j] = <<k, j - Len(line)>>
    <3>. DEFINE r == request(k, n)
    <3>1. line \in Seq(Byte) /\ r \in Seq(Byte) /\ Len(r) = n /\ line' = line \o r
      BY <2>2, <2>4 DEF SerialType
    <3>2. \A j \in 1 .. n : r[j] = <<k, j>>
      BY <2>4
    <3>. HIDE DEF r
    <3>3. /\ line' \in Seq(Byte) /\ Len(line') = Len(line) + n
          /\ \A j \in 1 .. Len(line) + n :
               line'[j] = IF j <= Len(line) THEN line[j] ELSE r[j - Len(line)]
      BY <3>1, ConcatProperties
    <3>4. Len(line) \in Nat
      BY <3>1
    <3>5. \A j \in 1 .. Len(line) : line'[j] = line[j]
      BY <2>4, <3>3, <3>4
    <3>6. ASSUME NEW j \in Len(line) + 1 .. Len(line) + n
          PROVE  line'[j] = <<k, j - Len(line)>>
      <4>1. j \in 1 .. Len(line) + n /\ ~(j <= Len(line)) /\ j - Len(line) \in 1 .. n
        BY <2>4, <3>4
      <4>2. line'[j] = r[j - Len(line)]
        BY <3>3, <4>1
      <4>. QED  BY <3>2, <4>1, <4>2
    <3>. QED  BY <3>3, <3>5, <3>6
  <2>6. /\ \A m \in DOMAIN received : received[m][1] \in Nat /\ received[m][1] < k
        /\ \A m \in DOMAIN line : line[m][1] \in Nat /\ line[m][1] < k
    <3>1. Len(sent) \in Nat
      BY DEF SerialType
    <3>2. /\ \A m \in DOMAIN received : received[m] \in (0 .. MaxSent) \X Nat
          /\ \A m \in DOMAIN line : line[m] \in (0 .. MaxSent) \X Nat
      BY ByteIsPair DEF SerialType
    <3>3. /\ \A m \in DOMAIN received : received[m][1] \in Nat
          /\ \A m \in DOMAIN line : line[m][1] \in Nat
      BY <3>2
    <3>. QED  BY <3>1, <3>3 DEF StreamInv, k
  <2>7. DOMAIN line = 1 .. Len(line) /\ DOMAIN line' = 1 .. Len(line) + n
    BY <2>5 DEF SerialType
  <2>8. \A m \in DOMAIN received : received'[m][1] <= Len(sent')
    BY <2>1, <2>3, <2>6, ByteIsPair
  <2>9. \A m \in DOMAIN line' : line'[m][1] <= Len(sent')
    <3>1. ASSUME NEW m \in 1 .. Len(line)  PROVE line'[m][1] <= k
      BY <2>1, <2>5, <2>6, <2>7, <3>1
    <3>2. ASSUME NEW m \in Len(line) + 1 .. Len(line) + n  PROVE line'[m][1] <= k
      BY <2>1, <2>5, <3>2
    <3>3. Len(line) \in Nat
      BY DEF SerialType
    <3>. QED  BY <2>3, <2>4, <2>7, <3>1, <3>2, <3>3
  <2>10. \A m \in DOMAIN received, j \in DOMAIN line' :
           FirstByte(received[m]) /\ FirstByte(line'[j]) => Sooner(received[m], line'[j])
    BY <2>1, <2>5, <2>6, <2>7 DEF StreamInv, FirstByte, Sooner
  <2>11. \A m, j \in DOMAIN line' :
           m < j /\ FirstByte(line'[m]) /\ FirstByte(line'[j]) => Sooner(line'[m], line'[j])
    <3>. SUFFICES ASSUME NEW m \in DOMAIN line', NEW j \in DOMAIN line', m < j,
                         FirstByte(line'[m]), FirstByte(line'[j])
                  PROVE  line'[m][1] < line'[j][1]
      BY DEF Sooner
    <3>1. Len(line) \in Nat
      BY DEF SerialType
    <3>2. CASE j <= Len(line)
      BY <2>5, <2>7, <3>1, <3>2 DEF StreamInv, Sooner
    <3>3. CASE m <= Len(line) /\ j > Len(line)
      <4>1. line'[m][1] < k
        BY <2>5, <2>6, <2>7, <3>1, <3>3
      <4>2. line'[j] = <<k, j - Len(line)>>
        BY <2>4, <2>5, <2>7, <3>1, <3>3
      <4>. QED  BY <4>1, <4>2
    <3>4. CASE m > Len(line)
      <4>1. line'[m][2] = m - Len(line) /\ line'[j][2] = j - Len(line)
        BY <2>4, <2>5, <2>7, <3>1, <3>4
      <4>. QED  BY <2>4, <2>7, <3>1, <4>1 DEF FirstByte
    <3>. QED  BY <2>4, <2>7, <3>1, <3>2, <3>3, <3>4
  <2>. QED  BY <2>1, <2>8, <2>9, <2>10, <2>11 DEF StreamInv
<1>2. ASSUME line # << >>, line' = Tail(line), UNCHANGED <<sent, received>>
      PROVE  StreamInv'
  <2>1. /\ DOMAIN line' = 1 .. Len(line) - 1 /\ DOMAIN line = 1 .. Len(line)
        /\ \A j \in 1 .. Len(line) - 1 : line'[j] = line[j + 1]
    BY <1>2 DEF SerialType
  <2>2. Len(line) \in Nat
    BY DEF SerialType
  <2>. QED  BY <1>2, <2>1, <2>2 DEF StreamInv
<1>3. ASSUME line # << >>, line' = Tail(line), sent' = sent,
             NEW b \in {Head(line), Garbled}, received' = Append(received, b), b \in Byte
      PROVE  StreamInv'
  <2>1. /\ DOMAIN line' = 1 .. Len(line) - 1 /\ DOMAIN line = 1 .. Len(line)
        /\ \A j \in 1 .. Len(line) - 1 : line'[j] = line[j + 1]
        /\ Len(line) \in Nat \ {0} /\ Len(received) \in Nat
    BY <1>3 DEF SerialType
  <2>2. /\ DOMAIN received = 1 .. Len(received)
        /\ DOMAIN received' = 1 .. Len(received) + 1
        /\ \A j \in 1 .. Len(received) : received'[j] = received[j]
        /\ received'[Len(received) + 1] = b
    BY <1>3, AppendProperties DEF SerialType
  <2>3. \/ ~FirstByte(b) /\ b[1] = 0
        \/ b = line[1] /\ 1 \in DOMAIN line
    BY <1>3, <2>1 DEF Garbled, FirstByte, Nobody, SerialType
  <2>4. Len(sent) \in Nat
    BY DEF SerialType
  <2>. QED
    <3>1. \A m, n \in DOMAIN received' :
            m < n /\ FirstByte(received'[m]) /\ FirstByte(received'[n])
              => Sooner(received'[m], received'[n])
      <4>1. CASE ~FirstByte(b)
        BY <2>1, <2>2, <4>1 DEF StreamInv
      <4>2. CASE b = line[1] /\ 1 \in DOMAIN line
        BY <2>1, <2>2, <4>2 DEF StreamInv
      <4>. QED  BY <2>3, <4>1, <4>2
    <3>2. \A m \in DOMAIN received', n \in DOMAIN line' :
            FirstByte(received'[m]) /\ FirstByte(line'[n]) => Sooner(received'[m], line'[n])
      <4>1. CASE ~FirstByte(b)
        <5>1. ASSUME NEW m \in DOMAIN received', NEW n \in DOMAIN line',
                     FirstByte(received'[m]), FirstByte(line'[n])
              PROVE  Sooner(received'[m], line'[n])
          <6>1. line'[n] = line[n + 1] /\ n + 1 \in DOMAIN line
            BY <2>1, <5>1
          <6>2. m \in DOMAIN received /\ received'[m] = received[m]
            BY <2>2, <4>1, <5>1
          <6>. QED  BY <5>1, <6>1, <6>2 DEF StreamInv
        <5>. QED  BY <5>1
      <4>2. CASE b = line[1] /\ 1 \in DOMAIN line
        <5>1. ASSUME NEW m \in DOMAIN received, NEW n \in DOMAIN line',
                     FirstByte(received'[m]), FirstByte(line'[n])
              PROVE  Sooner(received'[m], line'[n])
          <6>1. received'[m] = received[m] /\ line'[n] = line[n + 1] /\ n + 1 \in DOMAIN line
            BY <2>1, <2>2
          <6>. QED  BY <5>1, <6>1 DEF StreamInv
        <5>2. ASSUME NEW n \in DOMAIN line', FirstByte(b), FirstByte(line'[n])
              PROVE  Sooner(b, line'[n])
          <6>1. line'[n] = line[n + 1] /\ n + 1 \in DOMAIN line /\ 1 < n + 1
            BY <2>1
          <6>. QED  BY <4>2, <5>2, <6>1 DEF StreamInv
        <5>3. \A m \in DOMAIN received' : m \in DOMAIN received \/ received'[m] = b
          BY <2>2
        <5>. QED  BY <5>1, <5>2, <5>3
      <4>. QED  BY <2>3, <4>1, <4>2
    <3>3. ASSUME NEW m \in DOMAIN line', NEW n \in DOMAIN line',
                 m < n, FirstByte(line'[m]), FirstByte(line'[n])
          PROVE  Sooner(line'[m], line'[n])
      <4>1. /\ line'[m] = line[m + 1] /\ m + 1 \in DOMAIN line
            /\ line'[n] = line[n + 1] /\ n + 1 \in DOMAIN line /\ m + 1 < n + 1
        BY <2>1, <3>3
      <4>. QED  BY <3>3, <4>1 DEF StreamInv
    <3>4. \A m \in DOMAIN received' : received'[m][1] <= Len(sent')
      BY <1>3, <2>1, <2>2, <2>3, <2>4 DEF StreamInv
    <3>5. \A m \in DOMAIN line' : line'[m][1] <= Len(sent')
      BY <1>3, <2>1 DEF StreamInv
    <3>. QED  BY <3>1, <3>2, <3>3, <3>4, <3>5 DEF StreamInv
<1>4. CASE byte_lost
  BY <1>2, <1>4 DEF byte_lost, at_host, fifo
<1>5. CASE ISR
  <2>1. sent' = sent /\ line # << >>
    BY <1>5, InterruptStep DEF ISR, at_host
  <2>. QED  BY <1>2, <1>3, <1>5, <2>1, InterruptStep
<1>6. CASE UNCHANGED <<sent, line, received>>
  BY <1>6 DEF StreamInv
<1>7. CASE \/ read_reply \/ give_up \/ transmit \/ init_communication \/ read \/ read_byte
           \/ read_waits \/ mainloop \/ uart_write \/ uart_write_done \/ UNCHANGED vars
  <2>1. UNCHANGED <<sent, line, received>>
    BY <1>7 DEF read_reply, give_up, transmit, init_communication, read, read_byte,
      read_waits, mainloop, uart_write, uart_write_done, vars, at_host, fifo
  <2>. QED  BY <1>6, <2>1
<1>. QED  BY <1>1, <1>4, <1>5, <1>7 DEF Next, DeviceRuns

LEMMA ServedInit == Init => ServedInv /\ ServedInOrder
BY DEF Init, ServedInv, ServedInOrder

\* The first byte of a request that is accepted is the first of the bytes of the read in
\* hand.
LEMMA AcceptedStartsRead ==
  ASSUME SerialType, i = BUFF_SIZE, i <= Len(got), NEW k \in DOMAIN sent, packet_valid(k)
  PROVE  /\ Len(got) - BUFF_SIZE + 1 \in 1 .. Len(got)
         /\ got[Len(got) - BUFF_SIZE + 1] = <<k, 1>>
<1>1. sent[k] \in Nat /\ sent[k] > 0
  <2>1. sent[k] \in Sizes
    BY DEF SerialType
  <2>2. \A n \in Sizes : n \in Nat /\ n > 0
    BY SerialAssumption
  <2>. QED  BY <2>1, <2>2
<1>2. buffer[1] = <<k, 1>>
  BY <1>1 DEF packet_valid
<1>3. /\ BUFF_SIZE \in Nat \ {0} /\ Len(got) \in Nat
      /\ Len(got) - BUFF_SIZE + 1 \in 1 .. Len(got)
  BY SerialAssumption DEF SerialType
<1>4. buffer[1] = got[Len(got) - BUFF_SIZE + 1]
  <2>1. got \in Seq(Byte) /\ 1 \in 1 .. Len(got) - (Len(got) - BUFF_SIZE + 1) + 1
    BY <1>3 DEF SerialType
  <2>. QED  BY <1>3, <2>1, SubSeqProperties DEF buffer
<1>. QED  BY <1>2, <1>3, <1>4

\* What was performed stays behind what is read next, and what is performed next comes
\* after it.
LEMMA ServedStep ==
  SerialType /\ FifoInv /\ StreamInv /\ ServedInv /\ ServedInOrder /\ [Next]_vars
    => ServedInv' /\ ServedInOrder'
<1>. SUFFICES ASSUME SerialType, FifoInv, StreamInv, ServedInv, ServedInOrder, [Next]_vars
              PROVE  ServedInv' /\ ServedInOrder'
  OBVIOUS
<1>. USE SerialAssumption
<1>0. /\ Len(got) \in Nat /\ i \in Nat /\ BUFF_SIZE \in Nat \ {0}
      /\ pc = "read" => i <= Len(got)
  BY DEF SerialType, ServedInv
<1>1. ASSUME UNCHANGED answered, Len(got') \in Nat, Before <= Before', Before' \in Int,
             pc' = "read" => i' <= Len(got'),
             \A n \in 1 .. Before : got'[n] = got[n]
      PROVE  ServedInv' /\ ServedInOrder'
  <2>1. Before \in Int
    BY <1>0 DEF Before
  <2>2. \A n \in 1 .. Before : n \in 1 .. Before'
    BY <1>1, <2>1
  <2>. HIDE DEF Before
  <2>3. ServedInv'
    BY <1>1, <2>2 DEF ServedInv
  <2>. QED  BY <1>1, <2>3 DEF ServedInOrder
<1>2. CASE read_byte
  <2>1. /\ got' = Append(got, array[last_read]) /\ i' = i + 1 /\ pc = "read" /\ pc' = "read"
        /\ UNCHANGED answered
    BY <1>2 DEF read_byte, sending
  <2>2. Len(got') = Len(got) + 1 /\ \A n \in 1 .. Len(got) : got'[n] = got[n]
    BY <2>1 DEF SerialType
  <2>3. Before' = Before /\ Before' \in Int /\ Before <= Len(got)
    BY <1>0, <2>1, <2>2 DEF Before
  <2>4. i' <= Len(got')
    BY <1>0, <2>1, <2>2 DEF ServedInv
  <2>. QED  BY <1>0, <1>1, <2>1, <2>2, <2>3, <2>4
<1>3. CASE read
  BY <1>0, <1>1, <1>3 DEF read, sending, Before
<1>4. CASE ISR
  <2>1. UNCHANGED <<i, got, answered>> /\ (pc' = pc \/ pc' = "overrun")
    BY <1>4, InterruptStep DEF reading, sending
  <2>. QED  BY <1>0, <1>1, <2>1 DEF Before
<1>5. CASE read_waits
  BY <1>0, <1>1, <1>5 DEF read_waits, sending, Before
<1>6. CASE send_packet \/ read_reply \/ give_up \/ byte_lost \/ transmit \/ UNCHANGED vars
  <2>1. UNCHANGED <<i, got, pc, answered>>
    BY <1>6 DEF send_packet, read_reply, give_up, byte_lost, transmit, vars, reading, sending
  <2>. QED  BY <1>0, <1>1, <2>1 DEF Before
<1>7. CASE init_communication \/ uart_write \/ uart_write_done
  <2>1. UNCHANGED <<i, got, answered>> /\ pc # "read" /\ pc' # "read"
    BY <1>7 DEF init_communication, uart_write, uart_write_done, reading, sending
  <2>. QED  BY <1>0, <1>1, <2>1 DEF Before
<1>8. CASE mainloop
  <2>1. UNCHANGED <<i, got>> /\ pc = "read" /\ i = BUFF_SIZE /\ i <= Len(got)
    BY <1>8 DEF mainloop, reading, ServedInv
  <2>2. CASE pc' \in {"mainloop", "ended"} /\ UNCHANGED answered
    BY <1>0, <1>1, <2>1, <2>2 DEF Before
  <2>3. ASSUME NEW k \in 0 .. MaxSent, reply(k),
               k # Nobody => k \in DOMAIN sent /\ packet_valid(k)
        PROVE  ServedInv' /\ ServedInOrder'
    <3>. DEFINE start == Len(got) - BUFF_SIZE + 1
    <3>1. /\ answered' = Append(answered, k) /\ pc' = "write"
          /\ answered \in Seq(0 .. MaxSent)
      BY <2>3 DEF reply, SerialType
    <3>2. /\ DOMAIN answered = 1 .. Len(answered) /\ Len(answered) \in Nat
          /\ DOMAIN answered' = 1 .. Len(answered) + 1
          /\ \A n \in DOMAIN answered : answered'[n] = answered[n]
          /\ answered'[Len(answered) + 1] = k
      BY <3>1, AppendProperties
    <3>3. Before = Len(got) - BUFF_SIZE /\ Before' = Len(got)
      BY <2>1, <3>1 DEF Before
    <3>4. k # Nobody => start \in 1 .. Len(got) /\ got[start] = <<k, 1>>
      BY <2>1, <2>3, AcceptedStartsRead
    <3>. HIDE DEF start
    <3>5. ServedInv'
      <4>1. pc' # "read"
        BY <3>1
      <4>2. ASSUME NEW n \in DOMAIN answered', answered'[n] # Nobody
            PROVE  \E m \in 1 .. Before' : got'[m] = <<answered'[n], 1>>
        <5>1. CASE n \in DOMAIN answered
          <6>1. PICK m \in 1 .. Before : got[m] = <<answered[n], 1>>
            BY <3>2, <4>2, <5>1 DEF ServedInv
          <6>2. m \in 1 .. Before'
            BY <1>0, <3>3
          <6>. QED  BY <2>1, <3>2, <5>1, <6>1, <6>2
        <5>2. CASE n = Len(answered) + 1
          BY <2>1, <3>2, <3>3, <3>4, <4>2, <5>2
        <5>. QED  BY <3>2, <5>1, <5>2
      <4>. QED  BY <4>1, <4>2 DEF ServedInv
    <3>6. ASSUME NEW m \in DOMAIN answered, answered[m] # Nobody, k # Nobody
          PROVE  answered[m] < k
      <4>1. PICK n \in 1 .. Before : got[n] = <<answered[m], 1>>
        BY <3>6 DEF ServedInv
      <4>2. n < start /\ n \in 1 .. Len(got) /\ start \in 1 .. Len(got)
        BY <1>0, <3>3, <3>4, <3>6 DEF start
      <4>3. received[n] = <<answered[m], 1>> /\ received[start] = <<k, 1>>
        BY <3>4, <3>6, <4>1, <4>2 DEF FifoInv
      <4>4. n \in DOMAIN received /\ start \in DOMAIN received
        BY <4>2 DEF FifoInv, SerialType
      <4>5. FirstByte(received[n]) /\ FirstByte(received[start])
        BY <3>6, <4>3 DEF FirstByte
      <4>6. Sooner(received[n], received[start])
        BY <4>2, <4>4, <4>5 DEF StreamInv
      <4>. QED  BY <4>3, <4>6 DEF Sooner
    <3>7. ServedInOrder'
      BY <3>2, <3>6 DEF ServedInOrder
    <3>. QED  BY <3>5, <3>7
  <2>4. DOMAIN sent \subseteq 1 .. MaxSent /\ Nobody \in 0 .. MaxSent
    BY DEF SerialType, Nobody
  <2>. QED  BY <1>8, <2>2, <2>3, <2>4 DEF mainloop
<1>. QED  BY <1>2, <1>3, <1>4, <1>5, <1>6, <1>7, <1>8 DEF Next, DeviceRuns

\* No request is performed twice, or after a later one, although what follows a packet
\* in the buffer is dropped and the host may have asked again.
THEOREM SerialServesInOrder == Spec => []ServedInOrder
<1>1. Init => StreamInv /\ ServedInv /\ ServedInOrder
  BY StreamInit, ServedInit
<1>. QED  BY <1>1, StreamStep, ServedStep, SerialTypeHolds, PTL DEF Spec

-----------------------------------------------------------------------------
(* The bytes of the replies.                                               *)

\* Byte r of reply a lies a whole replies and r bytes behind the first byte.
LEMMA ReplyPlace ==
  ASSUME NEW a \in Nat, NEW r \in 0 .. ReplySize - 1
  PROVE  (ReplySize * a + r) \div ReplySize = a /\ (ReplySize * a + r) % ReplySize = r
<1>1. ReplySize \in Nat \ {0}
  BY SerialAssumption
<1>. QED  BY <1>1

\* The first bytes, of a whole replies, belong to one of these replies.
LEMMA ReplyOfByte ==
  ASSUME NEW a \in Nat, NEW m \in Nat, m < ReplySize * a
  PROVE  m \div ReplySize \in Nat /\ m \div ReplySize < a
<1>1. ReplySize \in Nat \ {0}
  BY SerialAssumption
<1>. QED  BY <1>1

LEMMA WrittenType ==
  ASSUME SerialType
  PROVE  /\ WrittenBytes \in Nat
         /\ answered # << >> => Len(answered) - 1 \in Nat
         /\ answered = << >> => Len(answered) = 0
<1>1. ReplySize \in Nat \ {0} /\ written \in Nat /\ Len(answered) \in Nat
  BY SerialAssumption DEF SerialType
<1>2. answered # << >> => Len(answered) - 1 \in Nat
  BY EmptySeq DEF SerialType
<1>. QED  BY <1>1, <1>2 DEF WrittenBytes

LEMMA ReplyInit == Init => ReplyInv
BY DEF Init, ReplyInv, WrittenBytes

\* A step that leaves the program's place and the replies alone keeps the invariant.
LEMMA ReplyUntouched ==
  ASSUME ReplyInv, UNCHANGED sending,
         \/ pc' = pc \/ pc' = "overrun"
         \/ /\ pc \in {"init_communication", "mainloop", "read"}
            /\ pc' \in {"mainloop", "read", "ended"}
  PROVE  ReplyInv'
BY DEF ReplyInv, WrittenBytes, ReplyByte, sending

\* The data register is free when a byte is written to it, so the bytes that came, and
\* the one in the register, are those of the replies in the order they were written.
LEMMA ReplyStep == SerialType /\ ReplyInv /\ [Next]_vars => ReplyInv'
<1>. SUFFICES ASSUME SerialType, ReplyInv, [Next]_vars PROVE ReplyInv'
  OBVIOUS
<1>1. CASE transmit
  <2>1. /\ udr # Nothing /\ udr' = Nothing /\ host_in' = Append(host_in, udr)
        /\ UNCHANGED <<answered, written, pc>>
    BY <1>1 DEF transmit
  <2>2. /\ Len(host_in') = Len(host_in) + 1 /\ Len(host_in) \in Nat
        /\ \A n \in 1 .. Len(host_in) : host_in'[n] = host_in[n]
        /\ host_in'[Len(host_in) + 1] = udr
    BY <2>1, AppendProperties DEF SerialType
  <2>3. \A n \in 1 .. Len(host_in') : host_in'[n] = ReplyByte(n)
    BY <2>1, <2>2 DEF ReplyInv
  <2>. QED  BY <2>1, <2>2, <2>3 DEF ReplyInv, WrittenBytes, ReplyByte
<1>2. CASE uart_write
  <2>. DEFINE a == Len(answered) - 1
  <2>1. /\ pc = "write" /\ pc' = "udre" /\ written' = written + 1
        /\ udr' = <<answered[Len(answered)], written + 1>>
        /\ UNCHANGED <<answered, host_in>>
    BY <1>2 DEF uart_write
  <2>2. /\ answered # << >> /\ a \in Nat /\ written \in 0 .. ReplySize - 1
        /\ ReplySize \in Nat
    BY <2>1, WrittenType, SerialAssumption DEF SerialType
  <2>3. udr = Nothing /\ Len(host_in) = ReplySize * a + written
    BY <2>1, <2>2 DEF ReplyInv, WrittenBytes, SerialType
  <2>4. Len(host_in) \div ReplySize = a /\ Len(host_in) % ReplySize = written
    BY ZenonT(60), <2>2, <2>3, ReplyPlace
  <2>5. (Len(host_in) + 1) - 1 = Len(host_in) /\ Len(host_in) \in Nat /\ a + 1 = Len(answered)
    BY DEF SerialType
  <2>6. ReplyByte(Len(host_in) + 1) = udr'
    BY <2>1, <2>4, <2>5 DEF ReplyByte
  <2>7. udr' # Nothing
    BY <2>1 DEF Nothing
  <2>8. WrittenBytes' = Len(host_in) + 1
    <3>1. WrittenBytes' = ReplySize * a + (written + 1)
      BY <2>1, <2>2 DEF WrittenBytes
    <3>. QED  BY <2>2, <2>3, <3>1
  <2>9. \A n : ReplyByte(n)' = ReplyByte(n)
    BY <2>1 DEF ReplyByte
  <2>. HIDE DEF a
  <2>. QED  BY <2>1, <2>3, <2>6, <2>7, <2>8, <2>9 DEF ReplyInv
<1>3. CASE uart_write_done
  <2>1. /\ pc = "udre" /\ udr = Nothing /\ UNCHANGED sending
        /\ pc' = IF written = ReplySize THEN "mainloop" ELSE "write"
    BY <1>3 DEF uart_write_done
  <2>. QED  BY <2>1 DEF ReplyInv, WrittenBytes, ReplyByte, sending
<1>4. CASE mainloop
  <2>1. UNCHANGED <<udr, host_in>> /\ pc = "read" /\ udr = Nothing
    BY <1>4 DEF mainloop, ReplyInv
  <2>2. CASE pc' \in {"mainloop", "ended"} /\ UNCHANGED <<answered, written>>
    BY <2>1, <2>2, ReplyUntouched DEF sending
  <2>3. ASSUME NEW k \in 0 .. MaxSent, reply(k)  PROVE ReplyInv'
    <3>1. /\ answered' = Append(answered, k) /\ written' = 0 /\ pc' = "write"
          /\ Len(answered) \in Nat /\ answered' # << >>
          /\ Len(answered') = Len(answered) + 1
          /\ \A n \in 1 .. Len(answered) : answered'[n] = answered[n]
      BY <2>3, AppendProperties DEF reply, SerialType
    <3>2. ReplySize \in Nat
      BY SerialAssumption
    <3>3. WrittenBytes = ReplySize * Len(answered)
      <4>1. CASE answered = << >>
        BY <3>1, <3>2, <4>1, WrittenType DEF WrittenBytes
      <4>2. CASE answered # << >>
        <5>1. written = ReplySize
          BY <2>1, <4>2 DEF ReplyInv
        <5>2. WrittenBytes = ReplySize * (Len(answered) - 1) + ReplySize
          BY <4>2, <5>1 DEF WrittenBytes
        <5>. QED  BY <3>1, <3>2, <5>2
      <4>. QED  BY <4>1, <4>2
    <3>4. WrittenBytes' = ReplySize * Len(answered)
      <4>1. (Len(answered) + 1) - 1 = Len(answered) /\ ReplySize * Len(answered) \in Nat
        BY <3>1, <3>2
      <4>. QED  BY <3>1, <4>1 DEF WrittenBytes
    <3>5. Len(host_in) = ReplySize * Len(answered) /\ Len(host_in) \in Nat
      BY <2>1, <3>3 DEF ReplyInv, SerialType
    <3>6. ASSUME NEW n \in 1 .. Len(host_in)  PROVE ReplyByte(n)' = ReplyByte(n)
      <4>1. n - 1 \in Nat /\ n - 1 < ReplySize * Len(answered)
        BY <3>5
      <4>2. (n - 1) \div ReplySize \in Nat /\ (n - 1) \div ReplySize < Len(answered)
        BY <3>1, <4>1, ReplyOfByte
      <4>3. (n - 1) \div ReplySize + 1 \in 1 .. Len(answered)
        BY <3>1, <4>2
      <4>. QED  BY <3>1, <4>3 DEF ReplyByte
    <3>. QED  BY <2>1, <3>1, <3>4, <3>5, <3>6 DEF ReplyInv
  <2>4. DOMAIN sent \subseteq 0 .. MaxSent /\ Nobody \in 0 .. MaxSent
    BY SerialAssumption DEF SerialType, Nobody
  <2>. QED  BY <1>4, <2>2, <2>3, <2>4 DEF mainloop
<1>5. CASE ISR
  BY <1>5, InterruptStep, ReplyUntouched
<1>6. CASE init_communication \/ read \/ read_byte \/ read_waits
  BY <1>6, ReplyUntouched DEF init_communication, read, read_byte, read_waits
<1>7. CASE send_packet \/ read_reply \/ give_up \/ byte_lost \/ UNCHANGED vars
  BY <1>7, ReplyUntouched DEF send_packet, read_reply, give_up, byte_lost, vars
<1>. QED  BY <1>1, <1>2, <1>3, <1>4, <1>5, <1>6, <1>7 DEF Next, DeviceRuns

\* The host receives the replies byte for byte, none lost in the data register.
THEOREM SerialRepliesWhole == Spec => []RepliesWhole
<1>1. SerialType /\ ReplyInv => RepliesWhole
  <2>. SUFFICES ASSUME SerialType, ReplyInv, NEW n \in DOMAIN host_in
                PROVE  host_in[n] = ReplyByte(n)
    BY DEF RepliesWhole, ReplyByte
  <2>1. n \in 1 .. Len(host_in)
    BY SMTT(60) DEF SerialType
  <2>. QED  BY <2>1 DEF ReplyInv
<1>. QED  BY <1>1, ReplyInit, ReplyStep, SerialTypeHolds, PTL DEF Spec

=============================================================================
