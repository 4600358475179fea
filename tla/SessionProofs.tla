---------------------------- MODULE SessionProofs -----------------------------
(***************************************************************************)
(* A session for every value of the constants: type correctness first,     *)
(* with one lemma for each request, handler and return; then, resting on   *)
(* it, its discipline: one packet at a time, opens that meet, packets that *)
(* fit their buffer, each with an inductive invariant that relates the two *)
(* processes.                                                              *)
(***************************************************************************)
EXTENDS Session, PacketProofs

-----------------------------------------------------------------------------
(* Type correctness, initially and under the driver's steps.               *)

\* What a call returns, and the connection before get_caps.
LEMMA EmptyTypes ==
    /\ OutputOK(NoOut)
    /\ 0 \in UINT8 /\ NoCaps.nb_pins = 0 /\ NoCaps \in Connection(0)
<1>1. OutputOK(NoOut)
  BY DEF OutputOK, NoOut, Word
<1>2. 0 .. 0 - 1 = {} /\ 0 \in UINT8
  BY DEF UINT8
<1>3. new_failsafe({}) \in FailsafeOf({})
  BY FailsafeType
<1>4. NoCaps.nb_pins = 0 /\ NoCaps \in Connection(0)
  BY <1>2, <1>3 DEF NoCaps, Connection, PinArray
<1>5. QED
  BY <1>1, <1>2, <1>4

\* Values, or types, of pins as they are returned.
LEMMA OutputType ==
    ASSUME NEW D \in SUBSET PinIds, NEW result \in [D -> Word]
    PROVE  OutputOK(Vals(result)) /\ OutputOK(Types(result))
<1>1. DOMAIN << >> = {} /\ {} \in SUBSET PinIds /\ << >> \in [{} -> Word] /\ {} \in Word
  BY DEF Word
<1>2. DOMAIN result \in SUBSET PinIds /\ result \in [DOMAIN result -> Word]
  OBVIOUS
<1>3. OutputOK(Vals(result))
  BY <1>1, <1>2 DEF OutputOK, Vals
<1>4. OutputOK(Types(result))
  BY <1>1, <1>2 DEF OutputOK, Types
<1>5. QED
  BY <1>3, <1>4

\* The initial values are in their types.
LEMMA TypeInit == Init => TypeOK
<1> SUFFICES ASSUME Init PROVE TypeOK
  OBVIOUS
<1>1. LinkTypeOK
  BY DEF Init, LinkInit, LinkTypeOK, DriverStates, DeviceStates, Ends
<1>2. DriverTypeOK
  <2>1. conn = NoCaps /\ call = NoCall /\ out = NoOut /\ version = {}
    BY DEF Init, DriverInit
  <2>2. QED
    BY <2>1, EmptyTypes DEF DriverTypeOK, Octet
<1>3. DeviceTypeOK
  <2>1. new_failsafe(Pins) \in FailsafeOf(Pins)
    BY FailsafeType
  <2>2. QED
    BY <2>1, FirmwareAssumption
       DEF Init, DeviceInit, DeviceTypeOK, DeviceState, PinType, Word, PIN_TYPE_DIGITAL
<1>4. QED
  BY <1>1, <1>2, <1>3 DEF TypeOK

\* A pin id at the start of the data.
LEMMA PinIdBits ==
    ASSUME NEW pin_id
    PROVE  pin_id_bits(pin_id) \in SUBSET Nat
BY WriteType DEF pin_id_bits, PINS_NO_BITS_NB

\* The mask at the start of the data, and what the loops over it count.
LEMMA MaskBits ==
    ASSUME NEW m \in SUBSET PinIds, NEW n \in Nat, NEW bits \in {0, 1, 3, 8, 16}
    PROVE  /\ write_mask({}, m, n) \in SUBSET Nat
           /\ n + mask_nb_pins_used(m, n) * bits \in Nat
           /\ n + bits * mask_nb_pins_used(m, n) \in Nat
<1>1. mask_nb_pins_used(m, n) \in Nat
  BY CountType DEF UINT8
<1>2. m \in SUBSET Nat
  BY DEF PinIds
<1>3. write_mask({}, m, n) \in SUBSET Nat
  BY <1>2 DEF write_mask
<1>4. \A k \in Nat : k * bits \in Nat /\ bits * k \in Nat
  OBVIOUS
<1>5. QED
  BY <1>1, <1>3, <1>4

\* Every request is a packet.
LEMMA RequestType ==
    ASSUME conn.nb_pins \in UINT8, NEW c, Callable(c)
    PROVE  request(c) \in Packet
<1> DEFINE n == conn.nb_pins
<1>1. WellFormed(c) /\ n \in Nat /\ (c.op \in MaskOps => n - 1 \in Nat)
  BY CallsAssumption DEF Callable, UINT8
<1> HIDE DEF n
<1>2. /\ 0 \in 0..15 /\ 1 \in 0..15 /\ 2 \in 0..15 /\ 3 \in 0..15
      /\ 4 \in 0..15 /\ 5 \in 0..15 /\ 6 \in 0..15 /\ 7 \in 0..15 /\ 8 \in 0..15
      /\ {} \in SUBSET (0..3) /\ {0} \in SUBSET (0..3)
      /\ {} \in SUBSET Nat
  OBVIOUS
<1>3. CASE c.op = "get_caps"
  <2>1. packet(CMD_GET_CAPS, {}, 0, {}) \in Packet
    BY <1>2, PacketType DEF CMD_GET_CAPS
  <2>2. QED
    BY <1>3, <2>1 DEF request, get_caps_request
<1>4. CASE c.op = "reset"
  <2>1. packet(CMD_RESET, {}, 0, {}) \in Packet
    BY <1>2, PacketType DEF CMD_RESET
  <2>2. QED
    BY <1>4, <2>1 DEF request, reset_request
<1>5. CASE c.op = "ping"
  <2>1. ping_request \in Packet
    BY <1>2, PacketType, WriteType DEF ping_request, CMD_PING
  <2>2. QED
    BY <1>5, <2>1 DEF request
<1>6. CASE c.op = "generic_read"
  <2>1. generic_read_request(c) \in Packet
    BY <1>1, <1>2, <1>6, PacketType, PinIdBits, ParamType
       DEF WellFormed, generic_read_request, CMD_READ
  <2>2. QED
    BY <1>6, <2>1 DEF request
<1>7. CASE c.op = "read_value_mask"
  <2>1. c.mask \in SUBSET PinIds /\ c.type \in PinType
    BY <1>1, <1>7 DEF WellFormed, MaskOps
  <2>2. write_mask({}, c.mask, n) \in SUBSET Nat
    BY <1>1, <2>1, MaskBits
  <2>3. read_value_mask_request(c) \in Packet
    BY <1>1, <1>2, <2>1, <2>2, PacketType, ParamType, BytesType
       DEF read_value_mask_request, CMD_READ, n
  <2>4. QED
    BY <1>7, <2>3 DEF request
<1>8. CASE c.op = "generic_write"
  <2> DEFINE val_size == get_type_bits_nb(c.pin_mode)
             data     == write_bit_value(pin_id_bits(c.pin_id), PINS_NO_BITS_NB,
                                         c.val, val_size)
  <2>1. val_size \in Nat /\ PINS_NO_BITS_NB \in Nat
    BY WidthType DEF PINS_NO_BITS_NB
  <2>2. data \in SUBSET Nat /\ BITS2BYTES(PINS_NO_BITS_NB + val_size) \in Nat
    BY <2>1, PinIdBits, WriteType, BytesType
  <2>3. type_param(c.pin_mode, USE_PIN_ID) \in SUBSET (0..3)
    BY <1>1, <1>8, ParamType DEF WellFormed
  <2> HIDE DEF data
  <2>4. packet(CMD_WRITE, type_param(c.pin_mode, USE_PIN_ID),
               BITS2BYTES(PINS_NO_BITS_NB + val_size), data) \in Packet
    BY <1>2, <2>2, <2>3, PacketType DEF CMD_WRITE
  <2>5. QED
    BY <1>8, <2>4 DEF request, generic_write_request, data
<1>9. CASE c.op = "write_value_mask"
  <2> DEFINE bits == get_type_bits_nb(c.type)
             all  == n + mask_nb_pins_used(c.mask, n) * bits
             data == write_value_list(write_mask({}, c.mask, n), n, c.mask,
                                      c.values, bits)
  <2>1. c.mask \in SUBSET PinIds /\ c.type \in PinType
    BY <1>1, <1>9 DEF WellFormed, MaskOps
  <2>2. bits \in {0, 1, 3, 8, 16}
    BY WidthType
  <2>3. all \in Nat /\ write_mask({}, c.mask, n) \in SUBSET Nat
    BY <1>1, <2>1, <2>2, MaskBits
  <2>4. data \in SUBSET Nat
    BY <1>1, <2>1, <2>2, <2>3, WriteListType
  <2>5. BITS2BYTES_unsigned(all) \in Nat
    BY <2>3, BytesType
  <2>6. type_param(c.type, USE_MASK) \in SUBSET (0..3)
    BY <2>1, ParamType
  <2> HIDE DEF data, all
  <2>7. packet(CMD_WRITE, type_param(c.type, USE_MASK), BITS2BYTES_unsigned(all), data)
          \in Packet
    BY <1>2, <2>4, <2>5, <2>6, PacketType DEF CMD_WRITE
  <2>8. QED
    BY <1>9, <2>7 DEF request, write_value_mask_request, data, all, n
<1>10. CASE c.op = "get_type"
  <2>1. get_type_request(c) \in Packet
    BY <1>2, PacketType, PinIdBits DEF get_type_request, CMD_GET_TYPE, USE_PIN_ID
  <2>2. QED
    BY <1>10, <2>1 DEF request
<1>11. CASE c.op = "get_type_mask"
  <2>1. c.mask \in SUBSET PinIds /\ n - 1 \in Nat
    BY <1>1, <1>11 DEF WellFormed, MaskOps
  <2>2. write_mask({}, c.mask, n - 1) \in SUBSET Nat
    BY <2>1, MaskBits
  <2>3. get_type_mask_request(c) \in Packet
    BY <1>2, <2>1, <2>2, PacketType, BytesType
       DEF get_type_mask_request, CMD_GET_TYPE, USE_MASK, n
  <2>4. QED
    BY <1>11, <2>3 DEF request
<1>12. CASE c.op = "set_type"
  <2> DEFINE data == write_bit_value(pin_id_bits(c.pin_id), PINS_NO_BITS_NB,
                                     c.type, PIN_TYPE_BITS_NB)
  <2>1. PIN_TYPE_BITS_NB \in Nat /\ PINS_NO_BITS_NB \in Nat
    BY DEF PIN_TYPE_BITS_NB, PINS_NO_BITS_NB
  <2>2. data \in SUBSET Nat /\ BITS2BYTES(PINS_NO_BITS_NB + PIN_TYPE_BITS_NB) \in Nat
    BY <2>1, PinIdBits, WriteType, BytesType
  <2> HIDE DEF data
  <2>3. packet(CMD_SET_TYPE, USE_PIN_ID,
               BITS2BYTES(PINS_NO_BITS_NB + PIN_TYPE_BITS_NB), data) \in Packet
    BY <1>2, <2>2, PacketType DEF CMD_SET_TYPE, USE_PIN_ID
  <2>4. QED
    BY <1>12, <2>3 DEF request, set_type_request, data
<1>13. CASE c.op = "set_type_mask"
  <2> DEFINE all  == n + PIN_TYPE_BITS_NB * mask_nb_pins_used(c.mask, n)
             data == write_value_list(write_mask({}, c.mask, n), n, c.mask,
                                      c.values, PIN_TYPE_BITS_NB)
  <2>1. c.mask \in SUBSET PinIds /\ PIN_TYPE_BITS_NB \in {0, 1, 3, 8, 16}
    BY <1>1, <1>13 DEF WellFormed, MaskOps, PIN_TYPE_BITS_NB
  <2>2. all \in Nat /\ write_mask({}, c.mask, n) \in SUBSET Nat
    BY <1>1, <2>1, MaskBits
  <2>3. data \in SUBSET Nat
    BY <1>1, <2>1, <2>2, WriteListType
  <2>4. BITS2BYTES(all) \in Nat
    BY <2>2, BytesType
  <2> HIDE DEF data, all
  <2>5. packet(CMD_SET_TYPE, USE_MASK, BITS2BYTES(all), data) \in Packet
    BY <1>2, <2>3, <2>4, PacketType DEF CMD_SET_TYPE, USE_MASK
  <2>6. QED
    BY <1>13, <2>5 DEF request, set_type_mask_request, data, all, n
<1>14. CASE c.op = "get_failsafe"
  <2>1. get_failsafe_request(c) \in Packet
    BY <1>2, PacketType, PinIdBits DEF get_failsafe_request, CMD_GET_FAILSAFE, USE_PIN_ID
  <2>2. QED
    BY <1>14, <2>1 DEF request
<1>15. CASE c.op = "get_failsafe_mask"
  <2> DEFINE bits == mask_nb_pins_used(c.mask, n) * PIN_TYPE_BITS_NB
  <2>1. c.mask \in SUBSET PinIds
    BY <1>1, <1>15 DEF WellFormed, MaskOps
  <2>2. write_mask({}, c.mask, n) \in SUBSET Nat
    BY <1>1, <2>1, MaskBits
  <2>3. mask_nb_pins_used(c.mask, n) \in Nat
    BY <2>1, CountType DEF UINT8
  <2>4. bits \in Nat
    BY <2>3 DEF PIN_TYPE_BITS_NB
  <2>5. BITS2BYTES_unsigned(bits) \in Nat
    BY <2>4, BytesType
  <2> HIDE DEF bits
  <2>6. packet(CMD_GET_FAILSAFE, USE_MASK, BITS2BYTES_unsigned(bits),
               write_mask({}, c.mask, n)) \in Packet
    BY <1>2, <2>2, <2>5, PacketType DEF CMD_GET_FAILSAFE, USE_MASK
  <2>7. QED
    BY <1>15, <2>6 DEF request, get_failsafe_mask_request, bits, n
<1>16. CASE c.op = "set_failsafe"
  <2> DEFINE bits == get_type_bits_nb(c.type)
             data == write_bit_value({}, 0, c.timeout, TIMEOUT_BITS_NB)
                       \cup write_bit_value({}, 16, ToBits(c.pin_id), PINS_NO_BITS_NB)
                       \cup write_bit_value({}, 24, c.val, bits)
  <2>1. bits \in Nat /\ TIMEOUT_BITS_NB \in Nat /\ PINS_NO_BITS_NB \in Nat
    BY WidthType DEF TIMEOUT_BITS_NB, PINS_NO_BITS_NB
  <2>2. data \in SUBSET Nat /\ BITS2BYTES(TIMEOUT_BITS_NB + 1 + bits) \in Nat
    BY <2>1, WriteType, BytesType
  <2>3. type_param(c.type, USE_PIN_ID) \in SUBSET (0..3)
    BY <1>1, <1>16, ParamType DEF WellFormed
  <2> HIDE DEF data, bits
  <2>4. packet(CMD_SET_FAILSAFE, type_param(c.type, USE_PIN_ID),
               BITS2BYTES(TIMEOUT_BITS_NB + 1 + bits), data) \in Packet
    BY <1>2, <2>2, <2>3, PacketType DEF CMD_SET_FAILSAFE
  <2>5. QED
    BY <1>16, <2>4 DEF request, set_failsafe_request, data, bits
<1>17. CASE c.op = "set_failsafe_mask"
  <2> DEFINE bits  == get_type_bits_nb(c.type)
             head  == TIMEOUT_BITS_NB + n
             all   == head + mask_nb_pins_used(c.mask, n) * bits
             names == write_bit_value({}, 0, c.timeout, TIMEOUT_BITS_NB)
                        \cup {16 + p : p \in write_mask({}, c.mask, n)}
             data  == write_value_list(names, head, c.mask, c.values, bits)
  <2>1. c.mask \in SUBSET PinIds /\ c.type \in PinType
    BY <1>1, <1>17 DEF WellFormed, MaskOps
  <2>2. /\ bits \in {0, 1, 3, 8, 16} /\ bits \in Nat /\ head \in Nat
        /\ TIMEOUT_BITS_NB \in Nat
    BY <1>1, WidthType DEF TIMEOUT_BITS_NB
  <2>3. head + mask_nb_pins_used(c.mask, n) * bits \in Nat
    <3>1. n + mask_nb_pins_used(c.mask, n) * bits \in Nat
      BY <1>1, <2>1, <2>2, MaskBits
    <3>2. mask_nb_pins_used(c.mask, n) \in Nat
      BY <2>1, CountType DEF UINT8
    <3>3. mask_nb_pins_used(c.mask, n) * bits \in Nat
      BY <2>2, <3>2
    <3>4. QED
      BY <2>2, <3>3
  <2>4. names \in SUBSET Nat
    <3>1. write_mask({}, c.mask, n) \in SUBSET Nat
      BY <1>1, <2>1, MaskBits
    <3>2. write_bit_value({}, 0, c.timeout, TIMEOUT_BITS_NB) \in SUBSET Nat
      BY <2>2, WriteType
    <3>3. QED
      BY <3>1, <3>2
  <2> HIDE DEF names
  <2>5. data \in SUBSET Nat /\ BITS2BYTES(all) \in Nat
    BY <2>1, <2>2, <2>3, <2>4, WriteListType, BytesType
  <2>6. type_param(c.type, USE_MASK) \in SUBSET (0..3)
    BY <2>1, ParamType
  <2> HIDE DEF data, all, head, bits
  <2>7. packet(CMD_SET_FAILSAFE, type_param(c.type, USE_MASK), BITS2BYTES(all), data)
          \in Packet
    BY <1>2, <2>5, <2>6, PacketType DEF CMD_SET_FAILSAFE
  <2>8. QED
    BY <1>17, <2>7 DEF request, set_failsafe_mask_request, data, all, head, names, bits, n
<1>18. QED
  BY <1>1, <1>3, <1>4, <1>5, <1>6, <1>7, <1>8, <1>9, <1>10, <1>11, <1>12, <1>13,
     <1>14, <1>15, <1>16, <1>17
     DEF WellFormed, PinOps, MaskOps

\* A packet appended to a pipe, and a pipe that was read.
LEMMA PipeType ==
    ASSUME NEW pipe \in Seq(Packet), NEW p \in Packet
    PROVE  /\ connection_write(pipe, p) \in Seq(Packet)
           /\ unread(pipe) \in Seq(Packet)
BY DEF connection_write, unread

\* What the heap adds to a packet are positions of a buffer.
LEMMA ReceivedType ==
    ASSUME NEW p \in Packet, NEW junk \in HeapJunk
    PROVE  received(p, junk) \in SUBSET Nat
BY LinkAssumption DEF received, Packet

\* A call that returns and stores its results leaves the driver well typed.
LEMMA ReturnStoringType ==
    ASSUME DriverTypeOK, NEW newConn, newConn.nb_pins \in UINT8,
           newConn \in Connection(newConn.nb_pins),
           NEW result, OutputOK(result),
           ReturnStoring(newConn, result)
    PROVE  DriverTypeOK' /\ drv' \in DriverStates
<1>1. CASE conn.nb_pins = 0
  BY <1>1 DEF ReturnStoring, DriverTypeOK, DriverStates
<1>2. CASE conn.nb_pins # 0
  BY <1>2 DEF ReturnStoring, Return, DriverTypeOK, DriverStates
<1>3. QED
  BY <1>1, <1>2

\* The same when it stores values into the mirror.
LEMMA StoreValsType ==
    ASSUME DriverTypeOK, NEW result, OutputOK(result),
           NEW E, NEW vals \in [E -> Word],
           ReturnStoring([conn EXCEPT !.pins_val = store(@, vals)], result)
    PROVE  DriverTypeOK' /\ drv' \in DriverStates
<1> DEFINE newConn == [conn EXCEPT !.pins_val = store(@, vals)]
<1>1. conn.pins_val \in PinArray(conn.nb_pins, Word)
  BY DEF DriverTypeOK, Connection
<1>2. store(conn.pins_val, vals) \in PinArray(conn.nb_pins, Word)
  BY <1>1, StoreType DEF PinArray
<1>3. newConn.nb_pins = conn.nb_pins /\ newConn \in Connection(conn.nb_pins)
  BY <1>2 DEF DriverTypeOK, Connection
<1> HIDE DEF newConn
<1>4. ReturnStoring(newConn, result)
  BY DEF newConn
<1>5. QED
  BY <1>3, <1>4, ReturnStoringType DEF DriverTypeOK

\* The same for the types of the mirror.
LEMMA StoreTypesType ==
    ASSUME DriverTypeOK, NEW result, OutputOK(result),
           NEW E, NEW types \in [E -> PinType],
           ReturnStoring([conn EXCEPT !.pins_type = store(@, types)], result)
    PROVE  DriverTypeOK' /\ drv' \in DriverStates
<1> DEFINE newConn == [conn EXCEPT !.pins_type = store(@, types)]
<1>1. conn.pins_type \in PinArray(conn.nb_pins, PinType)
  BY DEF DriverTypeOK, Connection
<1>2. store(conn.pins_type, types) \in PinArray(conn.nb_pins, PinType)
  BY <1>1, StoreType DEF PinArray
<1>3. newConn.nb_pins = conn.nb_pins /\ newConn \in Connection(conn.nb_pins)
  BY <1>2 DEF DriverTypeOK, Connection
<1> HIDE DEF newConn
<1>4. ReturnStoring(newConn, result)
  BY DEF newConn
<1>5. QED
  BY <1>3, <1>4, ReturnStoringType DEF DriverTypeOK

\* The same for its failsafe states.
LEMMA StoreFailsafeStatesType ==
    ASSUME DriverTypeOK, NEW result, OutputOK(result), NEW timeout \in Word,
           NEW E, NEW states \in [E -> Octet], NEW values \in [E -> Word],
           ReturnStoring([conn EXCEPT !.failsafe =
                             store_failsafe(@, timeout, states, values)], result)
    PROVE  DriverTypeOK' /\ drv' \in DriverStates
<1> DEFINE newConn == [conn EXCEPT !.failsafe = store_failsafe(@, timeout, states, values)]
<1>1. conn.failsafe \in FailsafeOf(0 .. conn.nb_pins - 1)
  BY DEF DriverTypeOK, Connection
<1>2. store_failsafe(conn.failsafe, timeout, states, values)
        \in FailsafeOf(0 .. conn.nb_pins - 1)
  BY <1>1, FailsafeType
<1>3. newConn.nb_pins = conn.nb_pins /\ newConn \in Connection(conn.nb_pins)
  BY <1>2 DEF DriverTypeOK, Connection
<1> HIDE DEF newConn
<1>4. ReturnStoring(newConn, result)
  BY DEF newConn
<1>5. QED
  BY <1>3, <1>4, ReturnStoringType DEF DriverTypeOK

\* The arrays get_caps allocates and fills.
LEMMA CapsType ==
    ASSUME NEW n \in UINT8, NEW junk, NEW data,
           NEW caps, caps = read_device_caps(connection_init_resources(n, junk), data)
    PROVE  caps.nb_pins = n /\ caps \in Connection(n)
<1>1. \A k : byte_at(data, k) \in Octet
  BY DEF byte_at, Octet
<1>2. to_uint16(junk) \in Word /\ PIN_TYPE_DISABLED \in PinType /\ {} \in Octet
  BY DEF to_uint16, Word, PIN_TYPE_DISABLED, PinType, Octet
<1>3. new_failsafe(0 .. n - 1) \in FailsafeOf(0 .. n - 1)
  BY FailsafeType
<1>4. QED
  BY <1>1, <1>2, <1>3
     DEF read_device_caps, connection_init_resources, Connection, PinArray

\* What holds of the pipes and of the call when read_reply returns.
LEMMA ReadReplyType ==
    ASSUME LinkTypeOK, DriverTypeOK, NEW op, read_reply(op)
    PROVE  /\ dev' \in DeviceStates /\ fifos' \in BOOLEAN /\ opened' \subseteq Ends
           /\ driver2device' \in Seq(Packet) /\ device2driver' \in Seq(Packet)
           /\ Reply \in Packet
           /\ op # "none" => call \in Calls /\ WellFormed(call) /\ call.op = op
<1>1. op # "none" => call \in Calls /\ WellFormed(call) /\ call.op = op
  BY CallsAssumption DEF read_reply, DriverTypeOK, NoCall
<1>2. QED
  BY <1>1 DEF read_reply, LinkTypeOK, Reply, unread

\* The driver's steps keep every variable in its type.
LEMMA DriverKeepsType ==
    ASSUME TypeOK, DriverNext, UNCHANGED deviceVars
    PROVE  TypeOK'
<1> USE DEF TypeOK
<1>1. DeviceTypeOK'
  BY DEF deviceVars, DeviceTypeOK
<1>2. PinType \subseteq Word
  BY DEF PinType, Word
<1>3. OutputOK(NoOut)
  BY EmptyTypes
<1>4. CASE connection_open_in
  BY <1>1, <1>4 DEF connection_open_in, LinkTypeOK, DriverTypeOK, driverVars, pipes,
                    DriverStates, Ends
<1>5. CASE connection_open_out
  BY <1>1, <1>5 DEF connection_open_out, LinkTypeOK, DriverTypeOK, driverVars, pipes,
                    DriverStates, Ends
<1>6. CASE connection_opened
  BY <1>1, <1>6 DEF connection_opened, LinkTypeOK, DriverTypeOK, driverVars, pipes,
                    DriverStates
<1>7. CASE connection_close
  <2>1. LinkTypeOK'
    BY <1>7 DEF connection_close, LinkTypeOK, pipes, DriverStates
  <2>2. DriverTypeOK'
    BY <1>7, EmptyTypes DEF connection_close, DriverTypeOK
  <2>3. QED
    BY <1>1, <2>1, <2>2
<1>8. ASSUME NEW c \in Calls, send_packet(c)
      PROVE  TypeOK'
  <2>1. request(c) \in Packet
    BY <1>8, RequestType DEF send_packet, DriverTypeOK
  <2>2. connection_write(driver2device, request(c)) \in Seq(Packet)
    BY <2>1, PipeType DEF LinkTypeOK
  <2>3. LinkTypeOK'
    BY <1>8, <2>2 DEF send_packet, LinkTypeOK, DriverStates
  <2>4. DriverTypeOK'
    BY <1>8 DEF send_packet, DriverTypeOK
  <2>5. QED
    BY <1>1, <2>3, <2>4
<1>9. CASE read_reply_failed
  BY <1>1, <1>9 DEF read_reply_failed, LinkTypeOK, DriverTypeOK, driverVars, pipes,
                    DriverStates
<1>10. CASE DriverKilled
  BY <1>1, <1>10 DEF DriverKilled, LinkTypeOK, DriverTypeOK, driverVars, pipes,
                     DriverStates
<1>11. CASE get_caps
  <2>1. PICK junk \in HeapJunk :
          LET data    == received(Reply, junk)
              nb_pins == FromBits(read_bit_value(data, REPLY_ID_BITS_NB, PINS_NO_BITS_NB))
          IN  conn' = read_device_caps(connection_init_resources(nb_pins, junk), data)
    BY <1>11 DEF get_caps
  <2> DEFINE data    == received(Reply, junk)
             nb_pins == FromBits(read_bit_value(data, REPLY_ID_BITS_NB, PINS_NO_BITS_NB))
  <2>2. nb_pins \in UINT8
    BY FromBitsType
  <2> HIDE DEF nb_pins
  <2>3. conn'.nb_pins = nb_pins /\ conn' \in Connection(nb_pins)
    BY <2>1, <2>2, CapsType DEF nb_pins
  <2>4. DriverTypeOK'
    BY <1>3, <1>11, <2>2, <2>3 DEF get_caps, Return, DriverTypeOK
  <2>5. LinkTypeOK'
    BY <1>11, ReadReplyType DEF get_caps, Return, LinkTypeOK, DriverStates
  <2>6. QED
    BY <1>1, <2>4, <2>5
<1>12. CASE reset
  <2>1. DriverTypeOK'
    BY <1>3, <1>12 DEF reset, Return, DriverTypeOK
  <2>2. LinkTypeOK'
    BY <1>12, ReadReplyType DEF reset, Return, LinkTypeOK, DriverStates
  <2>3. QED
    BY <1>1, <2>1, <2>2
<1>13. CASE ping
  <2>1. version' \in Octet
    BY <1>13 DEF ping, to_uint8, Octet
  <2>2. DriverTypeOK'
    BY <1>3, <1>13, <2>1 DEF ping, Return, DriverTypeOK
  <2>3. LinkTypeOK'
    BY <1>13, ReadReplyType DEF ping, Return, LinkTypeOK, DriverStates
  <2>4. QED
    BY <1>1, <2>2, <2>3
<1>14. CASE generic_read
  <2>1. PICK junk \in HeapJunk :
          LET val  == read_bit_value(received(Reply, junk), REPLY_ID_BITS_NB,
                                     get_type_bits_nb(call.pin_mode))
              read == [p \in {call.pin_id} |-> val]
          IN  ReturnStoring([conn EXCEPT !.pins_val = store(@, read)], Vals(read))
    BY <1>14 DEF generic_read
  <2> DEFINE val  == read_bit_value(received(Reply, junk), REPLY_ID_BITS_NB,
                                    get_type_bits_nb(call.pin_mode))
             read == [p \in {call.pin_id} |-> val]
  <2>2. call.pin_id \in PinIds
    BY <1>14, ReadReplyType DEF generic_read, WellFormed, PinOps
  <2>3. val \in Word
    BY ReadType
  <2> HIDE DEF val
  <2>4. read \in [{call.pin_id} -> Word] /\ {call.pin_id} \in SUBSET PinIds
    BY <2>2, <2>3
  <2> HIDE DEF read
  <2>5. ReturnStoring([conn EXCEPT !.pins_val = store(@, read)], Vals(read))
    BY <2>1 DEF read, val
  <2>6. DriverTypeOK' /\ drv' \in DriverStates
    BY <2>4, <2>5, OutputType, StoreValsType
  <2>7. LinkTypeOK'
    BY <1>14, <2>6, ReadReplyType DEF generic_read, LinkTypeOK
  <2>8. QED
    BY <1>1, <2>6, <2>7
<1>15. CASE read_value_mask
  <2>1. PICK junk \in HeapJunk :
          LET read == read_value_list(received(Reply, junk), REPLY_ID_BITS_NB,
                                      call.mask, get_type_bits_nb(call.type))
          IN  ReturnStoring([conn EXCEPT !.pins_val = store(@, read)], Vals(read))
    BY <1>15 DEF read_value_mask
  <2> DEFINE read == read_value_list(received(Reply, junk), REPLY_ID_BITS_NB,
                                     call.mask, get_type_bits_nb(call.type))
  <2>2. call.mask \in SUBSET PinIds
    BY <1>15, ReadReplyType DEF read_value_mask, WellFormed, MaskOps
  <2>3. read \in [call.mask -> Word]
    BY ReadType DEF read_value_list
  <2> HIDE DEF read
  <2>4. ReturnStoring([conn EXCEPT !.pins_val = store(@, read)], Vals(read))
    BY <2>1 DEF read
  <2>5. DriverTypeOK' /\ drv' \in DriverStates
    BY <2>2, <2>3, <2>4, OutputType, StoreValsType
  <2>6. LinkTypeOK'
    BY <1>15, <2>5, ReadReplyType DEF read_value_mask, LinkTypeOK
  <2>7. QED
    BY <1>1, <2>5, <2>6
<1>16. CASE generic_write
  <2> DEFINE written == [p \in {call.pin_id} |-> call.val]
  <2>1. call.val \in Word
    BY <1>16, ReadReplyType DEF generic_write, WellFormed
  <2>2. written \in [{call.pin_id} -> Word]
    BY <2>1
  <2> HIDE DEF written
  <2>3. ReturnStoring([conn EXCEPT !.pins_val = store(@, written)], NoOut)
    BY <1>16 DEF generic_write, written
  <2>4. DriverTypeOK' /\ drv' \in DriverStates
    BY <1>3, <2>2, <2>3, StoreValsType
  <2>5. LinkTypeOK'
    BY <1>16, <2>4, ReadReplyType DEF generic_write, LinkTypeOK
  <2>6. QED
    BY <1>1, <2>4, <2>5
<1>17. CASE write_value_mask
  <2>1. call.values \in [call.mask -> Word]
    BY <1>17, ReadReplyType DEF write_value_mask, WellFormed
  <2>2. DriverTypeOK' /\ drv' \in DriverStates
    BY <1>3, <1>17, <2>1, StoreValsType DEF write_value_mask
  <2>3. LinkTypeOK'
    BY <1>17, <2>2, ReadReplyType DEF write_value_mask, LinkTypeOK
  <2>4. QED
    BY <1>1, <2>2, <2>3
<1>18. CASE get_type
  <2>1. PICK junk \in HeapJunk :
          LET type == read_bit_value(received(Reply, junk), REPLY_ID_BITS_NB,
                                     PIN_TYPE_BITS_NB)
              read == [p \in {call.pin_id} |-> type]
          IN  ReturnStoring([conn EXCEPT !.pins_type = store(@, read)], Types(read))
    BY <1>18 DEF get_type
  <2> DEFINE type == read_bit_value(received(Reply, junk), REPLY_ID_BITS_NB,
                                    PIN_TYPE_BITS_NB)
             read == [p \in {call.pin_id} |-> type]
  <2>2. call.pin_id \in PinIds
    BY <1>18, ReadReplyType DEF get_type, WellFormed, PinOps
  <2>3. type \in PinType
    BY ReadPinType DEF REPLY_ID_BITS_NB
  <2> HIDE DEF type
  <2>4. /\ read \in [{call.pin_id} -> PinType] /\ read \in [{call.pin_id} -> Word]
        /\ {call.pin_id} \in SUBSET PinIds
    BY <1>2, <2>2, <2>3
  <2> HIDE DEF read
  <2>5. ReturnStoring([conn EXCEPT !.pins_type = store(@, read)], Types(read))
    BY <2>1 DEF read, type
  <2>6. DriverTypeOK' /\ drv' \in DriverStates
    BY <2>4, <2>5, OutputType, StoreTypesType
  <2>7. LinkTypeOK'
    BY <1>18, <2>6, ReadReplyType DEF get_type, LinkTypeOK
  <2>8. QED
    BY <1>1, <2>6, <2>7
<1>19. CASE get_type_mask
  <2>1. PICK junk \in HeapJunk :
          LET types == read_value_list(received(Reply, junk), REPLY_ID_BITS_NB,
                                       call.mask, PIN_TYPE_BITS_NB)
          IN  ReturnStoring([conn EXCEPT !.pins_type = store(@, types)], Types(types))
    BY <1>19 DEF get_type_mask
  <2> DEFINE types == read_value_list(received(Reply, junk), REPLY_ID_BITS_NB,
                                      call.mask, PIN_TYPE_BITS_NB)
  <2>2. call.mask \in SUBSET PinIds
    BY <1>19, ReadReplyType DEF get_type_mask, WellFormed, MaskOps
  <2>3. types \in [call.mask -> PinType]
    BY <2>2, ReadListOfTypes DEF REPLY_ID_BITS_NB
  <2> HIDE DEF types
  <2>4. types \in [call.mask -> Word]
    BY <1>2, <2>3
  <2>5. ReturnStoring([conn EXCEPT !.pins_type = store(@, types)], Types(types))
    BY <2>1 DEF types
  <2>6. DriverTypeOK' /\ drv' \in DriverStates
    BY <2>2, <2>3, <2>4, <2>5, OutputType, StoreTypesType
  <2>7. LinkTypeOK'
    BY <1>19, <2>6, ReadReplyType DEF get_type_mask, LinkTypeOK
  <2>8. QED
    BY <1>1, <2>6, <2>7
<1>20. CASE set_type
  <2> DEFINE written == [p \in {call.pin_id} |-> call.type]
  <2>1. call.type \in PinType
    BY <1>20, ReadReplyType DEF set_type, WellFormed
  <2>2. written \in [{call.pin_id} -> PinType]
    BY <2>1
  <2> HIDE DEF written
  <2>3. ReturnStoring([conn EXCEPT !.pins_type = store(@, written)], NoOut)
    BY <1>20 DEF set_type, written
  <2>4. DriverTypeOK' /\ drv' \in DriverStates
    BY <1>3, <2>2, <2>3, StoreTypesType
  <2>5. LinkTypeOK'
    BY <1>20, <2>4, ReadReplyType DEF set_type, LinkTypeOK
  <2>6. QED
    BY <1>1, <2>4, <2>5
<1>21. CASE set_type_mask
  <2>1. call.values \in [call.mask -> PinType]
    BY <1>21, ReadReplyType DEF set_type_mask, WellFormed
  <2>2. DriverTypeOK' /\ drv' \in DriverStates
    BY <1>3, <1>21, <2>1, StoreTypesType DEF set_type_mask
  <2>3. LinkTypeOK'
    BY <1>21, <2>2, ReadReplyType DEF set_type_mask, LinkTypeOK
  <2>4. QED
    BY <1>1, <2>2, <2>3
<1>22. CASE get_failsafe
  <2>1. PICK junk \in HeapJunk :
          LET data == received(Reply, junk)
              type == read_type(data, REPLY_ID_BITS_NB + TIMEOUT_BITS_NB)
              val  == read_bit_value(data, 27, get_type_bits_nb(type))
          IN  out' = [vals |-> [p \in {call.pin_id} |-> val],
                      types |-> [p \in {call.pin_id} |-> type], timeout |-> {}]
    BY <1>22 DEF get_failsafe
  <2> DEFINE data == received(Reply, junk)
             type == read_type(data, REPLY_ID_BITS_NB + TIMEOUT_BITS_NB)
             val  == read_bit_value(data, 27, get_type_bits_nb(type))
  <2>2. call.pin_id \in PinIds
    BY <1>22, ReadReplyType DEF get_failsafe, WellFormed, PinOps
  <2>3. type \in Word /\ val \in Word
    BY ReadType DEF read_type, to_uint8, Word
  <2>4. out' = [vals |-> [p \in {call.pin_id} |-> val],
                types |-> [p \in {call.pin_id} |-> type], timeout |-> {}]
    BY <2>1
  <2> HIDE DEF type, val
  <2>5. OutputOK(out')
    BY <2>2, <2>3, <2>4 DEF OutputOK, Word
  <2>6. DriverTypeOK'
    BY <1>22, <2>5 DEF get_failsafe, Return, DriverTypeOK
  <2>7. LinkTypeOK'
    BY <1>22, ReadReplyType DEF get_failsafe, Return, LinkTypeOK, DriverStates
  <2>8. QED
    BY <1>1, <2>6, <2>7
<1>23. CASE get_failsafe_mask
  <2>1. PICK junk \in HeapJunk :
          LET data    == received(Reply, junk)
              offset  == REPLY_ID_BITS_NB + TIMEOUT_BITS_NB
              timeout == read_bit_value(data, REPLY_ID_BITS_NB, TIMEOUT_BITS_NB)
              states  == read_failsafe_states(data, offset, call.mask)
              values  == read_failsafe_values(data, offset, call.mask)
          IN  ReturnStoring([conn EXCEPT !.failsafe =
                                store_failsafe(@, @.timeout, states, values)],
                            [vals |-> values, types |-> states, timeout |-> timeout])
    BY <1>23 DEF get_failsafe_mask
  <2> DEFINE data    == received(Reply, junk)
             offset  == REPLY_ID_BITS_NB + TIMEOUT_BITS_NB
             timeout == read_bit_value(data, REPLY_ID_BITS_NB, TIMEOUT_BITS_NB)
             states  == read_failsafe_states(data, offset, call.mask)
             values  == read_failsafe_values(data, offset, call.mask)
             result  == [vals |-> values, types |-> states, timeout |-> timeout]
  <2>2. call.mask \in SUBSET PinIds
    BY <1>23, ReadReplyType DEF get_failsafe_mask, WellFormed, MaskOps
  <2>3. states \in [call.mask -> Octet] /\ values \in [call.mask -> Word]
    BY ReadFailsafeType
  <2>4. timeout \in Word
    BY ReadType
  <2> HIDE DEF states, values, timeout
  <2>5. states \in [call.mask -> Word]
    BY <2>3, Widenings
  <2>6. OutputOK(result)
    BY <2>2, <2>3, <2>4, <2>5 DEF OutputOK
  <2>7. conn.failsafe.timeout \in Word
    BY DEF DriverTypeOK, Connection, FailsafeOf
  <2> HIDE DEF result
  <2>8. ReturnStoring([conn EXCEPT !.failsafe =
                         store_failsafe(@, conn.failsafe.timeout, states, values)], result)
    BY <2>1 DEF states, values, timeout, result
  <2>9. DriverTypeOK' /\ drv' \in DriverStates
    BY <2>3, <2>6, <2>7, <2>8, StoreFailsafeStatesType
  <2>10. LinkTypeOK'
    BY <1>23, <2>9, ReadReplyType DEF get_failsafe_mask, LinkTypeOK
  <2>11. QED
    BY <1>1, <2>9, <2>10
<1>24. CASE set_failsafe
  <2> DEFINE state == [p \in {call.pin_id} |-> call.type]
             value == [p \in {call.pin_id} |-> call.val]
  <2>1. call.type \in Octet /\ call.val \in Word /\ call.timeout \in Word
    BY <1>24, ReadReplyType, Widenings DEF set_failsafe, WellFormed
  <2>2. state \in [{call.pin_id} -> Octet] /\ value \in [{call.pin_id} -> Word]
    BY <2>1
  <2> HIDE DEF state, value
  <2>3. ReturnStoring([conn EXCEPT !.failsafe =
                         store_failsafe(@, call.timeout, state, value)], NoOut)
    BY <1>24 DEF set_failsafe, state, value
  <2>4. DriverTypeOK' /\ drv' \in DriverStates
    BY <1>3, <2>1, <2>2, <2>3, StoreFailsafeStatesType
  <2>5. LinkTypeOK'
    BY <1>24, <2>4, ReadReplyType DEF set_failsafe, LinkTypeOK
  <2>6. QED
    BY <1>1, <2>4, <2>5
<1>25. CASE set_failsafe_mask
  <2> DEFINE states == [p \in call.mask |-> call.type]
  <2>1. /\ call.type \in Octet /\ call.timeout \in Word
        /\ call.values \in [call.mask -> Word]
    BY <1>25, ReadReplyType, Widenings DEF set_failsafe_mask, WellFormed
  <2>2. states \in [call.mask -> Octet]
    BY <2>1
  <2> HIDE DEF states
  <2>3. ReturnStoring([conn EXCEPT !.failsafe =
                         store_failsafe(@, call.timeout, states, call.values)], NoOut)
    BY <1>25 DEF set_failsafe_mask, states
  <2>4. DriverTypeOK' /\ drv' \in DriverStates
    BY <1>3, <2>1, <2>2, <2>3, StoreFailsafeStatesType
  <2>5. LinkTypeOK'
    BY <1>25, <2>4, ReadReplyType DEF set_failsafe_mask, LinkTypeOK
  <2>6. QED
    BY <1>1, <2>4, <2>5
<1>26. QED
  BY <1>4, <1>5, <1>6, <1>7, <1>8, <1>9, <1>10, <1>11, <1>12, <1>13, <1>14, <1>15,
     <1>16, <1>17, <1>18, <1>19, <1>20, <1>21, <1>22, <1>23, <1>24, <1>25
     DEF DriverNext, DriverOpens, DriverReturns, ApplicationNext

-----------------------------------------------------------------------------
(* Type correctness under the device's steps.                              *)

\* One byte of a buffer.
LEMMA ByteType ==
    ASSUME NEW k \in Nat, NEW n
    PROVE  /\ byte(k, ToBits(n)) \in SUBSET Nat
           /\ byte(k, pins_mask_type) \in SUBSET Nat
           /\ byte(k, device_protocol_version) \in SUBSET Nat
<1>1. \A j \in 0..7 : 8 * k + 7 - j \in Nat
  OBVIOUS
<1>2. /\ ToBits(n) \in SUBSET (0..7)
      /\ pins_mask_type \in SUBSET (0..7)
      /\ device_protocol_version \in SUBSET (0..7)
  BY DEF ToBits, pins_mask_type, device_protocol_version
<1>3. QED
  BY <1>1, <1>2 DEF byte

\* The pins a request names.
LEMMA RequestedType ==
    ASSUME NEW data
    PROVE  requested_pins(data) \in SUBSET PinIds
<1>1. NB_PINS \in Nat /\ NB_PINS < 256
  BY FirmwareAssumption DEF UINT8
<1>2. \A p \in 0 .. NB_PINS - 1 : p \in Nat /\ p < 255
  BY <1>1
<1>3. QED
  BY <1>2 DEF requested_pins, read_mask, PinIds

\* A reply leaves the link, the reply id and the request in their types.
LEMMA SendReplyType ==
    ASSUME LinkTypeOK, DeviceTypeOK, NEW cmd \in 0..15, NEW size \in Nat,
           NEW data \in SUBSET Nat, send_reply(cmd, size, data)
    PROVE  LinkTypeOK' /\ ID' \in Nat /\ ID' < IdModulus /\ req' = NoPacket
<1> DEFINE all == byte(0, ToBits(ID)) \cup data
           p   == packet(cmd, REP_CODE_SUCCESS, size, all)
<1>1. all \in SUBSET Nat
  BY ByteType
<1> HIDE DEF all
<1>2. REP_CODE_SUCCESS \in SUBSET (0..3)
  BY DEF REP_CODE_SUCCESS
<1>3. p \in Packet
  BY <1>1, <1>2, PacketType
<1> HIDE DEF p
<1>4. connection_write(device2driver, p) \in Seq(Packet)
  BY <1>3, PipeType DEF LinkTypeOK
<1>5. /\ dev' \in {"killed", "loop"}
      /\ device2driver' \in {device2driver, connection_write(device2driver, p)}
  BY DEF send_reply, p, all
<1>6. LinkTypeOK'
  BY <1>4, <1>5 DEF send_reply, LinkTypeOK, DeviceStates
<1>7. ID' \in Nat /\ ID' < IdModulus
  BY FirmwareAssumption DEF send_reply, next_reply_id, DeviceTypeOK
<1>8. QED
  BY <1>6, <1>7 DEF send_reply

\* A reply that leaves the device's pins alone, or well typed.
LEMMA ReplyType ==
    ASSUME LinkTypeOK, DeviceTypeOK, NEW cmd \in 0..15, NEW size \in Nat,
           NEW data \in SUBSET Nat, send_reply(cmd, size, data),
           device' \in DeviceState
    PROVE  LinkTypeOK' /\ DeviceTypeOK'
BY SendReplyType DEF DeviceTypeOK

\* The pin states of the device.
LEMMA DeviceStateType ==
    ASSUME DeviceTypeOK
    PROVE  /\ device.pins_type \in [Pins -> PinType]
           /\ device.pins_val \in [Pins -> Word]
           /\ device.failsafe \in FailsafeOf(Pins)
BY DEF DeviceTypeOK, DeviceState

\* The reply to a read.
LEMMA ReplyReadType ==
    ASSUME LinkTypeOK, DeviceTypeOK, UNCHANGED device, NEW data,
           reply_read_mask(data) \/ reply_read_pin(data)
    PROVE  LinkTypeOK' /\ DeviceTypeOK'
<1> DEFINE bits == get_type_bits_nb(param_type(req))
           m    == requested_pins(data)
           val  == device.pins_val[requested_pin(data)]
<1>1. bits \in {0, 1, 3, 8, 16} /\ bits \in Nat /\ CMD_READ \in 0..15
  BY WidthType DEF CMD_READ
<1>2. REPLY_ID_BITS_NB \in Nat /\ {} \in SUBSET Nat
  BY DEF REPLY_ID_BITS_NB
<1>3. m \in SUBSET PinIds
  BY RequestedType
<1>4. device' \in DeviceState
  BY DEF DeviceTypeOK
<1> HIDE DEF bits, m, val
<1>5. CASE reply_read_mask(data)
  <2> DEFINE size == BITS2BYTES(REPLY_ID_BITS_NB + mask_nb_pins_used(m, NB_PINS) * bits)
             list == write_value_list({}, REPLY_ID_BITS_NB, m, device.pins_val, bits)
  <2>1. mask_nb_pins_used(m, NB_PINS) \in Nat
    BY <1>3, CountType DEF UINT8
  <2>2. REPLY_ID_BITS_NB + mask_nb_pins_used(m, NB_PINS) * bits \in Nat
    BY <1>1, <1>2, <2>1
  <2>3. size \in Nat /\ list \in SUBSET Nat
    BY <1>1, <1>2, <1>3, <2>2, BytesType, WriteListType
  <2>4. send_reply(CMD_READ, size, list)
    BY <1>5 DEF reply_read_mask, bits, m
  <2> HIDE DEF size, list
  <2>5. QED
    BY <1>1, <1>4, <2>3, <2>4, ReplyType
<1>6. CASE reply_read_pin(data)
  <2> DEFINE size  == BITS2BYTES(REPLY_ID_BITS_NB + bits)
             field == write_bit_value({}, REPLY_ID_BITS_NB, val, bits)
  <2>1. size \in Nat /\ field \in SUBSET Nat
    BY <1>1, <1>2, BytesType, WriteType
  <2>2. send_reply(CMD_READ, size, field)
    BY <1>6 DEF reply_read_pin, bits, val
  <2> HIDE DEF size, field
  <2>3. QED
    BY <1>1, <1>4, <2>1, <2>2, ReplyType
<1>7. QED
  BY <1>5, <1>6

\* The reply to a question about types.
LEMMA ReplyGetTypeType ==
    ASSUME LinkTypeOK, DeviceTypeOK, UNCHANGED device, NEW data,
           reply_get_type_mask(data) \/ reply_get_type_pin(data)
    PROVE  LinkTypeOK' /\ DeviceTypeOK'
<1> DEFINE m    == requested_pins(data)
           type == device.pins_type[requested_pin(data)]
<1>1. CMD_SET_TYPE \in 0..15 /\ PIN_TYPE_BITS_NB = 3 /\ PIN_TYPE_BITS_NB \in Nat
  BY DEF CMD_SET_TYPE, PIN_TYPE_BITS_NB
<1>2. REPLY_ID_BITS_NB \in Nat /\ {} \in SUBSET Nat
  BY DEF REPLY_ID_BITS_NB
<1>3. m \in SUBSET PinIds
  BY RequestedType
<1>4. device' \in DeviceState
  BY DEF DeviceTypeOK
<1> HIDE DEF m, type
<1>5. CASE reply_get_type_mask(data)
  <2> DEFINE size == 1 + BITS2BYTES_unsigned(mask_nb_pins_used(m, NB_PINS)
                                               * PIN_TYPE_BITS_NB)
             list == write_value_list({}, REPLY_ID_BITS_NB, m, device.pins_type,
                                      PIN_TYPE_BITS_NB)
  <2>1. mask_nb_pins_used(m, NB_PINS) \in Nat
    BY <1>3, CountType DEF UINT8
  <2>2. mask_nb_pins_used(m, NB_PINS) * PIN_TYPE_BITS_NB \in Nat
    BY <1>1, <2>1
  <2>3. size \in Nat /\ list \in SUBSET Nat
    BY <1>1, <1>2, <1>3, <2>2, BytesType, WriteListType
  <2>4. send_reply(CMD_SET_TYPE, size, list)
    BY <1>5 DEF reply_get_type_mask, m
  <2> HIDE DEF size, list
  <2>5. QED
    BY <1>1, <1>4, <2>3, <2>4, ReplyType
<1>6. CASE reply_get_type_pin(data)
  <2> DEFINE size  == 1 + BITS2BYTES(PIN_TYPE_BITS_NB)
             field == write_bit_value({}, REPLY_ID_BITS_NB, type, PIN_TYPE_BITS_NB)
  <2>1. size \in Nat /\ field \in SUBSET Nat
    BY <1>1, <1>2, BytesType, WriteType
  <2>2. send_reply(CMD_SET_TYPE, size, field)
    BY <1>6 DEF reply_get_type_pin, type
  <2> HIDE DEF size, field
  <2>3. QED
    BY <1>1, <1>4, <2>1, <2>2, ReplyType
<1>7. QED
  BY <1>5, <1>6

\* The reply to a question about failsafe states.
LEMMA ReplyGetFailsafeType ==
    ASSUME LinkTypeOK, DeviceTypeOK, UNCHANGED device, NEW data,
           reply_get_failsafe_mask(data) \/ reply_get_failsafe_pin(data)
    PROVE  LinkTypeOK' /\ DeviceTypeOK'
<1> DEFINE m       == requested_pins(data)
           timeout == write_bit_value({}, REPLY_ID_BITS_NB, device.failsafe.timeout,
                                      TIMEOUT_BITS_NB)
<1>1. /\ CMD_SET_TYPE \in 0..15 /\ PIN_TYPE_BITS_NB \in Nat
      /\ 24 \in Nat /\ 27 \in Nat
  BY DEF CMD_SET_TYPE, PIN_TYPE_BITS_NB
<1>2. timeout \in SUBSET Nat
  BY WriteType DEF REPLY_ID_BITS_NB, TIMEOUT_BITS_NB
<1>3. m \in SUBSET PinIds
  BY RequestedType
<1>4. device' \in DeviceState
  BY DEF DeviceTypeOK
<1> HIDE DEF m, timeout
<1>5. CASE reply_get_failsafe_mask(data)
  <2> DEFINE bits == failsafe_nb_bits(device.failsafe, m)
             size == (3 + BITS2BYTES(bits)) % 256
             list == write_failsafe(24, device.failsafe, m)
  <2>1. bits \in Nat
    BY <1>3, FailsafeBitsType
  <2> HIDE DEF bits
  <2>2. size \in Nat
    BY <2>1, BytesType
  <2>3. list \in SUBSET Nat
    BY <1>1, <1>3, WriteFailsafeType
  <2>4. send_reply(CMD_SET_TYPE, size, timeout \cup list)
    BY <1>5 DEF reply_get_failsafe_mask, m, timeout, bits
  <2> HIDE DEF size, list
  <2>5. timeout \cup list \in SUBSET Nat
    BY <1>2, <2>3
  <2>6. QED
    BY <1>1, <1>4, <2>2, <2>4, <2>5, ReplyType
<1>6. CASE reply_get_failsafe_pin(data)
  <2> DEFINE pin_type == device.failsafe.pin_state[requested_pin(data)]
             val_bits == get_type_bits_nb(pin_type)
             val      == device.failsafe.pin_value[requested_pin(data)]
             size     == 3 + BITS2BYTES(PIN_TYPE_BITS_NB + val_bits)
             type     == write_bit_value({}, 24, pin_type, PIN_TYPE_BITS_NB)
             field    == write_bit_value({}, 27, val, val_bits)
  <2>1. val_bits \in Nat
    BY WidthType
  <2>2. type \in SUBSET Nat /\ field \in SUBSET Nat
    BY <1>1, <2>1, WriteType
  <2>3. size \in Nat
    <3>1. PIN_TYPE_BITS_NB + val_bits \in Nat
      BY <1>1, <2>1
    <3>2. BITS2BYTES(PIN_TYPE_BITS_NB + val_bits) \in Nat
      BY <3>1, BytesType
    <3>3. QED
      BY <3>2
  <2>4. send_reply(CMD_SET_TYPE, size, timeout \cup type \cup field)
    BY <1>6 DEF reply_get_failsafe_pin, timeout
  <2> HIDE DEF size, type, field
  <2>5. timeout \cup type \cup field \in SUBSET Nat
    BY <1>2, <2>2
  <2>6. QED
    BY <1>1, <1>4, <2>3, <2>4, <2>5, ReplyType
<1>7. QED
  BY <1>5, <1>6

\* What the handlers that change the pins leave in them.
LEMMA TreatType ==
    ASSUME DeviceTypeOK, NEW data
    PROVE  /\ treat_write(data) \in DeviceState
           /\ treat_set_type(data) \in DeviceState
<1> DEFINE m   == requested_pins(data)
           pin == requested_pin(data)
<1>1. /\ device \in DeviceState
      /\ device.pins_type \in [Pins -> PinType]
      /\ device.pins_val \in [Pins -> Word]
  BY DeviceStateType DEF DeviceTypeOK
<1>2. PINS_NO_BITS_NB \in Nat /\ NB_PINS \in Nat
  BY FirmwareAssumption DEF PINS_NO_BITS_NB, UINT8
<1>3. m \in SUBSET PinIds
  BY RequestedType
<1> HIDE DEF m, pin
<1>4. ASSUME NEW types \in [Pins -> PinType]
      PROVE  [device EXCEPT !.pins_type = types] \in DeviceState
  BY <1>1 DEF DeviceState
<1>5. ASSUME NEW vals \in [Pins -> Word]
      PROVE  [device EXCEPT !.pins_val = vals] \in DeviceState
  BY <1>1 DEF DeviceState
<1>6. treat_write_pin(data) \in DeviceState
  <2> DEFINE val == read_bit_value(data, PINS_NO_BITS_NB,
                                   get_type_bits_nb(param_type(req)))
  <2>1. val \in Word /\ param_type(req) \in PinType
    BY ReadType, ParamTypeRead
  <2> HIDE DEF val
  <2>2. /\ [device.pins_type EXCEPT ![pin] = param_type(req)] \in [Pins -> PinType]
        /\ [device.pins_val EXCEPT ![pin] = val] \in [Pins -> Word]
    BY <1>1, <2>1
  <2>3. [device EXCEPT !.pins_type[pin] = param_type(req), !.pins_val[pin] = val]
          \in DeviceState
    BY <1>1, <2>2 DEF DeviceState
  <2>4. QED
    BY <2>3 DEF treat_write_pin, pin, val
<1>7. treat_write_mask(data) \in DeviceState
  <2> DEFINE values == read_value_list(data, NB_PINS, m, get_type_bits_nb(param_type(req)))
             read   == [p \in m |-> to_uint8(values[p])]
  <2>1. read \in [m -> Word]
    BY DEF to_uint8, Word
  <2> HIDE DEF read
  <2>2. store(device.pins_val, read) \in [Pins -> Word]
    BY <1>1, <2>1, StoreType
  <2>3. [device EXCEPT !.pins_val = store(@, read)] \in DeviceState
    BY <1>1, <1>5, <2>2
  <2>4. QED
    BY <2>3 DEF treat_write_mask, read, m
<1>8. treat_set_type(data) \in DeviceState
  <2> DEFINE types == read_value_list(data, NB_PINS, m, PIN_TYPE_BITS_NB)
             type  == read_bit_value(data, PINS_NO_BITS_NB, PIN_TYPE_BITS_NB)
  <2>1. types \in [m -> PinType] /\ type \in PinType
    BY <1>2, <1>3, ReadListOfTypes, ReadPinType
  <2> HIDE DEF types, type
  <2>2. store(device.pins_type, types) \in [Pins -> PinType]
    BY <1>1, <2>1, StoreType
  <2>3. [device EXCEPT !.pins_type = store(@, types)] \in DeviceState
    BY <1>1, <1>4, <2>2
  <2>4. [device.pins_type EXCEPT ![pin] = type] \in [Pins -> PinType]
    BY <1>1, <2>1
  <2>5. [device EXCEPT !.pins_type[pin] = type] \in DeviceState
    BY <1>1, <2>4 DEF DeviceState
  <2>6. QED
    BY <2>3, <2>5 DEF treat_set_type, types, type, m, pin
<1>9. QED
  BY <1>6, <1>7, <1>8 DEF treat_write

\* What set_failsafe leaves in them.
LEMMA TreatFailsafeType ==
    ASSUME DeviceTypeOK, NEW data
    PROVE  treat_set_failsafe(data) \in DeviceState
<1> DEFINE timeout  == read_bit_value(data, 0, TIMEOUT_BITS_NB)
           type     == param_type(req)
           m        == IF use_mask(req) THEN read_mask(data, TIMEOUT_BITS_NB, NB_PINS)
                       ELSE {FromBits(read_bit_value(data, TIMEOUT_BITS_NB,
                                                     PINS_NO_BITS_NB))}
           first    == TIMEOUT_BITS_NB
                         + (IF use_mask(req) THEN NB_PINS ELSE PINS_NO_BITS_NB)
           states   == [p \in m |-> type]
           values   == read_value_list(data, first, m, get_type_bits_nb(type))
<1>1. device \in DeviceState /\ device.failsafe \in FailsafeOf(Pins)
  BY DeviceStateType DEF DeviceTypeOK
<1>2. timeout \in Word /\ type \in Octet
  BY ReadType, ParamTypeRead, Widenings
<1> HIDE DEF m, first, type, timeout
<1>3. states \in [m -> Octet]
  BY <1>2
<1>4. values \in [m -> Word]
  BY ReadType DEF read_value_list
<1> HIDE DEF states, values
<1>5. store_failsafe(device.failsafe, timeout, states, values) \in FailsafeOf(Pins)
  BY <1>1, <1>2, <1>3, <1>4, FailsafeType
<1>6. [device EXCEPT !.failsafe = store_failsafe(@, timeout, states, values)]
        \in DeviceState
  BY <1>1, <1>5 DEF DeviceState
<1>7. QED
  BY <1>6 DEF treat_set_failsafe, timeout, type, m, first, states, values

\* The device's steps keep every variable in its type.
LEMMA DeviceKeepsType ==
    ASSUME TypeOK, DeviceNext, UNCHANGED driverVars
    PROVE  TypeOK'
<1>1. LinkTypeOK /\ DriverTypeOK /\ DeviceTypeOK
  BY DEF TypeOK
<1>2. DriverTypeOK'
  BY <1>1 DEF driverVars, DriverTypeOK
<1>3. device \in DeviceState
  BY <1>1 DEF DeviceTypeOK
<1> SUFFICES LinkTypeOK' /\ DeviceTypeOK'
  BY <1>2 DEF TypeOK
<1>4. CASE init_communication
  BY <1>1, <1>4 DEF init_communication, LinkTypeOK, DeviceTypeOK, deviceVars, pipes,
                    DeviceStates, Ends
<1>5. CASE open_out_done
  BY <1>1, <1>5 DEF open_out_done, LinkTypeOK, DeviceTypeOK, deviceVars, pipes,
                    DeviceStates, Ends
<1>6. CASE open_in_done
  BY <1>1, <1>6 DEF open_in_done, LinkTypeOK, DeviceTypeOK, deviceVars, pipes,
                    DeviceStates
<1>7. CASE mainloop_read
  <2>1. unread(driver2device) \in Seq(Packet)
    BY DEF unread
  <2>2. Head(driver2device) \in Packet
    BY <1>1, <1>7 DEF mainloop_read, LinkTypeOK
  <2>3. LinkTypeOK'
    BY <1>1, <1>7, <2>1 DEF mainloop_read, LinkTypeOK, DeviceStates
  <2>4. DeviceTypeOK'
    BY <1>1, <1>7, <2>2 DEF mainloop_read, DeviceTypeOK
  <2>5. QED
    BY <2>3, <2>4
<1>8. CASE mainloop_end
  BY <1>1, <1>8 DEF mainloop_end, LinkTypeOK, DeviceTypeOK, deviceVars, pipes,
                    DeviceStates
<1>9. CASE DeviceKilled
  BY <1>1, <1>9 DEF DeviceKilled, LinkTypeOK, DeviceTypeOK, deviceVars, pipes,
                    DeviceStates
<1>10. CASE reply_reset
  BY <1>1, <1>10 DEF reply_reset, no_reply, LinkTypeOK, DeviceTypeOK, pipes,
                     DeviceStates
<1>11. CASE reply_get_caps
  <2> DEFINE size == NB_PINS + 2
             data == byte(1, ToBits(NB_PINS))
                       \cup UNION {byte(p + 2, pins_mask_type) : p \in Pins}
  <2>1. size \in Nat /\ 0 \in 0..15
    BY FirmwareAssumption DEF UINT8
  <2>2. \A p \in Pins : byte(p + 2, pins_mask_type) \in SUBSET Nat
    <3>1. \A p \in Pins : p + 2 \in Nat
      BY FirmwareAssumption DEF Pins, UINT8
    <3>2. QED
      BY <3>1, ByteType
  <2>3. byte(1, ToBits(NB_PINS)) \in SUBSET Nat
    BY ByteType
  <2>4. data \in SUBSET Nat
    BY <2>2, <2>3
  <2>5. send_reply(0, size, data)
    BY <1>11 DEF reply_get_caps, CMD_GET_CAPS
  <2>6. UNCHANGED device
    BY <1>11 DEF reply_get_caps
  <2> HIDE DEF size, data
  <2>7. QED
    BY <1>1, <1>3, <2>1, <2>4, <2>5, <2>6, ReplyType
<1>12. CASE reply_ping
  <2>1. byte(1, device_protocol_version) \in SUBSET Nat /\ 2 \in Nat /\ 0 \in 0..15
    BY ByteType
  <2>2. send_reply(0, 2, byte(1, device_protocol_version)) /\ UNCHANGED device
    BY <1>12 DEF reply_ping, CMD_GET_CAPS
  <2>3. QED
    BY <1>1, <1>3, <2>1, <2>2, ReplyType
<1>13. CASE reply_read
  <2>1. PICK junk \in HeapJunk :
          LET data == received(req, junk)
          IN  IF use_mask(req) THEN reply_read_mask(data) ELSE reply_read_pin(data)
    BY <1>13 DEF reply_read
  <2>2. UNCHANGED device
    BY <1>13 DEF reply_read
  <2>3. QED
    BY <1>1, <2>1, <2>2, ReplyReadType
<1>14. CASE reply_write
  <2>1. PICK junk \in HeapJunk : device' = treat_write(received(req, junk))
    BY <1>14 DEF reply_write
  <2>2. device' \in DeviceState
    BY <1>1, <2>1, TreatType
  <2>3. send_reply(4, 1, {})
    BY <1>14 DEF reply_write, CMD_WRITE
  <2>4. 4 \in 0..15 /\ 1 \in Nat /\ {} \in SUBSET Nat
    OBVIOUS
  <2>5. QED
    BY <1>1, <2>2, <2>3, <2>4, ReplyType
<1>15. CASE reply_get_type
  <2>1. PICK junk \in HeapJunk :
          LET data == received(req, junk)
          IN  IF use_mask(req) THEN reply_get_type_mask(data)
              ELSE reply_get_type_pin(data)
    BY <1>15 DEF reply_get_type
  <2>2. UNCHANGED device
    BY <1>15 DEF reply_get_type
  <2>3. QED
    BY <1>1, <2>1, <2>2, ReplyGetTypeType
<1>16. CASE reply_set_type
  <2>1. PICK junk \in HeapJunk : device' = treat_set_type(received(req, junk))
    BY <1>16 DEF reply_set_type
  <2>2. device' \in DeviceState
    BY <1>1, <2>1, TreatType
  <2>3. send_reply(6, 1, {})
    BY <1>16 DEF reply_set_type, CMD_SET_TYPE
  <2>4. 6 \in 0..15 /\ 1 \in Nat /\ {} \in SUBSET Nat
    OBVIOUS
  <2>5. QED
    BY <1>1, <2>2, <2>3, <2>4, ReplyType
<1>17. CASE reply_get_failsafe
  <2>1. PICK junk \in HeapJunk :
          LET data == received(req, junk)
          IN  IF use_mask(req) THEN reply_get_failsafe_mask(data)
              ELSE reply_get_failsafe_pin(data)
    BY <1>17 DEF reply_get_failsafe
  <2>2. UNCHANGED device
    BY <1>17 DEF reply_get_failsafe
  <2>3. QED
    BY <1>1, <2>1, <2>2, ReplyGetFailsafeType
<1>18. CASE reply_set_failsafe
  <2>1. PICK junk \in HeapJunk : device' = treat_set_failsafe(received(req, junk))
    BY <1>18 DEF reply_set_failsafe
  <2>2. device' \in DeviceState
    BY <1>1, <2>1, TreatFailsafeType
  <2>3. send_reply(6, 1, {})
    BY <1>18 DEF reply_set_failsafe, CMD_SET_TYPE
  <2>4. 6 \in 0..15 /\ 1 \in Nat /\ {} \in SUBSET Nat
    OBVIOUS
  <2>5. QED
    BY <1>1, <2>2, <2>3, <2>4, ReplyType
<1>19. QED
  BY <1>4, <1>5, <1>6, <1>7, <1>8, <1>9, <1>10, <1>11, <1>12, <1>13, <1>14, <1>15,
     <1>16, <1>17, <1>18 DEF DeviceNext, DeviceRuns

\* TypeOK: every variable keeps the type of the C data it stands for, under every
\* interleaving of the two processes and whatever the heap holds.
THEOREM TypeCorrect == Spec => []TypeOK
<1>1. ASSUME TypeOK, [Next]_vars
      PROVE  TypeOK'
  <2>1. CASE DriverNext /\ UNCHANGED deviceVars
    BY <1>1, <2>1, DriverKeepsType
  <2>2. CASE DeviceNext /\ UNCHANGED driverVars
    BY <1>1, <2>2, DeviceKeepsType
  <2>3. CASE UNCHANGED vars
    BY <1>1, <2>3 DEF vars, linkVars, driverVars, deviceVars, pipes,
                      TypeOK, LinkTypeOK, DriverTypeOK, DeviceTypeOK
  <2>4. QED
    BY <1>1, <2>1, <2>2, <2>3 DEF Next, Finished
<1>2. QED
  BY <1>1, TypeInit, PTL DEF Spec

-----------------------------------------------------------------------------
(* One packet at a time.                                                   *)

\* StopAndWait alone is not inductive: that a call may start when nothing is on its
\* way follows from no call being pending while the driver is idle.
StopAndWaitInv ==
    /\ StopAndWait
    /\ drv \in {"start", "open_in", "open_out", "idle"} => call = NoCall

\* A served request is not NoPacket, and a call is not NoCall.
LEMMA NotNone ==
    /\ \A cmd \in 0..15 : serving(cmd) => req # NoPacket
    /\ \A c \in Calls : c # NoCall
BY CallsAssumption DEF serving, NoPacket, NoCall, WellFormed, PinOps, MaskOps

\* How the lengths of the pipes change.
LEMMA PipeLength ==
    ASSUME NEW pipe \in Seq(Packet), NEW p
    PROVE  /\ Len(pipe) \in Nat
           /\ pipe # << >> => Len(pipe) >= 1
           /\ Len(unread(pipe)) = 0
           /\ p \in Packet => Len(connection_write(pipe, p)) = Len(pipe) + 1
BY DEF unread, connection_write

\* read_reply takes the one packet there is.
LEMMA ReadReplyEmpties ==
    ASSUME TypeOK, StopAndWait, NEW op, read_reply(op), UNCHANGED deviceVars
    PROVE  InFlight' = 0 /\ drv = "waiting"
<1>1. Len(driver2device) \in Nat /\ Len(device2driver) \in Nat
  BY PipeLength DEF TypeOK, LinkTypeOK
<1>2. Len(device2driver) >= 1 /\ Len(device2driver') = 0
  BY PipeLength DEF TypeOK, LinkTypeOK, read_reply
<1>3. Len(driver2device) = 0 /\ req = NoPacket
  BY <1>1, <1>2 DEF StopAndWait, InFlight
<1>4. QED
  BY <1>2, <1>3 DEF InFlight, read_reply, deviceVars

\* The driver's steps keep StopAndWaitInv: a request starts when nothing is on its
\* way, and the return of a call takes the one packet there is.
LEMMA DriverStopsAndWaits ==
    ASSUME TypeOK, StopAndWaitInv, DriverNext, UNCHANGED deviceVars
    PROVE  StopAndWaitInv'
<1>1. Len(driver2device) \in Nat /\ Len(device2driver) \in Nat
  BY PipeLength DEF TypeOK, LinkTypeOK
<1>2. ASSUME InFlight' = 0, drv' # "idle" \/ call' = NoCall, drv = "waiting",
             drv' \in {"waiting", "idle", "killed"}
      PROVE  StopAndWaitInv'
  BY <1>2 DEF StopAndWaitInv, StopAndWait
<1>3. CASE connection_open_in
  BY <1>3 DEF connection_open_in, StopAndWaitInv, StopAndWait, InFlight, pipes,
              driverVars, deviceVars
<1>4. CASE DriverOpens
  BY <1>4 DEF DriverOpens, connection_open_out, connection_opened, StopAndWaitInv,
              StopAndWait, InFlight, pipes, driverVars, deviceVars
<1>5. CASE connection_close \/ DriverKilled \/ read_reply_failed
  BY <1>5 DEF connection_close, DriverKilled, read_reply_failed, StopAndWaitInv,
              StopAndWait, InFlight, pipes, driverVars, deviceVars
<1>6. ASSUME NEW c \in Calls, send_packet(c)
      PROVE  StopAndWaitInv'
  <2>1. call = NoCall /\ drv = "idle"
    BY <1>6 DEF send_packet, StopAndWaitInv
  <2>2. InFlight = 0
    BY <1>1, <2>1 DEF StopAndWaitInv, StopAndWait, InFlight
  <2>3. Len(driver2device) = 0 /\ Len(device2driver) = 0 /\ req = NoPacket
    BY <1>1, <2>2 DEF InFlight
  <2>4. CASE DeviceGone
    BY <1>6, <2>1, <2>4 DEF send_packet, StopAndWaitInv, StopAndWait, InFlight,
                            deviceVars
  <2>5. CASE ~DeviceGone
    <3>1. request(c) \in Packet
      BY <1>6, RequestType DEF send_packet, TypeOK, DriverTypeOK
    <3>2. Len(driver2device') = 1
      <4>1. Len(connection_write(driver2device, request(c))) = Len(driver2device) + 1
        BY <3>1, PipeLength DEF TypeOK, LinkTypeOK
      <4>2. driver2device' = connection_write(driver2device, request(c))
        BY <1>6, <2>5 DEF send_packet
      <4>3. QED
        BY <2>3, <4>1, <4>2
    <3>3. InFlight' = 1
      BY <1>6, <2>3, <3>2 DEF send_packet, InFlight, deviceVars
    <3>4. drv' = "waiting" /\ call' # NoCall
      BY <1>6, <2>5, NotNone DEF send_packet
    <3>5. QED
      BY <3>3, <3>4 DEF StopAndWaitInv, StopAndWait
  <2>6. QED
    BY <2>4, <2>5
<1>7. CASE get_caps \/ reset \/ ping \/ get_failsafe
  <2>1. PICK op \in {"get_caps", "reset", "ping", "get_failsafe"} : read_reply(op)
    BY <1>7 DEF get_caps, reset, ping, get_failsafe
  <2>2. InFlight' = 0 /\ drv = "waiting"
    BY <2>1, ReadReplyEmpties DEF StopAndWaitInv
  <2>3. drv' = "idle" /\ call' = NoCall
    BY <1>7 DEF get_caps, reset, ping, get_failsafe, Return
  <2>4. QED
    BY <1>2, <2>2, <2>3
<1>8. ASSUME NEW op, read_reply(op), NEW newConn, NEW result,
             ReturnStoring(newConn, result)
      PROVE  StopAndWaitInv'
  <2>1. InFlight' = 0 /\ drv = "waiting"
    BY <1>8, ReadReplyEmpties DEF StopAndWaitInv
  <2>2. drv' = "killed" \/ (drv' = "idle" /\ call' = NoCall)
    BY <1>8 DEF ReturnStoring, Return
  <2>3. QED
    BY <1>2, <2>1, <2>2
<1>9. CASE generic_read \/ read_value_mask \/ generic_write \/ write_value_mask
  BY <1>8, <1>9 DEF generic_read, read_value_mask, generic_write, write_value_mask
<1>10. CASE get_type \/ get_type_mask \/ set_type \/ set_type_mask
  BY <1>8, <1>10 DEF get_type, get_type_mask, set_type, set_type_mask
<1>11. CASE get_failsafe_mask \/ set_failsafe \/ set_failsafe_mask
  BY <1>8, <1>11 DEF get_failsafe_mask, set_failsafe, set_failsafe_mask
<1>12. QED
  BY <1>3, <1>4, <1>5, <1>6, <1>7, <1>9, <1>10, <1>11
     DEF DriverNext, DriverReturns, ApplicationNext

\* The device's steps keep it: a reply takes the place of the request it answers.
LEMMA DeviceStopsAndWaits ==
    ASSUME TypeOK, StopAndWaitInv, DeviceNext, UNCHANGED driverVars
    PROVE  StopAndWaitInv'
<1>1. Len(driver2device) \in Nat /\ Len(device2driver) \in Nat
  BY PipeLength DEF TypeOK, LinkTypeOK
<1>2. ASSUME UNCHANGED <<drv, pipes, deviceVars>>
      PROVE  StopAndWaitInv'
  BY <1>2 DEF StopAndWaitInv, StopAndWait, InFlight, pipes, driverVars, deviceVars
<1>3. CASE init_communication \/ open_out_done \/ open_in_done \/ mainloop_end
             \/ DeviceKilled
  BY <1>2, <1>3 DEF init_communication, open_out_done, open_in_done, mainloop_end,
                    DeviceKilled
<1>4. CASE mainloop_read
  <2>1. Len(driver2device) >= 1 /\ Len(driver2device') = 0
    BY <1>4, PipeLength DEF mainloop_read, TypeOK, LinkTypeOK
  <2>2. Len(device2driver) = 0 /\ req = NoPacket /\ InFlight = 1
    BY <1>1, <2>1 DEF StopAndWaitInv, StopAndWait, InFlight
  <2>3. Len(device2driver') = 0
    BY <1>4, <2>2 DEF mainloop_read
  <2>4. InFlight' <= 1
    BY <2>1, <2>3 DEF InFlight
  <2>5. QED
    BY <1>4, <2>2, <2>4 DEF StopAndWaitInv, StopAndWait, mainloop_read, driverVars
<1>5. ASSUME NEW cmd \in 0..15, serving(cmd)
      PROVE  Len(driver2device) = 0 /\ Len(device2driver) = 0 /\ InFlight = 1
  <2>1. req # NoPacket
    BY <1>5, NotNone
  <2>2. QED
    BY <1>1, <2>1 DEF StopAndWaitInv, StopAndWait, InFlight
<1>6. ASSUME NEW cmd \in 0..15, serving(cmd), no_reply
      PROVE  StopAndWaitInv'
  <2>1. InFlight' = 0
    BY SMTT(60), <1>5, <1>6 DEF no_reply, pipes, InFlight
  <2>2. QED
    BY <1>6, <2>1 DEF no_reply, StopAndWaitInv, StopAndWait, driverVars
<1>7. ASSUME NEW cmd \in 0..15, serving(cmd), NEW rep, NEW size, NEW data,
             send_reply(rep, size, data)
      PROVE  StopAndWaitInv'
  <2> DEFINE p == packet(rep, REP_CODE_SUCCESS, size, byte(0, ToBits(ID)) \cup data)
  <2>1. Len(driver2device) = 0 /\ Len(device2driver) = 0 /\ InFlight = 1
    BY <1>5, <1>7
  <2>2. device2driver = << >>
    BY <2>1 DEF TypeOK, LinkTypeOK
  <2>3. \/ device2driver' = << >>
        \/ device2driver' = <<p>>
    BY <1>7, <2>2 DEF send_reply, connection_write
  <2> HIDE DEF p
  <2>4. Len(<< >>) = 0 /\ Len(<<p>>) = 1
    OBVIOUS
  <2>5. InFlight' <= 1
    BY <1>7, <2>1, <2>3, <2>4 DEF send_reply, InFlight
  <2>6. QED
    BY <1>7, <2>1, <2>5 DEF send_reply, StopAndWaitInv, StopAndWait, driverVars
<1>8. CASE reply_get_caps \/ reply_ping \/ reply_write \/ reply_set_type
             \/ reply_set_failsafe
  <2>1. 0 \in 0..15 /\ 2 \in 0..15 /\ 4 \in 0..15 /\ 6 \in 0..15 /\ 8 \in 0..15
    OBVIOUS
  <2>2. QED
    BY <1>7, <1>8, <2>1
       DEF reply_get_caps, reply_ping, reply_write, reply_set_type, reply_set_failsafe,
           CMD_GET_CAPS, CMD_PING, CMD_WRITE, CMD_SET_TYPE, CMD_SET_FAILSAFE
<1>9. CASE reply_reset
  <2>1. 1 \in 0..15
    OBVIOUS
  <2>2. QED
    BY <1>6, <1>9, <2>1 DEF reply_reset, CMD_RESET
<1>10. CASE reply_read \/ reply_get_type \/ reply_get_failsafe
  <2>1. 3 \in 0..15 /\ 5 \in 0..15 /\ 7 \in 0..15
    OBVIOUS
  <2>2. CASE reply_read
    <3>1. PICK data : reply_read_mask(data) \/ reply_read_pin(data)
      BY <2>2 DEF reply_read
    <3>2. serving(3)
      BY <2>2 DEF reply_read, CMD_READ
    <3>3. QED
      BY <1>7, <2>1, <3>1, <3>2 DEF reply_read_mask, reply_read_pin
  <2>3. CASE reply_get_type
    <3>1. PICK data : reply_get_type_mask(data) \/ reply_get_type_pin(data)
      BY <2>3 DEF reply_get_type
    <3>2. serving(5)
      BY <2>3 DEF reply_get_type, CMD_GET_TYPE
    <3>3. QED
      BY <1>7, <2>1, <3>1, <3>2 DEF reply_get_type_mask, reply_get_type_pin
  <2>4. CASE reply_get_failsafe
    <3>1. PICK data : reply_get_failsafe_mask(data) \/ reply_get_failsafe_pin(data)
      BY <2>4 DEF reply_get_failsafe
    <3>2. serving(7)
      BY <2>4 DEF reply_get_failsafe, CMD_GET_FAILSAFE
    <3>3. QED
      BY <1>7, <2>1, <3>1, <3>2 DEF reply_get_failsafe_mask, reply_get_failsafe_pin
  <2>5. QED
    BY <1>10, <2>2, <2>3, <2>4
<1>11. QED
  BY <1>3, <1>4, <1>8, <1>9, <1>10 DEF DeviceNext, DeviceRuns

\* StopAndWaitInv holds at first, and every step keeps it.
LEMMA InitStopsAndWaits == Init => StopAndWaitInv
BY DEF Init, LinkInit, DriverInit, DeviceInit, StopAndWaitInv, StopAndWait, InFlight

LEMMA StepStopsAndWaits ==
    ASSUME TypeOK, StopAndWaitInv, [Next]_vars
    PROVE  StopAndWaitInv'
<1>1. CASE DriverNext /\ UNCHANGED deviceVars
  BY <1>1, DriverStopsAndWaits
<1>2. CASE DeviceNext /\ UNCHANGED driverVars
  BY <1>2, DeviceStopsAndWaits
<1>3. CASE UNCHANGED vars
  BY <1>3 DEF vars, linkVars, driverVars, deviceVars, pipes,
              StopAndWaitInv, StopAndWait, InFlight
<1>4. QED
  BY <1>1, <1>2, <1>3 DEF Next, Finished

\* StopAndWait: there is never a second packet that connection_read would drop or
\* read_reply would take for another call's reply.
THEOREM StopAndWaitHolds == Spec => []StopAndWait
<1>1. Init => StopAndWaitInv
  BY InitStopsAndWaits
<1>2. TypeOK /\ StopAndWaitInv /\ [Next]_vars => StopAndWaitInv'
  BY StepStopsAndWaits
<1>3. StopAndWaitInv => StopAndWait
  BY DEF StopAndWaitInv
<1>4. QED
  BY <1>1, <1>2, <1>3, TypeCorrect, PTL DEF Spec

-----------------------------------------------------------------------------
(* The opens of the two processes meet.                                    *)

\* Which ends have been opened says how far each process is.
OpensInv ==
    /\ "drv_in"  \in opened <=> drv \notin {"start", "failed"}
    /\ "drv_out" \in opened <=> drv \notin {"start", "failed", "open_in"}
    /\ "dev_out" \in opened <=> dev # "start"
    /\ "dev_in"  \in opened <=> dev \notin {"start", "open_out"}

\* Every step but the opens keeps opened, and leaves both processes past them.
LEMMA PastOpens ==
    ASSUME OpensInv, UNCHANGED opened,
           UNCHANGED drv \/ {drv, drv'} \cap {"start", "failed", "open_in"} = {},
           UNCHANGED dev \/ {dev, dev'} \cap {"start", "open_out"} = {}
    PROVE  OpensInv'
BY DEF OpensInv

\* The driver's steps keep opened in accord with its place.
LEMMA DriverOpensInv ==
    ASSUME TypeOK, OpensInv, DriverNext
    PROVE  OpensInv'
<1>1. CASE connection_open_in
  BY <1>1 DEF connection_open_in, OpensInv
<1>2. CASE connection_open_out
  BY <1>2 DEF connection_open_out, OpensInv
<1>3. CASE connection_opened \/ connection_close \/ read_reply_failed \/ DriverKilled
  BY <1>3, PastOpens
     DEF connection_opened, connection_close, read_reply_failed, DriverKilled, pipes
<1>4. ASSUME NEW c, send_packet(c)
      PROVE  OpensInv'
  BY <1>4, PastOpens DEF send_packet
<1>5. ASSUME NEW op, read_reply(op), drv' \in {"idle", "killed"}
      PROVE  OpensInv'
  BY <1>5, PastOpens DEF read_reply
<1>6. CASE get_caps
  BY <1>5, <1>6 DEF get_caps, Return
<1>7. CASE reset
  BY <1>5, <1>7 DEF reset, Return
<1>8. CASE ping
  BY <1>5, <1>8 DEF ping, Return
<1>9. ASSUME NEW op, read_reply(op), NEW newConn, NEW result,
             ReturnStoring(newConn, result)
      PROVE  OpensInv'
  BY <1>5, <1>9 DEF ReturnStoring, Return
<1>10. CASE generic_read \/ read_value_mask \/ generic_write \/ write_value_mask
  BY <1>9, <1>10 DEF generic_read, read_value_mask, generic_write, write_value_mask
<1>11. CASE get_type \/ get_type_mask \/ set_type \/ set_type_mask
  BY <1>9, <1>11 DEF get_type, get_type_mask, set_type, set_type_mask
<1>12. CASE get_failsafe
  BY <1>5, <1>12 DEF get_failsafe, Return
<1>13. CASE get_failsafe_mask \/ set_failsafe \/ set_failsafe_mask
  BY <1>9, <1>13 DEF get_failsafe_mask, set_failsafe, set_failsafe_mask
<1>14. QED
  BY <1>1, <1>2, <1>3, <1>4, <1>6, <1>7, <1>8, <1>10, <1>11, <1>12, <1>13
     DEF DriverNext, DriverOpens, DriverReturns, ApplicationNext

\* And so do the device's.
LEMMA DeviceOpensInv ==
    ASSUME TypeOK, OpensInv, DeviceNext
    PROVE  OpensInv'
<1>1. CASE init_communication
  BY <1>1 DEF init_communication, OpensInv
<1>2. CASE open_out_done
  BY <1>2 DEF open_out_done, OpensInv
<1>3. CASE open_in_done \/ mainloop_read \/ mainloop_end \/ DeviceKilled
  BY <1>3, PastOpens DEF open_in_done, mainloop_read, mainloop_end, DeviceKilled
<1>4. ASSUME NEW cmd, serving(cmd), no_reply
      PROVE  OpensInv'
  BY <1>4, PastOpens DEF serving, no_reply
<1>5. ASSUME NEW cmd, serving(cmd), NEW rep, NEW size, NEW data,
             send_reply(rep, size, data)
      PROVE  OpensInv'
  BY <1>5, PastOpens DEF serving, send_reply
<1>6. CASE reply_get_caps \/ reply_ping \/ reply_write \/ reply_set_type
             \/ reply_set_failsafe
  BY <1>5, <1>6 DEF reply_get_caps, reply_ping, reply_write, reply_set_type,
                    reply_set_failsafe
<1>7. CASE reply_reset
  BY <1>4, <1>7 DEF reply_reset
<1>8. CASE reply_read
  BY <1>5, <1>8 DEF reply_read, reply_read_mask, reply_read_pin
<1>9. CASE reply_get_type
  BY <1>5, <1>9 DEF reply_get_type, reply_get_type_mask, reply_get_type_pin
<1>10. CASE reply_get_failsafe
  BY <1>5, <1>10 DEF reply_get_failsafe, reply_get_failsafe_mask, reply_get_failsafe_pin
<1>11. QED
  BY <1>1, <1>2, <1>3, <1>6, <1>7, <1>8, <1>9, <1>10 DEF DeviceNext, DeviceRuns

\* OpensMeet: driver and device never block each other in open(), the one opening
\* its input first and the other its output.
THEOREM OpensMeetHolds == Spec => []OpensMeet
<1>1. Init => OpensInv
  BY DEF Init, LinkInit, OpensInv
<1>2. ASSUME TypeOK, OpensInv, [Next]_vars
      PROVE  OpensInv'
  <2>1. CASE UNCHANGED vars
    BY <1>2, <2>1 DEF vars, linkVars, OpensInv
  <2>2. QED
    BY <1>2, <2>1, DriverOpensInv, DeviceOpensInv DEF Next, Finished
<1>3. OpensInv => OpensMeet
  BY DEF OpensInv, OpensMeet
<1>4. QED
  BY <1>1, <1>2, <1>3, TypeCorrect, PTL DEF Spec

-----------------------------------------------------------------------------
(* Packets fit the buffer they are decoded from.                           *)

\* The packet fits the buffer of connection_read.
FitsBuffer(p) == packet_bytes_nb(p) <= BUFF_SIZE

\* The bits of a timeout, a mask of at most 255 pins and their 16-bit values: 544 bytes.
ListBits == {n \in Nat : 1 <= n /\ n <= 4351}

\* A size below 65536 is not changed by its conversion, so the packet has it.
LEMMA SizeFits ==
    ASSUME NEW cmd, NEW param, NEW size \in Nat, size <= 600, NEW data
    PROVE  FitsBuffer(packet(cmd, param, size, data))
<1>1. size % 65536 = size
  OBVIOUS
<1>2. packet(cmd, param, size, data).size = size
  BY <1>1 DEF packet
<1>3. QED
  BY <1>2 DEF FitsBuffer, packet_bytes_nb, BUFF_SIZE, OVERHEAD_SIZE

\* An empty bit field asks for 2^29 bytes, of which the header keeps none, or one
\* with the reply id.
LEMMA EmptyFieldFits ==
    ASSUME NEW cmd, NEW param, NEW data
    PROVE  /\ FitsBuffer(packet(cmd, param, BITS2BYTES_unsigned(0), data))
           /\ FitsBuffer(packet(cmd, param, 1 + BITS2BYTES_unsigned(0), data))
<1>1. 536870912 % 65536 = 0 /\ (1 + 536870912) % 65536 = 1
  OBVIOUS
<1>2. /\ packet(cmd, param, BITS2BYTES_unsigned(0), data).size = 0
      /\ packet(cmd, param, 1 + BITS2BYTES_unsigned(0), data).size = 1
  BY <1>1 DEF packet, BITS2BYTES_unsigned
<1>3. QED
  BY <1>2 DEF FitsBuffer, packet_bytes_nb, BUFF_SIZE, OVERHEAD_SIZE

\* A packet sized for at most 4351 bits, with or without a reply id, fits.
LEMMA FieldFits ==
    ASSUME NEW cmd, NEW param, NEW data, NEW bits \in ListBits
    PROVE  /\ FitsBuffer(packet(cmd, param, BITS2BYTES(bits), data))
           /\ FitsBuffer(packet(cmd, param, BITS2BYTES_unsigned(bits), data))
           /\ FitsBuffer(packet(cmd, param, 1 + BITS2BYTES(bits), data))
           /\ FitsBuffer(packet(cmd, param, 1 + BITS2BYTES_unsigned(bits), data))
<1> DEFINE bytes == (bits - 1) \div 8 + 1
<1>1. bits \in Nat /\ 1 <= bits /\ bits <= 4351
  BY DEF ListBits
<1>2. bytes \in Nat /\ bytes <= 544
  BY <1>1
<1>3. bits # 0
  BY <1>1
<1>4. BITS2BYTES(bits) = bytes /\ BITS2BYTES_unsigned(bits) = bytes
  BY <1>3 DEF BITS2BYTES, BITS2BYTES_unsigned
<1> HIDE DEF bytes
<1>5. bytes <= 600 /\ 1 + bytes \in Nat /\ 1 + bytes <= 600
  BY <1>2
<1>6. /\ FitsBuffer(packet(cmd, param, bytes, data))
      /\ FitsBuffer(packet(cmd, param, 1 + bytes, data))
  BY <1>2, <1>5, SizeFits
<1>7. QED
  BY <1>4, <1>6

\* A timeout, a mask of at most 255 pins and their values take at most 4351 bits.
LEMMA ListBound ==
    ASSUME NEW m \in SUBSET PinIds, NEW n,
           NEW first \in Nat, 1 <= first, first <= 271,
           NEW bits \in {0, 1, 3, 8, 16}
    PROVE  /\ first + mask_nb_pins_used(m, n) * bits \in ListBits
           /\ first + bits * mask_nb_pins_used(m, n) \in ListBits
<1> DEFINE k == mask_nb_pins_used(m, n)
<1>1. k \in Nat /\ k <= 255
  BY CountType DEF UINT8
<1> HIDE DEF k
<1>3. k * bits = bits * k /\ k * bits \in Nat /\ k * bits <= 4080
  BY <1>1
<1> DEFINE kb == k * bits
<1> HIDE DEF kb
<1>4. kb \in Nat /\ kb <= 4080
  BY <1>3 DEF kb
<1>5. first + kb \in ListBits
  BY <1>4 DEF ListBits
<1>6. QED
  BY <1>3, <1>5 DEF k, kb

\* A mask of at most 255 pins takes at most 255 bits.
LEMMA CountBits ==
    ASSUME NEW n \in UINT8, n # 0
    PROVE  n \in ListBits
BY DEF UINT8, ListBits

\* The types of the pins of a mask take no bits, or at most 765.
LEMMA TypeBits ==
    ASSUME NEW m \in SUBSET PinIds, NEW n
    PROVE  \/ mask_nb_pins_used(m, n) * PIN_TYPE_BITS_NB = 0
           \/ mask_nb_pins_used(m, n) * PIN_TYPE_BITS_NB \in ListBits
<1>1. mask_nb_pins_used(m, n) \in Nat /\ mask_nb_pins_used(m, n) <= 255
  BY CountType DEF UINT8
<1>2. QED
  BY <1>1 DEF PIN_TYPE_BITS_NB, ListBits

\* Every request fits, a list of 255 values of 16 bits included.
LEMMA RequestFits ==
    ASSUME conn.nb_pins \in UINT8, NEW c, Callable(c)
    PROVE  FitsBuffer(request(c))
<1> DEFINE n == conn.nb_pins
<1>1. /\ WellFormed(c) /\ n \in UINT8
      /\ c.op \in MaskOps => n # 0 /\ n \in Nat /\ 1 <= n /\ n <= 255
  BY CallsAssumption DEF Callable, UINT8
<1> HIDE DEF n
<1>2. PINS_NO_BITS_NB + PIN_TYPE_BITS_NB \in ListBits
  BY DEF PINS_NO_BITS_NB, PIN_TYPE_BITS_NB, ListBits
<1>3. \A cmd, param, data : /\ FitsBuffer(packet(cmd, param, 0, data))
                            /\ FitsBuffer(packet(cmd, param, 1, data))
  BY SizeFits
<1>4. CASE c.op \in {"get_caps", "reset", "ping", "generic_read", "get_type",
                       "get_failsafe"}
  BY <1>3, <1>4
     DEF request, get_caps_request, reset_request, ping_request,
         generic_read_request, get_type_request, get_failsafe_request
<1>5. CASE c.op = "read_value_mask"
  <2>1. n \in ListBits
    BY <1>1, <1>5, CountBits DEF MaskOps
  <2>2. FitsBuffer(read_value_mask_request(c))
    BY <2>1, FieldFits DEF read_value_mask_request, n
  <2>3. QED
    BY <1>5, <2>2 DEF request
<1>6. CASE c.op = "generic_write"
  <2>1. PINS_NO_BITS_NB + get_type_bits_nb(c.pin_mode) \in ListBits
    BY WidthType DEF PINS_NO_BITS_NB, ListBits
  <2>2. FitsBuffer(generic_write_request(c))
    BY <2>1, FieldFits DEF generic_write_request
  <2>3. QED
    BY <1>6, <2>2 DEF request
<1>7. CASE c.op = "write_value_mask"
  <2> DEFINE all == n + mask_nb_pins_used(c.mask, n) * get_type_bits_nb(c.type)
  <2>1. c.mask \in SUBSET PinIds /\ n \in Nat /\ 1 <= n /\ n <= 271
    BY <1>1, <1>7 DEF WellFormed, MaskOps
  <2>2. get_type_bits_nb(c.type) \in {0, 1, 3, 8, 16}
    BY WidthType
  <2>3. all \in ListBits
    BY <2>1, <2>2, ListBound
  <2> HIDE DEF all
  <2>4. FitsBuffer(write_value_mask_request(c))
    BY <2>3, FieldFits DEF write_value_mask_request, all, n
  <2>5. QED
    BY <1>7, <2>4 DEF request
<1>8. CASE c.op = "get_type_mask"
  <2>1. n # 0
    BY <1>1, <1>8 DEF MaskOps
  <2>2. n - 1 = 0 \/ n - 1 \in ListBits
    BY <1>1, <2>1 DEF UINT8, ListBits
  <2>3. FitsBuffer(get_type_mask_request(c))
    BY <2>2, EmptyFieldFits, FieldFits DEF get_type_mask_request, n
  <2>4. QED
    BY <1>8, <2>3 DEF request
<1>9. CASE c.op = "set_type"
  <2>1. FitsBuffer(set_type_request(c))
    BY <1>2, FieldFits DEF set_type_request
  <2>2. QED
    BY <1>9, <2>1 DEF request
<1>10. CASE c.op = "set_type_mask"
  <2> DEFINE all == n + PIN_TYPE_BITS_NB * mask_nb_pins_used(c.mask, n)
  <2>1. c.mask \in SUBSET PinIds /\ n \in Nat /\ 1 <= n /\ n <= 271
    BY <1>1, <1>10 DEF WellFormed, MaskOps
  <2>2. PIN_TYPE_BITS_NB \in {0, 1, 3, 8, 16}
    BY DEF PIN_TYPE_BITS_NB
  <2>3. all \in ListBits
    BY <2>1, <2>2, ListBound
  <2> HIDE DEF all
  <2>4. FitsBuffer(set_type_mask_request(c))
    BY <2>3, FieldFits DEF set_type_mask_request, all, n
  <2>5. QED
    BY <1>10, <2>4 DEF request
<1>11. CASE c.op = "get_failsafe_mask"
  <2> DEFINE bits == mask_nb_pins_used(c.mask, n) * PIN_TYPE_BITS_NB
  <2>1. c.mask \in SUBSET PinIds
    BY <1>1, <1>11 DEF WellFormed, MaskOps
  <2>2. bits = 0 \/ bits \in ListBits
    BY <2>1, TypeBits
  <2> HIDE DEF bits
  <2>3. FitsBuffer(packet(CMD_GET_FAILSAFE, USE_MASK, BITS2BYTES_unsigned(bits),
                          write_mask({}, c.mask, n)))
    BY <2>2, EmptyFieldFits, FieldFits
  <2>4. QED
    BY <1>11, <2>3 DEF request, get_failsafe_mask_request, bits, n
<1>12. CASE c.op = "set_failsafe"
  <2>1. TIMEOUT_BITS_NB + 1 + get_type_bits_nb(c.type) \in ListBits
    BY WidthType DEF TIMEOUT_BITS_NB, ListBits
  <2>2. FitsBuffer(set_failsafe_request(c))
    BY <2>1, FieldFits DEF set_failsafe_request
  <2>3. QED
    BY <1>12, <2>2 DEF request
<1>13. CASE c.op = "set_failsafe_mask"
  <2> DEFINE head == TIMEOUT_BITS_NB + n
             all  == head + mask_nb_pins_used(c.mask, n) * get_type_bits_nb(c.type)
  <2>1. c.mask \in SUBSET PinIds /\ head \in Nat /\ 1 <= head /\ head <= 271
    BY <1>1, <1>13 DEF WellFormed, MaskOps, TIMEOUT_BITS_NB
  <2>2. get_type_bits_nb(c.type) \in {0, 1, 3, 8, 16}
    BY WidthType
  <2>3. all \in ListBits
    BY <2>1, <2>2, ListBound
  <2> HIDE DEF all
  <2>4. FitsBuffer(set_failsafe_mask_request(c))
    BY <2>3, FieldFits DEF set_failsafe_mask_request, all, n
  <2>5. QED
    BY <1>13, <2>4 DEF request
<1>14. QED
  BY <1>1, <1>4, <1>5, <1>6, <1>7, <1>8, <1>9, <1>10, <1>11, <1>12, <1>13
     DEF WellFormed, PinOps, MaskOps

\* The reply pipe is left alone, or a packet that fits is written to it.
ReplyPipeFits ==
    \/ UNCHANGED device2driver
    \/ \E p : FitsBuffer(p) /\ device2driver' = connection_write(device2driver, p)

\* Every reply a handler sends fits.
LEMMA ReplyFits ==
    ASSUME TypeOK, DeviceNext
    PROVE  ReplyPipeFits
<1>1. ASSUME NEW rep, NEW size, NEW data, send_reply(rep, size, data),
             \A d : FitsBuffer(packet(rep, REP_CODE_SUCCESS, size, d))
      PROVE  ReplyPipeFits
  BY <1>1 DEF send_reply, ReplyPipeFits
<1>2. NB_PINS \in UINT8 /\ NB_PINS # 0 /\ 8 \in UINT8 /\ 8 # 0
  BY FirmwareAssumption DEF UINT8
<1>3. CASE init_communication \/ open_out_done \/ open_in_done \/ mainloop_read
             \/ mainloop_end \/ reply_reset \/ DeviceKilled
  BY <1>3 DEF init_communication, open_out_done, open_in_done, mainloop_read,
              mainloop_end, reply_reset, no_reply, DeviceKilled, pipes, ReplyPipeFits
<1>4. CASE reply_get_caps
  <2>1. NB_PINS + 2 \in Nat /\ NB_PINS + 2 <= 600
    BY <1>2 DEF UINT8
  <2>2. PICK data : send_reply(CMD_GET_CAPS, NB_PINS + 2, data)
    BY <1>4 DEF reply_get_caps
  <2>3. QED
    BY <1>1, <2>1, <2>2, SizeFits
<1>5. CASE reply_ping
  <2>1. PICK data : send_reply(CMD_GET_CAPS, 2, data)
    BY <1>5 DEF reply_ping
  <2>2. \A d : FitsBuffer(packet(CMD_GET_CAPS, REP_CODE_SUCCESS, 2, d))
    BY SizeFits
  <2>3. QED
    BY <1>1, <2>1, <2>2
<1>6. CASE reply_write \/ reply_set_type \/ reply_set_failsafe
  <2>1. PICK rep : send_reply(rep, 1, {})
    BY <1>6 DEF reply_write, reply_set_type, reply_set_failsafe
  <2>2. \A d : FitsBuffer(packet(rep, REP_CODE_SUCCESS, 1, d))
    BY SizeFits
  <2>3. QED
    BY <1>1, <2>1, <2>2
<1>7. ASSUME NEW data, reply_read_mask(data)
      PROVE  ReplyPipeFits
  <2> DEFINE bits == get_type_bits_nb(param_type(req))
             all  == REPLY_ID_BITS_NB
                       + mask_nb_pins_used(requested_pins(data), NB_PINS) * bits
  <2>1. bits \in {0, 1, 3, 8, 16} /\ requested_pins(data) \in SUBSET PinIds
    BY WidthType, RequestedType
  <2>2. all \in ListBits
    BY <1>2, <2>1, ListBound DEF REPLY_ID_BITS_NB
  <2>3. PICK list : send_reply(CMD_READ, BITS2BYTES(all), list)
    BY <1>7 DEF reply_read_mask
  <2> HIDE DEF all
  <2>4. QED
    BY <1>1, <2>2, <2>3, FieldFits
<1>8. ASSUME NEW data, reply_read_pin(data)
      PROVE  ReplyPipeFits
  <2> DEFINE all == REPLY_ID_BITS_NB + get_type_bits_nb(param_type(req))
  <2>1. all \in ListBits
    BY WidthType DEF REPLY_ID_BITS_NB, ListBits
  <2>2. PICK field : send_reply(CMD_READ, BITS2BYTES(all), field)
    BY <1>8 DEF reply_read_pin
  <2> HIDE DEF all
  <2>3. QED
    BY <1>1, <2>1, <2>2, FieldFits
<1>9. ASSUME NEW data, reply_get_type_mask(data)
      PROVE  ReplyPipeFits
  <2> DEFINE all == mask_nb_pins_used(requested_pins(data), NB_PINS) * PIN_TYPE_BITS_NB
  <2>1. all = 0 \/ all \in ListBits
    BY RequestedType, TypeBits
  <2>2. PICK list : send_reply(CMD_SET_TYPE, 1 + BITS2BYTES_unsigned(all), list)
    BY <1>9 DEF reply_get_type_mask
  <2> HIDE DEF all
  <2>3. QED
    BY <1>1, <2>1, <2>2, EmptyFieldFits, FieldFits
<1>10. ASSUME NEW data, reply_get_type_pin(data)
       PROVE  ReplyPipeFits
  <2>1. PIN_TYPE_BITS_NB \in ListBits
    BY DEF PIN_TYPE_BITS_NB, ListBits
  <2>2. PICK field : send_reply(CMD_SET_TYPE, 1 + BITS2BYTES(PIN_TYPE_BITS_NB), field)
    BY <1>10 DEF reply_get_type_pin
  <2>3. QED
    BY <1>1, <2>1, <2>2, FieldFits
<1>11. CASE reply_read
  BY <1>7, <1>8, <1>11 DEF reply_read
<1>12. CASE reply_get_type
  BY <1>9, <1>10, <1>12 DEF reply_get_type
<1>13. ASSUME NEW data, reply_get_failsafe_mask(data)
       PROVE  ReplyPipeFits
  <2> DEFINE bits == failsafe_nb_bits(device.failsafe, requested_pins(data))
             all  == (3 + BITS2BYTES(bits)) % 256
  <2>1. bits \in Nat
    BY RequestedType, FailsafeBitsType
  <2>2. PICK list : send_reply(CMD_SET_TYPE, all, list)
    BY <1>13 DEF reply_get_failsafe_mask
  <2> HIDE DEF bits
  <2>3. all \in Nat /\ all <= 600
    <3>1. 3 + BITS2BYTES(bits) \in Nat
      BY <2>1, BytesType
    <3>2. QED
      BY <3>1
  <2> HIDE DEF all
  <2>4. QED
    BY <1>1, <2>2, <2>3, SizeFits
<1>14. ASSUME NEW data, reply_get_failsafe_pin(data)
       PROVE  ReplyPipeFits
  <2> DEFINE bits == PIN_TYPE_BITS_NB
                       + get_type_bits_nb(device.failsafe.pin_state[requested_pin(data)])
  <2>1. PICK list : send_reply(CMD_SET_TYPE, 3 + BITS2BYTES(bits), list)
    BY <1>14 DEF reply_get_failsafe_pin
  <2>2. bits \in {3, 4, 11, 19}
    BY WidthType DEF PIN_TYPE_BITS_NB
  <2> HIDE DEF bits
  <2>3. 3 + BITS2BYTES(bits) \in Nat /\ 3 + BITS2BYTES(bits) <= 600
    BY <2>2 DEF BITS2BYTES
  <2>4. QED
    BY <1>1, <2>1, <2>3, SizeFits
<1>15. CASE reply_get_failsafe
  BY <1>13, <1>14, <1>15 DEF reply_get_failsafe
<1>16. QED
  BY <1>3, <1>4, <1>5, <1>6, <1>11, <1>12, <1>15 DEF DeviceNext, DeviceRuns

\* Every packet of a pipe fits.
PipeFits(pipe) == \A k \in DOMAIN pipe : FitsBuffer(pipe[k])

\* Writing a packet that fits to a pipe of packets that fit, and emptying it.
LEMMA WriteFits ==
    ASSUME NEW pipe \in Seq(Packet), PipeFits(pipe), NEW p, FitsBuffer(p)
    PROVE  PipeFits(connection_write(pipe, p)) /\ PipeFits(unread(pipe))
BY DEF PipeFits, connection_write, unread

\* The driver's steps keep packets that fit in the pipes.
LEMMA DriverFits ==
    ASSUME TypeOK, PacketsFit, DriverNext
    PROVE  PacketsFit'
<1>1. PipeFits(driver2device) /\ PipeFits(device2driver)
  BY DEF PacketsFit, PipeFits, FitsBuffer
<1>2. PipeFits(<< >>)
  BY DEF PipeFits
<1>3. /\ driver2device \in Seq(Packet) /\ device2driver \in Seq(Packet)
      /\ conn.nb_pins \in UINT8
  BY DEF TypeOK, LinkTypeOK, DriverTypeOK
<1>4. PipeFits(driver2device')
  <2>1. CASE UNCHANGED driver2device
    BY <1>1, <2>1
  <2>2. CASE \E c \in Calls : send_packet(c)
    <3>1. PICK c \in Calls : send_packet(c)
      BY <2>2
    <3>2. FitsBuffer(request(c))
      BY <1>3, <3>1, RequestFits DEF send_packet
    <3>3. PipeFits(connection_write(driver2device, request(c)))
      BY <1>1, <1>3, <3>2, WriteFits
    <3>4. QED
      BY <1>1, <3>1, <3>3 DEF send_packet
  <2>3. QED
    BY <2>1, <2>2
       DEF DriverNext, DriverOpens, DriverReturns, ApplicationNext, pipes,
           connection_open_in, connection_open_out, connection_opened,
           connection_close, DriverKilled, read_reply_failed, read_reply,
           get_caps, reset, ping, generic_read, read_value_mask, generic_write,
           write_value_mask, get_type, get_type_mask, set_type, set_type_mask,
           get_failsafe, get_failsafe_mask, set_failsafe, set_failsafe_mask
<1>5. device2driver' \in {device2driver, << >>}
  BY DEF DriverNext, DriverOpens, DriverReturns, ApplicationNext, pipes, unread,
         connection_open_in, connection_open_out, connection_opened,
         connection_close, send_packet, DriverKilled, read_reply_failed, read_reply,
         get_caps, reset, ping, generic_read, read_value_mask, generic_write,
         write_value_mask, get_type, get_type_mask, set_type, set_type_mask,
         get_failsafe, get_failsafe_mask, set_failsafe, set_failsafe_mask
<1>6. QED
  BY <1>1, <1>2, <1>4, <1>5 DEF PacketsFit, PipeFits, FitsBuffer

\* And so do the device's.
LEMMA DeviceFits ==
    ASSUME TypeOK, PacketsFit, DeviceNext
    PROVE  PacketsFit'
<1>1. PipeFits(driver2device) /\ PipeFits(device2driver)
  BY DEF PacketsFit, PipeFits, FitsBuffer
<1>2. PipeFits(<< >>)
  BY DEF PipeFits
<1>3. PipeFits(device2driver')
  BY <1>1, ReplyFits, WriteFits DEF TypeOK, LinkTypeOK, ReplyPipeFits
<1>4. driver2device' \in {driver2device, << >>}
  BY DEF DeviceNext, DeviceRuns, init_communication, open_out_done, open_in_done,
         mainloop_read, mainloop_end, DeviceKilled, no_reply, send_reply, pipes,
         unread, reply_get_caps, reply_reset, reply_ping, reply_read,
         reply_read_mask, reply_read_pin, reply_write, reply_get_type,
         reply_get_type_mask, reply_get_type_pin, reply_set_type, reply_set_failsafe,
         reply_get_failsafe, reply_get_failsafe_mask, reply_get_failsafe_pin
<1>5. QED
  BY <1>1, <1>2, <1>3, <1>4 DEF PacketsFit, PipeFits, FitsBuffer

\* PacketsFit: whatever the number of pins and the calls, no packet overruns the
\* BUFF_SIZE bytes that connection_read has for it.
THEOREM PacketsFitHolds == Spec => []PacketsFit
<1>1. Init => PacketsFit
  BY DEF Init, LinkInit, PacketsFit
<1>2. ASSUME TypeOK, PacketsFit, [Next]_vars
      PROVE  PacketsFit'
  <2>1. CASE UNCHANGED vars
    BY <1>2, <2>1 DEF vars, linkVars, pipes, PacketsFit
  <2>2. QED
    BY <1>2, <2>1, DriverFits, DeviceFits DEF Next, Finished
<1>3. QED
  BY <1>1, <1>2, TypeCorrect, PTL DEF Spec

=============================================================================
