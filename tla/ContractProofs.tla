--------------------------- MODULE ContractProofs ---------------------------
(***************************************************************************)
(* Within their contract, driver, pipes and device implement the remote    *)
(* registers of RemotePins, for every number of pins, every set of calls   *)
(* and every content of uninitialised memory, with or without crashes: the *)
(* device understands every request, the driver every reply.               *)
(***************************************************************************)
EXTENDS Mirror, SessionProofs

-----------------------------------------------------------------------------
(* What a receiver finds in a packet.                                      *)

\* The positions that a packet of so many bytes has.
Sent(size) == 8 * (size % 65536)

LEMMA SentType ==
    ASSUME NEW size \in Nat
    PROVE  /\ Sent(size) \in Nat
           /\ size < 65536 => Sent(size) = 8 * size
BY DEF Sent

\* On these, the receiver has what the sender wrote, whatever its memory held.
LEMMA Received ==
    ASSUME NEW cmd, NEW param, NEW size \in Nat, NEW data, NEW junk,
           NEW i \in Nat, i < Sent(size)
    PROVE  i \in received(packet(cmd, param, size, data), junk) <=> i \in data
<1> DEFINE bytes == size % 65536
<1>1. bytes \in Nat
  OBVIOUS
<1>2. packet(cmd, param, size, data)
        = [cmd |-> cmd, param |-> param, size |-> bytes, data |-> {j \in data : j \div 8 < bytes}]
  BY DEF packet
<1> HIDE DEF bytes
<1>3. i < 8 * bytes
  BY DEF Sent, bytes
<1>4. i \div 8 < bytes /\ ~(i \div 8 >= bytes)
  BY <1>1, <1>3
<1>5. QED
  BY <1>2, <1>4 DEF received

\* A field.
LEMMA FieldReceived ==
    ASSUME NEW cmd, NEW param, NEW size \in Nat, NEW data, NEW junk,
           NEW offset, NEW val, NEW w, Carries(offset, val, w), offset + w <= Sent(size),
           \A i \in offset .. offset + w - 1 : i \in data <=> i \in FieldBits(offset, val, w)
    PROVE  read_bit_value(received(packet(cmd, param, size, data), junk), offset, w) = val
<1>1. offset \in Nat /\ w \in 0..16 /\ Sent(size) \in Nat
  BY SentType DEF Carries
<1>2. ASSUME NEW i \in offset .. offset + w - 1
      PROVE  i \in received(packet(cmd, param, size, data), junk)
               <=> i \in FieldBits(offset, val, w)
  <2>1. i \in Nat /\ i < Sent(size)
    BY <1>1
  <2>2. i \in received(packet(cmd, param, size, data), junk) <=> i \in data
    BY <2>1, Received
  <2>3. QED
    BY <2>2
<1>3. QED
  BY <1>2, ReadCarried

\* A list of values is part of the packet, and stands there as it was written.
ListSent(offset, m, w, size) == offset + w * Cardinality(m) <= Sent(size)

\* The values of a mask.
OnMask(values, m) == [p \in m |-> values[p]]

HoldsList(data, buffer, offset, m, values, w) ==
    \A i \in Nat : offset <= i =>
       (i \in data <=> i \in write_value_list(buffer, offset, m, values, w))

LEMMA ListReceived ==
    ASSUME NEW cmd, NEW param, NEW size \in Nat, NEW data, NEW junk,
           NEW buffer, NEW offset \in Nat, NEW m \in SUBSET PinIds, NEW values,
           NEW w \in ListWidths, ListCarries(offset, m, values, w),
           AllBefore(buffer, offset), ListSent(offset, m, w, size),
           HoldsList(data, buffer, offset, m, values, w)
    PROVE  read_value_list(received(packet(cmd, param, size, data), junk), offset, m, w)
             = OnMask(values, m)
<1>1. PICK n \in Nat : n = w * Cardinality(m)
  BY MaskFinite, WidthTimes
<1>2. Sent(size) \in Nat
  BY SentType
<1>3. offset + n <= Sent(size)
  BY <1>1 DEF ListSent
<1>4. ASSUME NEW i \in offset .. offset + n - 1
      PROVE  i \in received(packet(cmd, param, size, data), junk)
               <=> i \in write_value_list(buffer, offset, m, values, w)
  <2>1. i \in Nat /\ i < Sent(size) /\ offset <= i
    BY <1>2, <1>3
  <2>2. i \in received(packet(cmd, param, size, data), junk) <=> i \in data
    BY <2>1, Received
  <2>3. QED
    BY <2>1, <2>2 DEF HoldsList
<1>5. SameOn(received(packet(cmd, param, size, data), junk),
             write_value_list(buffer, offset, m, values, w), offset, offset + n)
  BY <1>4 DEF SameOn
<1>6. QED
  BY <1>1, <1>5, ListRead DEF OnMask

\* A mask.
HoldsMask(data, offset, m) == \A p \in Pins : offset + p \in data <=> p \in m

LEMMA MaskReceived ==
    ASSUME NEW cmd, NEW param, NEW size \in Nat, NEW data, NEW junk,
           NEW offset \in Nat, NEW m \in SUBSET Pins, offset + NB_PINS <= Sent(size),
           HoldsMask(data, offset, m)
    PROVE  read_mask(received(packet(cmd, param, size, data), junk), offset, NB_PINS) = m
<1>1. NB_PINS \in Nat /\ Sent(size) \in Nat
  BY FirmwareAssumption, SentType DEF UINT8
<1>2. ASSUME NEW p \in Pins
      PROVE  offset + p \in received(packet(cmd, param, size, data), junk) <=> p \in m
  <2>1. offset + p \in Nat /\ offset + p < Sent(size)
    BY <1>1 DEF Pins
  <2>2. offset + p \in received(packet(cmd, param, size, data), junk) <=> offset + p \in data
    BY <2>1, Received
  <2>3. QED
    BY <2>2 DEF HoldsMask
<1>3. QED
  BY <1>2 DEF read_mask, Pins

\* The pin at the start of a request.
LEMMA PinReceived ==
    ASSUME NEW cmd, NEW param, NEW size \in Nat, NEW data, NEW junk, NEW pin \in Pins,
           8 <= Sent(size),
           \A i \in 0..7 : i \in data <=> i \in pin_id_bits(pin)
    PROVE  requested_pin(received(packet(cmd, param, size, data), junk)) = pin
<1>1. pin \in UINT8
  BY FirmwareAssumption DEF Pins, UINT8
<1>2. ToBits(pin) \in SUBSET (0..7) /\ FromBits(ToBits(pin)) = pin
  BY <1>1, NumberBack
<1>3. Carries(0, ToBits(pin), 8)
  BY <1>2 DEF Carries
<1>4. pin_id_bits(pin) = FieldBits(0, ToBits(pin), 8)
  <2>1. write_bit_value({}, 0, ToBits(pin), 8) = {} \cup FieldBits(0, ToBits(pin), 8)
    BY <1>3, WriteCarried
  <2>2. QED
    BY <2>1 DEF pin_id_bits, PINS_NO_BITS_NB
<1>5. \A i \in 0 .. 0 + 8 - 1 : i \in data <=> i \in FieldBits(0, ToBits(pin), 8)
  BY <1>4
<1>6. read_bit_value(received(packet(cmd, param, size, data), junk), 0, 8) = ToBits(pin)
  <2>1. 0 + 8 <= Sent(size)
    OBVIOUS
  <2>2. QED
    BY <1>3, <1>5, <2>1, FieldReceived
<1>7. QED
  BY <1>2, <1>6 DEF requested_pin, PINS_NO_BITS_NB

-----------------------------------------------------------------------------
(* The requests, as the device reads them.                                 *)

\* What is known of a call that is made.
Made(c) == Callable(c) /\ conn.nb_pins \in {0, NB_PINS}

LEMMA PinsType == Pins \subseteq Nat /\ Pins \subseteq PinIds /\ NB_PINS \in Nat
                    /\ 1 <= NB_PINS /\ NB_PINS <= 255
<1>1. NB_PINS \in Nat /\ 1 <= NB_PINS /\ NB_PINS <= 255
  BY FirmwareAssumption DEF UINT8
<1>2. QED
  BY <1>1 DEF Pins, PinIds

LEMMA CallFacts ==
    ASSUME NEW c, Made(c)
    PROVE  /\ WellFormed(c) /\ WithinContract(c)
           /\ c.op \in PinOps => c.pin_id \in Pins
           /\ c.op \in MaskOps =>
                /\ c.mask \in SUBSET Pins /\ c.mask \in SUBSET PinIds
                /\ conn.nb_pins = NB_PINS
                /\ write_mask({}, c.mask, NB_PINS) = c.mask
                /\ mask_nb_pins_used(c.mask, NB_PINS) = Cardinality(c.mask)
<1>1. c \in Calls
  BY DEF Made, Callable
<1>2. WellFormed(c) /\ WithinContract(c)
  BY <1>1, CallsAssumption, ContractAssumption
<1>3. c.op \in PinOps => c.pin_id \in Pins
  BY <1>1, PinsAssumption
<1>4. ASSUME c.op \in MaskOps
      PROVE  /\ c.mask \in SUBSET Pins /\ c.mask \in SUBSET PinIds
             /\ conn.nb_pins = NB_PINS
             /\ write_mask({}, c.mask, NB_PINS) = c.mask
             /\ mask_nb_pins_used(c.mask, NB_PINS) = Cardinality(c.mask)
  <2>1. c.mask \in SUBSET Pins /\ c.mask \in SUBSET PinIds
    BY <1>1, <1>4, PinsAssumption, PinsType
  <2>2. conn.nb_pins = NB_PINS
    BY <1>4 DEF Made, Callable
  <2>3. {p \in c.mask : p < NB_PINS} = c.mask
    BY <2>1, PinsType DEF Pins
  <2>4. QED
    BY <2>1, <2>2, <2>3 DEF write_mask, mask_nb_pins_used
<1>5. QED
  BY <1>2, <1>3, <1>4

\* The type in the header comes back, and so does the way the pins are named.
LEMMA ParamBack ==
    ASSUME NEW cmd, NEW t \in PinType, NEW size, NEW data
    PROVE  /\ packet(cmd, type_param(t, USE_PIN_ID), size, data).cmd = cmd
           /\ packet(cmd, type_param(t, USE_MASK), size, data).cmd = cmd
           /\ param_type(packet(cmd, type_param(t, USE_PIN_ID), size, data)) = t
           /\ param_type(packet(cmd, type_param(t, USE_MASK), size, data)) = t
           /\ ~use_mask(packet(cmd, type_param(t, USE_PIN_ID), size, data))
           /\ use_mask(packet(cmd, type_param(t, USE_MASK), size, data))
<1>1. /\ packet(cmd, type_param(t, USE_PIN_ID), size, data).param = type_param(t, USE_PIN_ID)
      /\ packet(cmd, type_param(t, USE_MASK), size, data).param = type_param(t, USE_MASK)
      /\ packet(cmd, type_param(t, USE_PIN_ID), size, data).cmd = cmd
      /\ packet(cmd, type_param(t, USE_MASK), size, data).cmd = cmd
  BY DEF packet
<1>2. \A j \in t : j \in 0..2 /\ j \in Nat /\ j + 1 # 0
  BY DEF PinType
<1>3. /\ 0 \notin type_param(t, USE_PIN_ID) /\ 0 \in type_param(t, USE_MASK)
  BY <1>2 DEF type_param, USE_PIN_ID, USE_MASK
<1>4. ASSUME NEW how \in {USE_PIN_ID, USE_MASK}
      PROVE  {j \in 0..2 : j + 1 \in type_param(t, how)} = t
  <2>1. ASSUME NEW j \in 0..2, j + 1 \in type_param(t, how)
        PROVE  j \in t
    <3>1. j + 1 \notin how
      BY DEF USE_PIN_ID, USE_MASK
    <3>2. PICK k \in t : j + 1 = k + 1
      BY <2>1, <3>1 DEF type_param
    <3>3. k = j
      BY <1>2, <3>2
    <3>4. QED
      BY <3>2, <3>3
  <2>2. ASSUME NEW j \in t
        PROVE  j \in 0..2 /\ j + 1 \in type_param(t, how)
    BY <1>2 DEF type_param
  <2>3. QED
    BY <2>1, <2>2
<1>5. QED
  BY <1>1, <1>3, <1>4 DEF param_type, use_mask

\* The same for a request that carries no type.
LEMMA PlainParam ==
    ASSUME NEW cmd, NEW size, NEW data
    PROVE  /\ packet(cmd, USE_PIN_ID, size, data).cmd = cmd
           /\ packet(cmd, USE_MASK, size, data).cmd = cmd
           /\ ~use_mask(packet(cmd, USE_PIN_ID, size, data))
           /\ use_mask(packet(cmd, USE_MASK, size, data))
BY DEF packet, use_mask, USE_PIN_ID, USE_MASK

\* The command of a request says which call it is.
LEMMA RequestCmd ==
    ASSUME NEW c, Made(c)
    PROVE  /\ request(c).cmd = CMD_GET_CAPS <=> c.op = "get_caps"
           /\ request(c).cmd # CMD_RESET
           /\ request(c).cmd = CMD_PING <=> c.op = "ping"
           /\ request(c).cmd = CMD_READ <=> c.op \in {"generic_read", "read_value_mask"}
           /\ request(c).cmd = CMD_WRITE <=> c.op \in {"generic_write", "write_value_mask"}
           /\ request(c).cmd = CMD_GET_TYPE <=> c.op \in {"get_type", "get_type_mask"}
           /\ request(c).cmd = CMD_SET_TYPE <=> c.op \in {"set_type", "set_type_mask"}
           /\ request(c).cmd = CMD_GET_FAILSAFE
                <=> c.op \in {"get_failsafe", "get_failsafe_mask"}
           /\ request(c).cmd = CMD_SET_FAILSAFE
                <=> c.op \in {"set_failsafe", "set_failsafe_mask"}
<1>1. c.op \in {"get_caps", "ping"} \cup PinOps \cup MaskOps
  BY CallFacts DEF WellFormed, WithinContract
<1>2. \A cmd, param, size, data : packet(cmd, param, size, data).cmd = cmd
  BY DEF packet
<1>3. CASE c.op = "get_caps"
  <2>1. request(c).cmd = 0
    BY <1>2, <1>3 DEF request, get_caps_request, CMD_GET_CAPS
  <2>2. QED
    BY <1>3, <2>1 DEF CMD_GET_CAPS, CMD_RESET, CMD_PING, CMD_READ, CMD_WRITE, CMD_GET_TYPE,
                      CMD_SET_TYPE, CMD_GET_FAILSAFE, CMD_SET_FAILSAFE
<1>4. CASE c.op = "ping"
  <2>1. request(c).cmd = 2
    BY <1>2, <1>4 DEF request, ping_request, CMD_PING
  <2>2. QED
    BY <1>4, <2>1 DEF CMD_GET_CAPS, CMD_RESET, CMD_PING, CMD_READ, CMD_WRITE, CMD_GET_TYPE,
                      CMD_SET_TYPE, CMD_GET_FAILSAFE, CMD_SET_FAILSAFE
<1>5. CASE c.op \in {"generic_read", "read_value_mask"}
  <2>1. request(c).cmd = 3
    BY <1>2, <1>5 DEF request, generic_read_request, read_value_mask_request, CMD_READ
  <2>2. QED
    BY <1>5, <2>1 DEF CMD_GET_CAPS, CMD_RESET, CMD_PING, CMD_READ, CMD_WRITE, CMD_GET_TYPE,
                      CMD_SET_TYPE, CMD_GET_FAILSAFE, CMD_SET_FAILSAFE
<1>6. CASE c.op \in {"generic_write", "write_value_mask"}
  <2>1. request(c).cmd = 4
    BY <1>2, <1>6 DEF request, generic_write_request, write_value_mask_request, CMD_WRITE
  <2>2. QED
    BY <1>6, <2>1 DEF CMD_GET_CAPS, CMD_RESET, CMD_PING, CMD_READ, CMD_WRITE, CMD_GET_TYPE,
                      CMD_SET_TYPE, CMD_GET_FAILSAFE, CMD_SET_FAILSAFE
<1>7. CASE c.op \in {"get_type", "get_type_mask"}
  <2>1. request(c).cmd = 5
    BY <1>2, <1>7 DEF request, get_type_request, get_type_mask_request, CMD_GET_TYPE
  <2>2. QED
    BY <1>7, <2>1 DEF CMD_GET_CAPS, CMD_RESET, CMD_PING, CMD_READ, CMD_WRITE, CMD_GET_TYPE,
                      CMD_SET_TYPE, CMD_GET_FAILSAFE, CMD_SET_FAILSAFE
<1>8. CASE c.op \in {"set_type", "set_type_mask"}
  <2>1. request(c).cmd = 6
    BY <1>2, <1>8 DEF request, set_type_request, set_type_mask_request, CMD_SET_TYPE
  <2>2. QED
    BY <1>8, <2>1 DEF CMD_GET_CAPS, CMD_RESET, CMD_PING, CMD_READ, CMD_WRITE, CMD_GET_TYPE,
                      CMD_SET_TYPE, CMD_GET_FAILSAFE, CMD_SET_FAILSAFE
<1>9. CASE c.op \in {"get_failsafe", "get_failsafe_mask"}
  <2>1. request(c).cmd = 7
    BY <1>2, <1>9 DEF request, get_failsafe_request, get_failsafe_mask_request, CMD_GET_FAILSAFE
  <2>2. QED
    BY <1>9, <2>1 DEF CMD_GET_CAPS, CMD_RESET, CMD_PING, CMD_READ, CMD_WRITE, CMD_GET_TYPE,
                      CMD_SET_TYPE, CMD_GET_FAILSAFE, CMD_SET_FAILSAFE
<1>10. CASE c.op \in {"set_failsafe", "set_failsafe_mask"}
  <2>1. request(c).cmd = 8
    BY <1>2, <1>10 DEF request, set_failsafe_request, set_failsafe_mask_request, CMD_SET_FAILSAFE
  <2>2. QED
    BY <1>10, <2>1 DEF CMD_GET_CAPS, CMD_RESET, CMD_PING, CMD_READ, CMD_WRITE, CMD_GET_TYPE,
                       CMD_SET_TYPE, CMD_GET_FAILSAFE, CMD_SET_FAILSAFE
<1>11. QED
  BY <1>1, <1>3, <1>4, <1>5, <1>6, <1>7, <1>8, <1>9, <1>10 DEF PinOps, MaskOps

\* The bytes of a request or a reply hold the bits they were counted for.
LEMMA BytesSent ==
    ASSUME NEW bits \in Nat, bits < 60000, NEW k \in 0..3
    PROVE  /\ k + BITS2BYTES(bits) \in Nat
           /\ 8 * k + bits <= Sent(k + BITS2BYTES(bits))
           /\ bits # 0 => BITS2BYTES_unsigned(bits) = BITS2BYTES(bits)
<1>1. BITS2BYTES(bits) \in Nat
  BY BytesType
<1>2. /\ bits <= 8 * BITS2BYTES(bits) /\ BITS2BYTES(bits) <= bits + 1
      /\ bits # 0 => BITS2BYTES_unsigned(bits) = BITS2BYTES(bits)
  BY BytesCover
<1>3. k + BITS2BYTES(bits) \in Nat /\ k + BITS2BYTES(bits) < 65536
  BY <1>1, <1>2
<1>4. Sent(k + BITS2BYTES(bits)) = 8 * (k + BITS2BYTES(bits))
  BY <1>3, SentType
<1>5. QED
  BY <1>1, <1>2, <1>3, <1>4

\* The values of a mask take at most 4080 bits.
LEMMA ListSize ==
    ASSUME NEW m \in SUBSET PinIds, NEW w \in ListWidths
    PROVE  /\ w * Cardinality(m) \in Nat /\ w * Cardinality(m) <= 4080
           /\ Cardinality(m) * w = w * Cardinality(m)
<1>1. PICK n \in Nat : n = Cardinality(m) /\ n <= 255
  BY MaskFinite
<1>2. w * n \in Nat /\ w * n <= 4080 /\ n * w = w * n
  BY <1>1 DEF ListWidths
<1>3. QED
  BY <1>1, <1>2

\* The values of a list come back when they fit and are at most 8 bits wide, when the
\* list starts with a byte, or when they stay below 2^9.
LEMMA ListFits ==
    ASSUME NEW offset \in Nat, NEW m \in SUBSET PinIds, NEW w \in ListWidths, NEW values,
           \A p \in m : values[p] \in SUBSET (0 .. w - 1),
           w <= 8 \/ offset % 8 = 0 \/ \A p \in m : values[p] \subseteq 0..8
    PROVE  ListCarries(offset, m, values, w)
<1>1. w \in 0..16
  BY DEF ListWidths
<1>2. ASSUME NEW p \in m
      PROVE  Carries(value_offset(offset, m, p, w), values[p], w)
  <2>1. PICK at \in Nat : at = value_offset(offset, m, p, w)
    BY ListPlaces
  <2>2. at % 8 \in 0..7
    BY ByteAndBit
  <2>3. CASE w <= 8
    BY <1>1, <2>1, <2>2, <2>3 DEF Carries
  <2>4. CASE offset % 8 = 0 /\ w > 8
    <3>1. w = 16
      BY <2>4 DEF ListWidths
    <3>2. PICK k \in Nat : k = mask_index(m, p)
      BY MaskIndex
    <3>3. at = offset + 16 * k
      BY <2>1, <3>1, <3>2 DEF value_offset
    <3>4. at % 8 = 0
      BY <2>4, <3>3
    <3>5. QED
      BY <1>1, <2>1, <3>1, <3>4 DEF Carries
  <2>5. CASE values[p] \subseteq 0..8
    BY <1>1, <2>1, <2>5 DEF Carries
  <2>6. QED
    BY <1>1, <2>3, <2>4, <2>5
<1>3. QED
  BY <1>2 DEF ListCarries

\* A field behind the pin.
LEMMA FieldBehindPin ==
    ASSUME NEW pin \in Pins, NEW val, NEW w, Carries(8, val, w)
    PROVE  /\ \A i \in 0..7 : i \in write_bit_value(pin_id_bits(pin), 8, val, w)
                                <=> i \in pin_id_bits(pin)
           /\ \A i \in 8 .. 8 + w - 1 : i \in write_bit_value(pin_id_bits(pin), 8, val, w)
                                          <=> i \in FieldBits(8, val, w)
<1>1. pin \in UINT8
  BY FirmwareAssumption DEF Pins, UINT8
<1>2. ToBits(pin) \in SUBSET (0..7)
  BY <1>1, NumberBack
<1>3. Carries(0, ToBits(pin), 8)
  BY <1>2 DEF Carries
<1>4. pin_id_bits(pin) = FieldBits(0, ToBits(pin), 8)
  <2>1. write_bit_value({}, 0, ToBits(pin), 8) = {} \cup FieldBits(0, ToBits(pin), 8)
    BY <1>3, WriteCarried
  <2>2. QED
    BY <2>1 DEF pin_id_bits, PINS_NO_BITS_NB
<1>5. pin_id_bits(pin) \subseteq 0 .. 0 + 8 - 1
  <2>1. FieldBits(0, ToBits(pin), 8) \subseteq 0 .. 0 + 8 - 1
    BY <1>3, FieldRange
  <2>2. QED
    BY <1>4, <2>1
<1>6. FieldBits(8, val, w) \subseteq 8 .. 8 + w - 1
  BY FieldRange
<1>7. write_bit_value(pin_id_bits(pin), 8, val, w) = pin_id_bits(pin) \cup FieldBits(8, val, w)
  BY WriteCarried
<1>8. w \in 0..16
  BY DEF Carries
<1>9. ASSUME NEW i \in 0..7
      PROVE  i \notin FieldBits(8, val, w)
  BY <1>6, <1>8
<1>10. ASSUME NEW i \in 8 .. 8 + w - 1
       PROVE  i \notin pin_id_bits(pin)
  BY <1>5, <1>8
<1>11. QED
  BY <1>7, <1>9, <1>10

\* A request that names one pin and nothing else.
LEMMA PinAsked ==
    ASSUME NEW c, Made(c), c.op \in {"generic_read", "get_type", "get_failsafe"}, NEW junk
    PROVE  /\ requested_pin(received(request(c), junk)) = c.pin_id
           /\ ~use_mask(request(c))
           /\ c.op = "generic_read" => param_type(request(c)) = c.pin_mode
<1>1. c.pin_id \in Pins /\ WellFormed(c)
  BY CallFacts DEF PinOps
<1>2. 1 \in Nat /\ 8 <= Sent(1)
  BY DEF Sent
<1>3. \A cmd, param :
         requested_pin(received(packet(cmd, param, 1, pin_id_bits(c.pin_id)), junk)) = c.pin_id
  BY <1>1, <1>2, PinReceived
<1>4. CASE c.op = "generic_read"
  <2>1. request(c) = packet(CMD_READ, type_param(c.pin_mode, USE_PIN_ID), 1, pin_id_bits(c.pin_id))
    BY <1>4 DEF request, generic_read_request
  <2>2. c.pin_mode \in PinType
    BY <1>1, <1>4 DEF WellFormed
  <2>3. QED
    BY <1>3, <2>1, <2>2, ParamBack
<1>5. CASE c.op = "get_type"
  <2>1. request(c) = packet(CMD_GET_TYPE, USE_PIN_ID, 1, pin_id_bits(c.pin_id))
    BY <1>5 DEF request, get_type_request
  <2>2. QED
    BY <1>3, <1>5, <2>1, PlainParam
<1>6. CASE c.op = "get_failsafe"
  <2>1. request(c) = packet(CMD_GET_FAILSAFE, USE_PIN_ID, 1, pin_id_bits(c.pin_id))
    BY <1>6 DEF request, get_failsafe_request
  <2>2. QED
    BY <1>3, <1>6, <2>1, PlainParam
<1>7. QED
  BY <1>4, <1>5, <1>6

\* A request that names the pins of a mask and nothing else.
LEMMA MaskAsked ==
    ASSUME NEW c, Made(c),
           c.op \in {"read_value_mask", "get_type_mask", "get_failsafe_mask"}, NEW junk
    PROVE  /\ requested_pins(received(request(c), junk)) = c.mask
           /\ use_mask(request(c))
           /\ c.op = "read_value_mask" => param_type(request(c)) = c.type
<1>1. /\ c.mask \in SUBSET Pins /\ c.mask \in SUBSET PinIds /\ conn.nb_pins = NB_PINS
      /\ write_mask({}, c.mask, NB_PINS) = c.mask
      /\ mask_nb_pins_used(c.mask, NB_PINS) = Cardinality(c.mask)
      /\ WellFormed(c) /\ WithinContract(c)
  BY CallFacts DEF MaskOps
<1>2. NB_PINS \in Nat /\ 1 <= NB_PINS /\ NB_PINS <= 255 /\ 0 + NB_PINS = NB_PINS
      /\ \A p \in Pins : 0 + p = p
  BY PinsType
<1>3. ASSUME NEW cmd, NEW param, NEW size \in Nat, NB_PINS <= Sent(size)
      PROVE  requested_pins(received(packet(cmd, param, size, c.mask), junk)) = c.mask
  <2>1. HoldsMask(c.mask, 0, c.mask)
    BY <1>2 DEF HoldsMask
  <2>2. 0 \in Nat /\ 0 + NB_PINS <= Sent(size)
    BY <1>2, <1>3
  <2>3. read_mask(received(packet(cmd, param, size, c.mask), junk), 0, NB_PINS) = c.mask
    BY <1>1, <2>1, <2>2, MaskReceived
  <2>4. QED
    BY <2>3 DEF requested_pins
<1>4. CASE c.op = "read_value_mask"
  <2>1. request(c) = packet(CMD_READ, type_param(c.type, USE_MASK), BITS2BYTES(NB_PINS), c.mask)
    BY <1>1, <1>4 DEF request, read_value_mask_request
  <2>2. c.type \in PinType
    BY <1>1, <1>4 DEF WellFormed
  <2>3. BITS2BYTES(NB_PINS) \in Nat /\ NB_PINS <= Sent(BITS2BYTES(NB_PINS))
    <3>1. 0 + BITS2BYTES(NB_PINS) \in Nat /\ 8 * 0 + NB_PINS <= Sent(0 + BITS2BYTES(NB_PINS))
      BY <1>2, BytesSent
    <3>2. 0 + BITS2BYTES(NB_PINS) = BITS2BYTES(NB_PINS)
      BY <1>2, BytesType
    <3>3. QED
      BY <1>2, <3>1, <3>2
  <2>4. QED
    BY <1>3, <2>1, <2>2, <2>3, ParamBack
<1>5. CASE c.op = "get_type_mask"
  <2> DEFINE n == NB_PINS - 1
  <2>1. n \in Nat /\ n # 0 /\ n < 60000 /\ n % 8 # 0 /\ n + 1 = NB_PINS
    BY <1>2, ContractAssumption
  <2>2. write_mask({}, c.mask, n) = c.mask
    <3>1. \A p \in c.mask : p < n
      BY <1>1, <1>2, <1>5 DEF WithinContract, Pins
    <3>2. QED
      BY <3>1 DEF write_mask
  <2>3. request(c) = packet(CMD_GET_TYPE, USE_MASK, BITS2BYTES_unsigned(n), c.mask)
    BY <1>1, <1>5, <2>2 DEF request, get_type_mask_request
  <2>4. BITS2BYTES_unsigned(n) \in Nat /\ NB_PINS <= Sent(BITS2BYTES_unsigned(n))
    <3> HIDE DEF n
    <3>1. /\ 0 + BITS2BYTES(n) \in Nat /\ 8 * 0 + n <= Sent(0 + BITS2BYTES(n))
          /\ BITS2BYTES_unsigned(n) = BITS2BYTES(n)
      BY <2>1, BytesSent
    <3>2. 0 + BITS2BYTES(n) = BITS2BYTES(n) /\ BITS2BYTES(n) \in Nat
      BY <2>1, BytesType
    <3>3. n # Sent(BITS2BYTES(n))
      BY <2>1, <3>2 DEF Sent
    <3>4. Sent(BITS2BYTES(n)) \in Nat /\ n <= Sent(BITS2BYTES(n))
      BY <2>1, <3>1, <3>2, SentType
    <3>5. QED
      BY <2>1, <3>1, <3>2, <3>3, <3>4
  <2>5. QED
    BY <1>3, <1>5, <2>3, <2>4, PlainParam
<1>6. CASE c.op = "get_failsafe_mask"
  <2> DEFINE n == 3 * Cardinality(c.mask)
  <2>1. /\ n \in Nat /\ n # 0 /\ n < 60000
        /\ Cardinality(c.mask) * PIN_TYPE_BITS_NB = n
        /\ PIN_TYPE_BITS_NB * Cardinality(c.mask) = n
    <3>1. Cardinality(c.mask) \in Nat /\ Cardinality(c.mask) <= 255 /\ IsFiniteSet(c.mask)
      BY <1>1, MaskFinite
    <3>2. c.mask # {}
      BY <1>1, <1>6 DEF WithinContract
    <3>3. Cardinality(c.mask) # 0
      BY <3>1, <3>2, FS_EmptySet
    <3>4. QED
      BY <3>1, <3>3 DEF PIN_TYPE_BITS_NB
  <2>2. request(c) = packet(CMD_GET_FAILSAFE, USE_MASK, BITS2BYTES_unsigned(n), c.mask)
    BY <1>1, <1>6, <2>1 DEF request, get_failsafe_mask_request
  <2>3. NB_PINS <= 8 * BITS2BYTES(n)
    BY <1>1, <1>6, <2>1 DEF WithinContract
  <2>4. BITS2BYTES_unsigned(n) \in Nat /\ NB_PINS <= Sent(BITS2BYTES_unsigned(n))
    <3> HIDE DEF n
    <3>1. BITS2BYTES_unsigned(n) = BITS2BYTES(n) /\ BITS2BYTES(n) <= n + 1
      BY <2>1, BytesCover
    <3>2. BITS2BYTES(n) \in Nat
      BY <2>1, BytesType
    <3>3. Sent(BITS2BYTES(n)) = 8 * BITS2BYTES(n)
      <4>1. BITS2BYTES(n) < 65536
        BY <2>1, <3>1, <3>2
      <4>2. QED
        BY <3>2, <4>1, SentType
    <3>4. QED
      BY <2>3, <3>1, <3>2, <3>3
  <2>5. QED
    BY <1>3, <1>6, <2>2, <2>4, PlainParam
<1>7. QED
  BY <1>4, <1>5, <1>6

-----------------------------------------------------------------------------
(* What the requests that write change on the device.                      *)

\* The pins of the device once c has taken effect on them, as RemotePins has it.
After(c) ==
    [pins_type |-> store(device.pins_type, Remote!NewTypes(c)),
     pins_val  |-> store(device.pins_val, Remote!NewVals(c)),
     failsafe  |-> Remote!NewFailsafe(c, device.failsafe)]

\* RemotePins stores as the device does.
LEMMA RemoteStores ==
    /\ \A f, g : Remote!store(f, g) = store(f, g)
    /\ \A f, timeout, states, values :
          Remote!store_failsafe(f, timeout, states, values)
            = store_failsafe(f, timeout, states, values)
BY DEF Remote!store, store, Remote!store_failsafe, store_failsafe

\* Storing nothing, or the value of one pin.
LEMMA StoreNone ==
    ASSUME NEW D, NEW S, NEW f \in [D -> S]
    PROVE  store(f, << >>) = f
BY DEF store

LEMMA StoreOne ==
    ASSUME NEW D, NEW S, NEW f \in [D -> S], NEW p \in D, NEW v
    PROVE  store(f, Remote!Only(p, v)) = [f EXCEPT ![p] = v]
BY DEF store, Remote!Only

\* The record of the pins, with parts of it replaced.
LEMMA DeviceParts ==
    ASSUME device \in DeviceState
    PROVE  /\ device = [pins_type |-> device.pins_type, pins_val |-> device.pins_val,
                        failsafe |-> device.failsafe]
           /\ \A t : [device EXCEPT !.pins_type = t]
                = [pins_type |-> t, pins_val |-> device.pins_val, failsafe |-> device.failsafe]
           /\ \A v : [device EXCEPT !.pins_val = v]
                = [pins_type |-> device.pins_type, pins_val |-> v, failsafe |-> device.failsafe]
           /\ \A f : [device EXCEPT !.failsafe = f]
                = [pins_type |-> device.pins_type, pins_val |-> device.pins_val, failsafe |-> f]
           /\ \A t, v : [device EXCEPT !.pins_type = t, !.pins_val = v]
                = [pins_type |-> t, pins_val |-> v, failsafe |-> device.failsafe]
           /\ device.pins_type \in [Pins -> PinType] /\ device.pins_val \in [Pins -> Word]
           /\ device.failsafe \in FailsafeOf(Pins)
<1>1. /\ device.pins_type \in [Pins -> PinType] /\ device.pins_val \in [Pins -> Word]
      /\ device.failsafe \in FailsafeOf(Pins)
  BY DEF DeviceState
<1>2. device = [pins_type |-> device.pins_type, pins_val |-> device.pins_val,
                failsafe |-> device.failsafe]
  BY DEF DeviceState
<1>3. PICK a, b, c : device = [pins_type |-> a, pins_val |-> b, failsafe |-> c]
  BY <1>2
<1>4. device.pins_type = a /\ device.pins_val = b /\ device.failsafe = c
  BY <1>3
<1>5. ASSUME NEW t
      PROVE  [device EXCEPT !.pins_type = t] = [pins_type |-> t, pins_val |-> b, failsafe |-> c]
  BY <1>3
<1>6. ASSUME NEW v
      PROVE  [device EXCEPT !.pins_val = v] = [pins_type |-> a, pins_val |-> v, failsafe |-> c]
  BY <1>3
<1>7. ASSUME NEW f
      PROVE  [device EXCEPT !.failsafe = f] = [pins_type |-> a, pins_val |-> b, failsafe |-> f]
  BY <1>3
<1>8. ASSUME NEW t, NEW v
      PROVE  [device EXCEPT !.pins_type = t, !.pins_val = v]
               = [pins_type |-> t, pins_val |-> v, failsafe |-> c]
  <2>1. [device EXCEPT !.pins_type = t, !.pins_val = v]
          = [[device EXCEPT !.pins_type = t] EXCEPT !.pins_val = v]
    OBVIOUS
  <2>2. [device EXCEPT !.pins_type = t] = [pins_type |-> t, pins_val |-> b, failsafe |-> c]
    BY <1>5
  <2>3. [[pins_type |-> t, pins_val |-> b, failsafe |-> c] EXCEPT !.pins_val = v]
          = [pins_type |-> t, pins_val |-> v, failsafe |-> c]
    OBVIOUS
  <2>4. QED
    BY <2>1, <2>2, <2>3
<1>9. QED
  BY <1>1, <1>3, <1>4, <1>5, <1>6, <1>7, <1>8

\* A call that writes nothing leaves the pins alone.
LEMMA Unwritten ==
    ASSUME device \in DeviceState, NEW c,
           c.op \notin {"generic_write", "write_value_mask", "set_type", "set_type_mask",
                        "set_failsafe", "set_failsafe_mask"}
    PROVE  After(c) = device
<1>1. /\ Remote!NewTypes(c) = << >> /\ Remote!NewVals(c) = << >>
      /\ Remote!NewFailsafe(c, device.failsafe) = device.failsafe
  BY DEF Remote!NewTypes, Remote!NewVals, Remote!NewFailsafe
<1>2. /\ store(device.pins_type, << >>) = device.pins_type
      /\ store(device.pins_val, << >>) = device.pins_val
  <2>1. device.pins_type \in [Pins -> PinType] /\ device.pins_val \in [Pins -> Word]
    BY DeviceParts
  <2>2. QED
    BY <2>1, StoreNone
<1>3. After(c) = [pins_type |-> device.pins_type, pins_val |-> device.pins_val,
                  failsafe |-> device.failsafe]
  BY <1>1, <1>2 DEF After
<1>4. QED
  BY <1>3, DeviceParts

\* generic_write: the device finds the pin, the type and the value.
LEMMA PinWritten ==
    ASSUME device \in DeviceState, NEW c, Made(c), c.op = "generic_write",
           req = request(c), NEW junk
    PROVE  treat_write(received(req, junk)) = After(c)
<1> DEFINE w == get_type_bits_nb(c.pin_mode)
           size == BITS2BYTES(8 + w)
           data == write_bit_value(pin_id_bits(c.pin_id), 8, c.val, w)
           head == type_param(c.pin_mode, USE_PIN_ID)
<1>1. /\ c.pin_id \in Pins /\ c.pin_mode \in PinType
      /\ c.val \in SUBSET (0 .. w - 1)
  BY CallFacts DEF PinOps, WellFormed, WithinContract, Fits
<1>2. w \in {0, 1, 8, 16}
  BY WidthType
<1> HIDE DEF w
<1>3. w \in 0..16 /\ 8 + w \in Nat /\ 8 + w < 60000 /\ 0 + (8 + w) = 8 + w
  BY <1>2
<1>4. req = packet(CMD_WRITE, head, size, data)
  BY DEF request, generic_write_request, PINS_NO_BITS_NB, w
<1>5. Carries(8, c.val, w)
  BY <1>1, <1>3 DEF Carries
<1>6. size \in Nat /\ 8 + w <= Sent(size)
  <2>1. 0 + BITS2BYTES(8 + w) \in Nat /\ 8 * 0 + (8 + w) <= Sent(0 + BITS2BYTES(8 + w))
    BY <1>3, BytesSent
  <2>2. 0 + BITS2BYTES(8 + w) = BITS2BYTES(8 + w) /\ 8 * 0 + (8 + w) = 8 + w
    BY <1>3, BytesType
  <2>3. QED
    BY <2>1, <2>2
<1> HIDE DEF size, data, head
<1>7. 8 <= Sent(size)
  BY <1>3, <1>6, SentType
<1>8. /\ \A i \in 0..7 : i \in data <=> i \in pin_id_bits(c.pin_id)
      /\ \A i \in 8 .. 8 + w - 1 : i \in data <=> i \in FieldBits(8, c.val, w)
  BY <1>1, <1>5, FieldBehindPin DEF data
<1>9. requested_pin(received(req, junk)) = c.pin_id
  BY <1>1, <1>4, <1>6, <1>7, <1>8, PinReceived
<1>10. read_bit_value(received(req, junk), 8, w) = c.val
  BY <1>4, <1>5, <1>6, <1>8, FieldReceived
<1>11. ~use_mask(req) /\ param_type(req) = c.pin_mode
  BY <1>1, <1>4, ParamBack DEF head
<1>12. treat_write(received(req, junk))
         = [device EXCEPT !.pins_type[c.pin_id] = c.pin_mode, !.pins_val[c.pin_id] = c.val]
  BY <1>9, <1>10, <1>11 DEF treat_write, treat_write_pin, PINS_NO_BITS_NB, w
<1>13. treat_write(received(req, junk))
         = [pins_type |-> [device.pins_type EXCEPT ![c.pin_id] = c.pin_mode],
            pins_val |-> [device.pins_val EXCEPT ![c.pin_id] = c.val],
            failsafe |-> device.failsafe]
  <2>1. treat_write(received(req, junk))
          = [device EXCEPT !.pins_type = [device.pins_type EXCEPT ![c.pin_id] = c.pin_mode],
                           !.pins_val = [device.pins_val EXCEPT ![c.pin_id] = c.val]]
    BY <1>12 DEF DeviceState
  <2>2. QED
    BY <2>1, DeviceParts
<1>14. /\ Remote!NewTypes(c) = Remote!Only(c.pin_id, c.pin_mode)
       /\ Remote!NewVals(c) = Remote!Only(c.pin_id, c.val)
       /\ Remote!NewFailsafe(c, device.failsafe) = device.failsafe
  BY DEF Remote!NewTypes, Remote!NewVals, Remote!NewFailsafe
<1>15. /\ store(device.pins_type, Remote!Only(c.pin_id, c.pin_mode))
            = [device.pins_type EXCEPT ![c.pin_id] = c.pin_mode]
       /\ store(device.pins_val, Remote!Only(c.pin_id, c.val))
            = [device.pins_val EXCEPT ![c.pin_id] = c.val]
  <2>1. device.pins_type \in [Pins -> PinType] /\ device.pins_val \in [Pins -> Word]
    BY DeviceParts
  <2>2. PICK f, g, p : f = device.pins_type /\ g = device.pins_val /\ p = c.pin_id
    OBVIOUS
  <2>3. /\ store(f, Remote!Only(p, c.pin_mode)) = [f EXCEPT ![p] = c.pin_mode]
        /\ store(g, Remote!Only(p, c.val)) = [g EXCEPT ![p] = c.val]
    <3>1. f \in [Pins -> PinType] /\ g \in [Pins -> Word] /\ p \in Pins
      BY <1>1, <2>1, <2>2
    <3>2. QED
      BY <3>1 DEF store, Remote!Only
  <2>4. QED
    BY <2>2, <2>3
<1>16. QED
  BY <1>13, <1>14, <1>15 DEF After

\* A request whose values follow the mask: the device finds both.
LEMMA ListBehindMask ==
    ASSUME NEW cmd, NEW param, NEW size \in Nat, NEW junk, NEW m \in SUBSET Pins,
           NEW w \in ListWidths, NEW values,
           ListCarries(NB_PINS, m, values, w),
           ListSent(NB_PINS, m, w, size)
    PROVE  LET r == packet(cmd, param, size, write_value_list(m, NB_PINS, m, values, w))
           IN  /\ requested_pins(received(r, junk)) = m
               /\ read_value_list(received(r, junk), NB_PINS, m, w) = OnMask(values, m)
<1> DEFINE data == write_value_list(m, NB_PINS, m, values, w)
           r == packet(cmd, param, size, data)
<1>1. NB_PINS \in Nat /\ m \in SUBSET PinIds /\ Pins \subseteq Nat
  BY PinsType
<1>2. AllBefore(m, NB_PINS)
  BY <1>1 DEF Pins, AllBefore
<1>3. HoldsMask(data, 0, m)
  <2>1. ASSUME NEW p \in Pins
        PROVE  0 + p \in data <=> p \in m
    <3>1. p \in Nat /\ p < NB_PINS /\ 0 + p = p
      BY <1>1 DEF Pins
    <3>2. p \in write_value_list(m, NB_PINS, m, values, w) <=> p \in m
      BY <1>1, <3>1, ListBehind
    <3>3. QED
      BY <3>1, <3>2
  <2>2. QED
    BY <2>1 DEF HoldsMask
<1>4. 0 \in Nat /\ 0 + NB_PINS <= Sent(size)
  <2>1. PICK n \in Nat : n = w * Cardinality(m)
    BY <1>1, ListSize
  <2>2. NB_PINS + n <= Sent(size) /\ Sent(size) \in Nat
    BY <2>1, SentType DEF ListSent
  <2>3. QED
    BY <1>1, <2>1, <2>2
<1>5. read_mask(received(r, junk), 0, NB_PINS) = m
  BY <1>3, <1>4, MaskReceived
<1>6. read_value_list(received(packet(cmd, param, size, data), junk), NB_PINS, m, w)
        = [p \in m |-> values[p]]
  <2>1. HoldsList(data, m, NB_PINS, m, values, w)
    BY DEF HoldsList
  <2> HIDE DEF data
  <2>2. QED
    BY <1>1, <1>2, <2>1, ListReceived DEF OnMask
<1>7. QED
  BY <1>5, <1>6 DEF requested_pins, OnMask

\* write_value_mask: the values are 8 bits wide at most, so a uint8_t holds each.
LEMMA MaskWritten ==
    ASSUME device \in DeviceState, NEW c, Made(c), c.op = "write_value_mask",
           req = request(c), NEW junk
    PROVE  treat_write(received(req, junk)) = After(c)
<1> DEFINE w == get_type_bits_nb(c.type)
           n == w * Cardinality(c.mask)
           size == BITS2BYTES_unsigned(NB_PINS + n)
           head == type_param(c.type, USE_MASK)
<1>1. /\ c.mask \in SUBSET Pins /\ c.mask \in SUBSET PinIds /\ conn.nb_pins = NB_PINS
      /\ write_mask({}, c.mask, NB_PINS) = c.mask
      /\ mask_nb_pins_used(c.mask, NB_PINS) = Cardinality(c.mask)
      /\ WellFormed(c) /\ WithinContract(c)
  BY CallFacts DEF MaskOps
<1>2. /\ c.type \in PinType /\ c.values \in [c.mask -> Word]
      /\ \A p \in c.mask : w <= 8 /\ c.values[p] \in SUBSET (0 .. w - 1)
  BY <1>1 DEF WellFormed, WithinContract, Fits
<1>3. w \in ListWidths /\ w \in Nat
  BY WidthType DEF ListWidths
<1>4. n \in Nat /\ n <= 4080 /\ Cardinality(c.mask) * w = n
  BY <1>1, <1>3, ListSize
<1>5. req = packet(CMD_WRITE, head, size,
                   write_value_list(c.mask, NB_PINS, c.mask, c.values, w))
  BY <1>1, <1>4 DEF request, write_value_mask_request
<1> HIDE DEF n, w, head
<1>6. size \in Nat /\ NB_PINS + n <= Sent(size)
  <2>1. NB_PINS + n \in Nat /\ NB_PINS + n < 60000 /\ NB_PINS + n # 0
    BY <1>4, PinsType
  <2>2. /\ 0 + BITS2BYTES(NB_PINS + n) \in Nat
        /\ 8 * 0 + (NB_PINS + n) <= Sent(0 + BITS2BYTES(NB_PINS + n))
        /\ BITS2BYTES_unsigned(NB_PINS + n) = BITS2BYTES(NB_PINS + n)
    BY <2>1, BytesSent
  <2>3. 0 + BITS2BYTES(NB_PINS + n) = BITS2BYTES(NB_PINS + n)
    BY <2>1, BytesType
  <2>4. QED
    BY <2>1, <2>2, <2>3
<1> HIDE DEF size
<1>7. \A p \in c.mask : c.values[p] \subseteq 0..7
  BY <1>2, <1>3
<1>8. ListCarries(NB_PINS, c.mask, c.values, w)
  <2>1. \A p \in c.mask : c.values[p] \subseteq 0..8
    BY <1>7
  <2>2. \A p \in c.mask : c.values[p] \in SUBSET (0 .. w - 1)
    BY <1>2
  <2>3. NB_PINS \in Nat
    BY PinsType
  <2>4. QED
    BY <1>1, <1>3, <2>1, <2>2, <2>3, ListFits
<1>9. /\ requested_pins(received(req, junk)) = c.mask
      /\ read_value_list(received(req, junk), NB_PINS, c.mask, w)
           = OnMask(c.values, c.mask)
  <2>1. ListSent(NB_PINS, c.mask, w, size)
    BY <1>6 DEF ListSent, n
  <2>2. LET r == packet(CMD_WRITE, head, size, write_value_list(c.mask, NB_PINS, c.mask, c.values, w))
        IN  /\ requested_pins(received(r, junk)) = c.mask
            /\ read_value_list(received(r, junk), NB_PINS, c.mask, w) = OnMask(c.values, c.mask)
    BY <1>1, <1>3, <1>6, <1>8, <2>1, ListBehindMask
  <2>3. QED
    BY <1>5, <2>2
<1>10. use_mask(req) /\ param_type(req) = c.type
  BY <1>2, <1>5, ParamBack DEF head
<1>11. [p \in c.mask |-> to_uint8(OnMask(c.values, c.mask)[p])] = c.values
  BY <1>2, <1>7 DEF to_uint8, OnMask
<1>12. treat_write(received(req, junk))
         = [device EXCEPT !.pins_val = store(device.pins_val, c.values)]
  <2>1. treat_write(received(req, junk)) = treat_write_mask(received(req, junk))
    BY <1>10 DEF treat_write
  <2>2. treat_write_mask(received(req, junk))
          = [device EXCEPT !.pins_val = store(device.pins_val,
               [p \in c.mask |-> to_uint8(OnMask(c.values, c.mask)[p])])]
    BY <1>9, <1>10 DEF treat_write_mask, w, DeviceState
  <2>3. QED
    BY <1>11, <2>1, <2>2
<1>13. /\ Remote!NewTypes(c) = << >>
       /\ Remote!NewVals(c) = c.values
       /\ Remote!NewFailsafe(c, device.failsafe) = device.failsafe
  BY DEF Remote!NewTypes, Remote!NewVals, Remote!NewFailsafe
<1>14. store(device.pins_type, << >>) = device.pins_type
  BY DeviceParts, StoreNone
<1>15. QED
  BY <1>12, <1>13, <1>14, DeviceParts DEF After

\* set_type.
LEMMA TypeWritten ==
    ASSUME device \in DeviceState, NEW c, Made(c), c.op = "set_type",
           req = request(c), NEW junk
    PROVE  treat_set_type(received(req, junk)) = After(c)
<1> DEFINE size == BITS2BYTES(11)
           data == write_bit_value(pin_id_bits(c.pin_id), 8, c.type, 3)
<1>1. c.pin_id \in Pins /\ c.type \in PinType
  BY CallFacts DEF PinOps, WellFormed
<1>2. req = packet(CMD_SET_TYPE, USE_PIN_ID, size, data)
  BY DEF request, set_type_request, PINS_NO_BITS_NB, PIN_TYPE_BITS_NB
<1>3. size = 2 /\ Sent(2) = 16
  BY DEF BITS2BYTES, Sent
<1>4. Carries(8, c.type, 3)
  BY <1>1 DEF Carries, PinType
<1>5. /\ \A i \in 0..7 : i \in data <=> i \in pin_id_bits(c.pin_id)
      /\ \A i \in 8 .. 8 + 3 - 1 : i \in data <=> i \in FieldBits(8, c.type, 3)
  BY <1>1, <1>4, FieldBehindPin
<1> HIDE DEF size, data
<1>6. size \in Nat /\ 8 <= Sent(size) /\ 8 + 3 <= Sent(size)
  BY <1>3
<1>7. requested_pin(received(req, junk)) = c.pin_id
  BY <1>1, <1>2, <1>5, <1>6, PinReceived
<1>8. read_bit_value(received(req, junk), 8, 3) = c.type
  BY <1>2, <1>4, <1>5, <1>6, FieldReceived
<1>9. ~use_mask(req)
  BY <1>2, PlainParam
<1>10. treat_set_type(received(req, junk))
         = [device EXCEPT !.pins_type = [device.pins_type EXCEPT ![c.pin_id] = c.type]]
  BY <1>7, <1>8, <1>9 DEF treat_set_type, PINS_NO_BITS_NB, PIN_TYPE_BITS_NB, DeviceState
<1>11. /\ Remote!NewTypes(c) = Remote!Only(c.pin_id, c.type)
       /\ Remote!NewVals(c) = << >>
       /\ Remote!NewFailsafe(c, device.failsafe) = device.failsafe
  BY DEF Remote!NewTypes, Remote!NewVals, Remote!NewFailsafe
<1>12. /\ store(device.pins_type, Remote!Only(c.pin_id, c.type))
            = [device.pins_type EXCEPT ![c.pin_id] = c.type]
       /\ store(device.pins_val, << >>) = device.pins_val
  <2>1. device.pins_type \in [Pins -> PinType] /\ device.pins_val \in [Pins -> Word]
    BY DeviceParts
  <2>2. PICK f, p : f = device.pins_type /\ p = c.pin_id
    OBVIOUS
  <2>3. store(f, Remote!Only(p, c.type)) = [f EXCEPT ![p] = c.type]
    <3>1. f \in [Pins -> PinType] /\ p \in Pins
      BY <1>1, <2>1, <2>2
    <3>2. QED
      BY <3>1 DEF store, Remote!Only
  <2>4. store(device.pins_val, << >>) = device.pins_val
    BY <2>1, StoreNone
  <2>5. QED
    BY <2>2, <2>3, <2>4
<1>13. QED
  BY <1>10, <1>11, <1>12, DeviceParts DEF After

\* set_type_mask.
LEMMA TypesWritten ==
    ASSUME device \in DeviceState, NEW c, Made(c), c.op = "set_type_mask",
           req = request(c), NEW junk
    PROVE  treat_set_type(received(req, junk)) = After(c)
<1> DEFINE n == 3 * Cardinality(c.mask)
           size == BITS2BYTES(NB_PINS + n)
<1>1. /\ c.mask \in SUBSET Pins /\ c.mask \in SUBSET PinIds /\ conn.nb_pins = NB_PINS
      /\ write_mask({}, c.mask, NB_PINS) = c.mask
      /\ mask_nb_pins_used(c.mask, NB_PINS) = Cardinality(c.mask)
      /\ c.values \in [c.mask -> PinType]
  BY CallFacts DEF MaskOps, WellFormed
<1>2. 3 \in ListWidths
  BY DEF ListWidths
<1>3. n \in Nat /\ n <= 4080
  BY <1>1, <1>2, ListSize
<1>4. req = packet(CMD_SET_TYPE, USE_MASK, size,
                   write_value_list(c.mask, NB_PINS, c.mask, c.values, 3))
  BY <1>1 DEF request, set_type_mask_request, PIN_TYPE_BITS_NB
<1> HIDE DEF n
<1>5. size \in Nat /\ NB_PINS + n <= Sent(size)
  <2>1. NB_PINS + n \in Nat /\ NB_PINS + n < 60000
    BY <1>3, PinsType
  <2>2. /\ 0 + BITS2BYTES(NB_PINS + n) \in Nat
        /\ 8 * 0 + (NB_PINS + n) <= Sent(0 + BITS2BYTES(NB_PINS + n))
    BY <2>1, BytesSent
  <2>3. 0 + BITS2BYTES(NB_PINS + n) = BITS2BYTES(NB_PINS + n)
    BY <2>1, BytesType
  <2>4. QED
    BY <2>1, <2>2, <2>3
<1> HIDE DEF size
<1>6. ListCarries(NB_PINS, c.mask, c.values, 3)
  <2>1. \A p \in c.mask : c.values[p] \in SUBSET (0 .. 3 - 1)
    BY <1>1 DEF PinType
  <2>2. NB_PINS \in Nat /\ 3 <= 8
    BY PinsType
  <2>3. QED
    BY <1>1, <1>2, <2>1, <2>2, ListFits
<1>7. /\ requested_pins(received(req, junk)) = c.mask
      /\ read_value_list(received(req, junk), NB_PINS, c.mask, 3)
           = OnMask(c.values, c.mask)
  <2>1. ListSent(NB_PINS, c.mask, 3, size)
    BY <1>5 DEF ListSent, n
  <2>2. LET r == packet(CMD_SET_TYPE, USE_MASK, size, write_value_list(c.mask, NB_PINS, c.mask, c.values, 3))
        IN  /\ requested_pins(received(r, junk)) = c.mask
            /\ read_value_list(received(r, junk), NB_PINS, c.mask, 3) = OnMask(c.values, c.mask)
    BY <1>1, <1>2, <1>5, <1>6, <2>1, ListBehindMask
  <2>3. QED
    BY <1>4, <2>2
<1>8. use_mask(req) /\ OnMask(c.values, c.mask) = c.values
  BY <1>1, <1>4, PlainParam DEF OnMask
<1>9. treat_set_type(received(req, junk))
        = [device EXCEPT !.pins_type = store(device.pins_type, c.values)]
  <2>1. device.pins_type \in [Pins -> PinType]
    BY DeviceParts
  <2>2. QED
    BY <1>7, <1>8, <2>1 DEF treat_set_type, PIN_TYPE_BITS_NB, DeviceState
<1>10. /\ Remote!NewTypes(c) = c.values
       /\ Remote!NewVals(c) = << >>
       /\ Remote!NewFailsafe(c, device.failsafe) = device.failsafe
  BY DEF Remote!NewTypes, Remote!NewVals, Remote!NewFailsafe
<1>11. store(device.pins_val, << >>) = device.pins_val
  BY DeviceParts, StoreNone
<1>12. QED
  BY <1>9, <1>10, <1>11, DeviceParts DEF After

\* The rank of the only pin of a mask.
LEMMA OnlyPin ==
    ASSUME NEW data, NEW offset \in Nat, NEW p \in Nat, NEW w \in Nat
    PROVE  read_value_list(data, offset, {p}, w)
             = Remote!Only(p, read_bit_value(data, offset, w))
<1>1. {q \in {p} : q < p} = {}
  OBVIOUS
<1>2. mask_index({p}, p) = 0
  BY <1>1, FS_EmptySet DEF mask_index
<1>3. value_offset(offset, {p}, p, w) = offset
  BY <1>2 DEF value_offset
<1>4. QED
  BY <1>3 DEF read_value_list, Remote!Only

\* set_failsafe: the timeout, the pin, the value.
LEMMA FailsafePinWritten ==
    ASSUME device \in DeviceState, NEW c, Made(c), c.op = "set_failsafe",
           req = request(c), NEW junk
    PROVE  treat_set_failsafe(received(req, junk)) = After(c)
<1> DEFINE w == get_type_bits_nb(c.type)
           size == BITS2BYTES(17 + w)
           head == type_param(c.type, USE_PIN_ID)
           data == write_bit_value({}, 0, c.timeout, 16)
                     \cup write_bit_value({}, 16, ToBits(c.pin_id), 8)
                     \cup write_bit_value({}, 24, c.val, w)
<1>1. /\ c.pin_id \in Pins /\ c.type \in PinType /\ c.timeout \in Word
      /\ w # 1 /\ c.val \in SUBSET (0 .. w - 1)
  <2>1. c.pin_id \in Pins /\ c.type \in PinType /\ c.timeout \in Word
    BY CallFacts DEF PinOps, WellFormed
  <2>2. w # 1 /\ FitsFailsafe(c.val, c.type)
    BY CallFacts DEF WithinContract
  <2>3. w \in {0, 1, 8, 16}
    BY WidthType
  <2>4. c.val \subseteq 0 .. (IF w = 16 THEN 9 ELSE w) - 1
    BY <2>2 DEF FitsFailsafe, Fits
  <2> HIDE DEF w
  <2>5. QED
    BY <2>1, <2>2, <2>3, <2>4
<1>2. w \in {0, 8, 16}
  BY <1>1, WidthType
<1>3. req = packet(CMD_SET_FAILSAFE, head, size, data)
  <2>1. TIMEOUT_BITS_NB + 1 + w = 17 + w
    BY <1>2 DEF TIMEOUT_BITS_NB
  <2>2. QED
    BY <2>1 DEF request, set_failsafe_request, PINS_NO_BITS_NB, TIMEOUT_BITS_NB
<1> HIDE DEF w, head
<1>4. size \in Nat /\ 24 + w <= Sent(size) /\ Sent(size) \in Nat
  <2>1. CASE w = 0
    BY <2>1 DEF BITS2BYTES, Sent
  <2>2. CASE w = 8
    BY <2>2 DEF BITS2BYTES, Sent
  <2>3. CASE w = 16
    BY <2>3 DEF BITS2BYTES, Sent
  <2>4. QED
    BY <1>2, <2>1, <2>2, <2>3
<1> HIDE DEF size
<1>5. ToBits(c.pin_id) \in SUBSET (0..7) /\ FromBits(ToBits(c.pin_id)) = c.pin_id
  <2>1. c.pin_id \in UINT8
    BY <1>1, FirmwareAssumption DEF Pins, UINT8
  <2>2. QED
    BY <2>1, NumberBack
<1>6. /\ Carries(0, c.timeout, 16) /\ Carries(16, ToBits(c.pin_id), 8)
      /\ Carries(24, c.val, w)
  BY <1>1, <1>2, <1>5 DEF Carries, Word
<1>7. data = FieldBits(0, c.timeout, 16) \cup FieldBits(16, ToBits(c.pin_id), 8)
                 \cup FieldBits(24, c.val, w)
  <2>1. /\ write_bit_value({}, 0, c.timeout, 16) = {} \cup FieldBits(0, c.timeout, 16)
        /\ write_bit_value({}, 16, ToBits(c.pin_id), 8)
             = {} \cup FieldBits(16, ToBits(c.pin_id), 8)
        /\ write_bit_value({}, 24, c.val, w) = {} \cup FieldBits(24, c.val, w)
    BY <1>6, WriteCarried
  <2>2. QED
    BY <2>1
<1>8. /\ FieldBits(0, c.timeout, 16) \subseteq 0 .. 0 + 16 - 1
      /\ FieldBits(16, ToBits(c.pin_id), 8) \subseteq 16 .. 16 + 8 - 1
      /\ FieldBits(24, c.val, w) \subseteq 24 .. 24 + w - 1
  BY <1>6, FieldRange
<1> HIDE DEF data
<1>9. \A i \in 0 .. 0 + 16 - 1 : i \in data <=> i \in FieldBits(0, c.timeout, 16)
  BY <1>2, <1>7, <1>8
<1>10. \A i \in 16 .. 16 + 8 - 1 : i \in data <=> i \in FieldBits(16, ToBits(c.pin_id), 8)
  BY <1>2, <1>7, <1>8
<1>11. \A i \in 24 .. 24 + w - 1 : i \in data <=> i \in FieldBits(24, c.val, w)
  BY <1>2, <1>7, <1>8
<1>12. 0 + 16 <= Sent(size) /\ 16 + 8 <= Sent(size) /\ 24 + w <= Sent(size)
  BY <1>2, <1>4
<1>13. /\ read_bit_value(received(req, junk), 0, 16) = c.timeout
       /\ read_bit_value(received(req, junk), 16, 8) = ToBits(c.pin_id)
       /\ read_bit_value(received(req, junk), 24, w) = c.val
  <2>1. read_bit_value(received(req, junk), 0, 16) = c.timeout
    BY <1>3, <1>4, <1>6, <1>9, <1>12, FieldReceived
  <2>2. read_bit_value(received(req, junk), 16, 8) = ToBits(c.pin_id)
    BY <1>3, <1>4, <1>6, <1>10, <1>12, FieldReceived
  <2>3. read_bit_value(received(req, junk), 24, w) = c.val
    BY <1>3, <1>4, <1>6, <1>11, <1>12, FieldReceived
  <2>4. QED
    BY <2>1, <2>2, <2>3
<1>14. ~use_mask(req) /\ param_type(req) = c.type
  BY <1>1, <1>3, ParamBack DEF head
<1>15. read_value_list(received(req, junk), 24, {c.pin_id}, w) = Remote!Only(c.pin_id, c.val)
  <2>1. c.pin_id \in Nat /\ w \in Nat
    <3>1. c.pin_id \in Nat
      BY <1>1, PinsType
    <3>2. w \in Nat
      BY <1>2
    <3>3. QED
      BY <3>1, <3>2
  <2>2. read_value_list(received(req, junk), 24, {c.pin_id}, w)
          = Remote!Only(c.pin_id, read_bit_value(received(req, junk), 24, w))
    BY <2>1, OnlyPin
  <2>3. QED
    BY <1>13, <2>2
<1>16. treat_set_failsafe(received(req, junk))
         = [device EXCEPT !.failsafe =
              store_failsafe(device.failsafe, c.timeout, Remote!Only(c.pin_id, c.type),
                             Remote!Only(c.pin_id, c.val))]
  <2>1. [p \in {c.pin_id} |-> c.type] = Remote!Only(c.pin_id, c.type)
    BY DEF Remote!Only
  <2>2. 16 + 8 = 24
    OBVIOUS
  <2>3. treat_set_failsafe(received(req, junk))
          = [device EXCEPT !.failsafe =
               store_failsafe(device.failsafe, c.timeout, [p \in {c.pin_id} |-> c.type],
                              read_value_list(received(req, junk), 24, {c.pin_id}, w))]
    BY <1>5, <1>13, <1>14, <2>2
       DEF treat_set_failsafe, PINS_NO_BITS_NB, TIMEOUT_BITS_NB, w, DeviceState
  <2>4. QED
    BY <1>15, <2>1, <2>3
<1>17. /\ Remote!NewTypes(c) = << >> /\ Remote!NewVals(c) = << >>
       /\ Remote!NewFailsafe(c, device.failsafe)
            = store_failsafe(device.failsafe, c.timeout, Remote!Only(c.pin_id, c.type),
                             Remote!Only(c.pin_id, c.val))
  <2>1. Remote!NewTypes(c) = << >> /\ Remote!NewVals(c) = << >>
    BY DEF Remote!NewTypes, Remote!NewVals
  <2>2. Remote!NewFailsafe(c, device.failsafe)
          = Remote!store_failsafe(device.failsafe, c.timeout, Remote!Only(c.pin_id, c.type),
                                  Remote!Only(c.pin_id, c.val))
    BY DEF Remote!NewFailsafe
  <2>3. QED
    BY <2>1, <2>2, RemoteStores
<1>18. /\ store(device.pins_type, << >>) = device.pins_type
       /\ store(device.pins_val, << >>) = device.pins_val
  <2>1. device.pins_type \in [Pins -> PinType] /\ device.pins_val \in [Pins -> Word]
    BY DeviceParts
  <2>2. QED
    BY <2>1, StoreNone
<1>19. QED
  BY <1>16, <1>17, <1>18, DeviceParts DEF After

\* set_failsafe_mask: the timeout, the mask, the values.
LEMMA FailsafeMaskWritten ==
    ASSUME device \in DeviceState, NEW c, Made(c), c.op = "set_failsafe_mask",
           req = request(c), NEW junk
    PROVE  treat_set_failsafe(received(req, junk)) = After(c)
<1> DEFINE w == get_type_bits_nb(c.type)
           n == w * Cardinality(c.mask)
           first == 16 + NB_PINS
           size == BITS2BYTES(first + n)
           head == type_param(c.type, USE_MASK)
           front == write_bit_value({}, 0, c.timeout, 16) \cup {16 + p : p \in c.mask}
           data == write_value_list(front, first, c.mask, c.values, w)
<1>1. /\ c.mask \in SUBSET Pins /\ c.mask \in SUBSET PinIds /\ conn.nb_pins = NB_PINS
      /\ write_mask({}, c.mask, NB_PINS) = c.mask
      /\ mask_nb_pins_used(c.mask, NB_PINS) = Cardinality(c.mask)
      /\ WellFormed(c) /\ WithinContract(c)
  BY CallFacts DEF MaskOps
<1>2. /\ c.type \in PinType /\ c.timeout \in Word /\ c.values \in [c.mask -> Word]
      /\ \A p \in c.mask : FitsFailsafe(c.values[p], c.type)
  BY <1>1 DEF WellFormed, WithinContract
<1>3. w \in ListWidths /\ w \in {0, 1, 8, 16}
  BY WidthType DEF ListWidths
<1>4. ASSUME NEW p \in c.mask
      PROVE  c.values[p] \in SUBSET (0 .. w - 1) /\ (w <= 8 \/ c.values[p] \subseteq 0..8)
  <2>1. c.values[p] \subseteq 0 .. (IF w = 16 THEN 9 ELSE w) - 1
    BY <1>2 DEF FitsFailsafe, Fits
  <2> HIDE DEF w
  <2>2. QED
    BY <1>3, <2>1
<1>5. n \in Nat /\ n <= 4080 /\ Cardinality(c.mask) * w = n
  BY <1>1, <1>3, ListSize
<1>6. req = packet(CMD_SET_FAILSAFE, head, size, data)
  <2>1. req = set_failsafe_mask_request(c)
    BY DEF request
  <2>2. {16 + p : p \in write_mask({}, c.mask, NB_PINS)} = {16 + p : p \in c.mask}
    BY <1>1
  <2>3. mask_nb_pins_used(c.mask, NB_PINS) * w = n
    BY <1>1, <1>5
  <2>4. set_failsafe_mask_request(c)
          = packet(CMD_SET_FAILSAFE, type_param(c.type, USE_MASK),
                   BITS2BYTES(16 + NB_PINS + mask_nb_pins_used(c.mask, NB_PINS) * w),
                   write_value_list(write_bit_value({}, 0, c.timeout, 16)
                                      \cup {16 + p : p \in write_mask({}, c.mask, NB_PINS)},
                                    16 + NB_PINS, c.mask, c.values, w))
    BY <1>1 DEF set_failsafe_mask_request, TIMEOUT_BITS_NB
  <2>5. QED
    BY <2>1, <2>2, <2>3, <2>4
<1> HIDE DEF n, w, head
<1>7. first \in Nat /\ NB_PINS \in Nat /\ 1 <= NB_PINS /\ NB_PINS <= 255
  BY PinsType
<1>8. size \in Nat /\ first + n <= Sent(size) /\ Sent(size) \in Nat
  <2>1. first + n \in Nat /\ first + n < 60000
    BY <1>5, <1>7
  <2> HIDE DEF first
  <2>2. 0 + BITS2BYTES(first + n) \in Nat /\ 8 * 0 + (first + n) <= Sent(0 + BITS2BYTES(first + n))
    BY <2>1, BytesSent
  <2>3. 0 + BITS2BYTES(first + n) = BITS2BYTES(first + n)
    BY <2>1, BytesType
  <2>4. QED
    BY <2>1, <2>2, <2>3, SentType
<1> HIDE DEF size
<1>9. Carries(0, c.timeout, 16)
  BY <1>2 DEF Carries, Word
<1>10. FieldBits(0, c.timeout, 16) \subseteq 0 .. 0 + 16 - 1
  BY <1>9, FieldRange
<1>11. front = FieldBits(0, c.timeout, 16) \cup {16 + p : p \in c.mask}
  <2>1. write_bit_value({}, 0, c.timeout, 16) = {} \cup FieldBits(0, c.timeout, 16)
    BY <1>9, WriteCarried
  <2>2. QED
    BY <2>1
<1>12. \A p \in Pins : p \in Nat /\ p < NB_PINS
  BY <1>7 DEF Pins
<1>13. AllBefore(front, first)
  <2>1. ASSUME NEW i \in front
        PROVE  i \in Int /\ i < first
    <3>1. CASE i \in FieldBits(0, c.timeout, 16)
      BY <1>7, <1>10, <3>1
    <3>2. CASE i \in {16 + p : p \in c.mask}
      <4>1. PICK p \in c.mask : i = 16 + p
        BY <3>2
      <4>2. p \in Nat /\ p < NB_PINS
        BY <1>1, <1>12
      <4>3. QED
        BY <1>7, <4>1, <4>2
    <3>3. QED
      BY <1>11, <3>1, <3>2
  <2>2. QED
    BY <2>1 DEF AllBefore
<1> HIDE DEF front
<1>14. ListCarries(first, c.mask, c.values, w)
  <2>1. w <= 8 \/ first % 8 = 0 \/ \A p \in c.mask : c.values[p] \subseteq 0..8
    BY <1>4
  <2>2. \A p \in c.mask : c.values[p] \in SUBSET (0 .. w - 1)
    BY <1>4
  <2>3. QED
    BY <1>1, <1>3, <1>7, <2>1, <2>2, ListFits
<1>15. ASSUME NEW i \in Nat, i < first
       PROVE  i \in data <=> i \in front
  BY <1>1, <1>3, <1>7, <1>14, <1>15, ListBehind
<1>16. read_value_list(received(req, junk), first, c.mask, w) = OnMask(c.values, c.mask)
  <2>1. HoldsList(data, front, first, c.mask, c.values, w)
    BY DEF HoldsList
  <2>2. ListSent(first, c.mask, w, size)
    BY <1>8 DEF ListSent, n
  <2> HIDE DEF data, first
  <2>3. read_value_list(received(packet(CMD_SET_FAILSAFE, head, size, data), junk),
                        first, c.mask, w)
          = OnMask(c.values, c.mask)
    BY <1>1, <1>3, <1>7, <1>8, <1>13, <1>14, <2>1, <2>2, ListReceived
  <2>4. QED
    BY <1>6, <2>3
<1> HIDE DEF data
<1>17. read_mask(received(req, junk), 16, NB_PINS) = c.mask
  <2>1. ASSUME NEW p \in Pins
        PROVE  16 + p \in data <=> p \in c.mask
    <3>1. p \in Nat /\ p < NB_PINS
      BY <1>12
    <3>2. 16 + p \in Nat /\ 16 + p < first
      BY <1>7, <3>1
    <3>3. 16 + p \notin FieldBits(0, c.timeout, 16)
      BY <1>10, <3>1
    <3>4. ASSUME NEW q \in c.mask, 16 + q = 16 + p
          PROVE  q = p
      <4>1. q \in Nat
        BY <1>1, <1>12
      <4>2. QED
        BY <3>1, <3>4, <4>1
    <3>5. 16 + p \in front <=> p \in c.mask
      BY <1>11, <3>3, <3>4
    <3>6. QED
      BY <1>15, <3>2, <3>5
  <2>2. HoldsMask(data, 16, c.mask)
    BY <2>1 DEF HoldsMask
  <2>3. 16 + NB_PINS <= Sent(size)
    BY <1>5, <1>7, <1>8
  <2>4. QED
    BY <1>1, <1>6, <1>8, <2>2, <2>3, MaskReceived
<1>18. read_bit_value(received(req, junk), 0, 16) = c.timeout
  <2>1. ASSUME NEW i \in 0 .. 0 + 16 - 1
        PROVE  i \in data <=> i \in FieldBits(0, c.timeout, 16)
    <3>1. i \in Nat /\ i < first /\ i < 16
      BY <1>7
    <3>2. i \notin {16 + p : p \in c.mask}
      <4>1. \A p \in c.mask : p \in Nat
        BY <1>1, <1>12
      <4>2. QED
        BY <3>1, <4>1
    <3>3. QED
      BY <1>11, <1>15, <3>1, <3>2
  <2>2. 0 + 16 <= Sent(size)
    BY <1>5, <1>7, <1>8
  <2>3. QED
    BY <1>6, <1>8, <1>9, <2>1, <2>2, FieldReceived
<1>19. use_mask(req) /\ param_type(req) = c.type
  BY <1>2, <1>6, ParamBack DEF head
<1>20. OnMask(c.values, c.mask) = c.values
  BY <1>2 DEF OnMask
<1>21. treat_set_failsafe(received(req, junk))
         = [device EXCEPT !.failsafe =
              store_failsafe(device.failsafe, c.timeout, [p \in c.mask |-> c.type], c.values)]
  <2>1. treat_set_failsafe(received(req, junk))
          = [device EXCEPT !.failsafe =
               store_failsafe(device.failsafe, c.timeout, [p \in c.mask |-> c.type],
                              read_value_list(received(req, junk), first, c.mask, w))]
    BY <1>17, <1>18, <1>19 DEF treat_set_failsafe, TIMEOUT_BITS_NB, w, DeviceState
  <2>2. QED
    BY <1>16, <1>20, <2>1
<1>22. /\ Remote!NewTypes(c) = << >> /\ Remote!NewVals(c) = << >>
       /\ Remote!NewFailsafe(c, device.failsafe)
            = store_failsafe(device.failsafe, c.timeout, [p \in c.mask |-> c.type], c.values)
  <2>1. Remote!NewTypes(c) = << >> /\ Remote!NewVals(c) = << >>
    BY DEF Remote!NewTypes, Remote!NewVals
  <2>2. Remote!NewFailsafe(c, device.failsafe)
          = Remote!store_failsafe(device.failsafe, c.timeout, [p \in c.mask |-> c.type],
                                  c.values)
    BY DEF Remote!NewFailsafe
  <2>3. QED
    BY <2>1, <2>2, RemoteStores
<1>23. /\ store(device.pins_type, << >>) = device.pins_type
       /\ store(device.pins_val, << >>) = device.pins_val
  <2>1. device.pins_type \in [Pins -> PinType] /\ device.pins_val \in [Pins -> Word]
    BY DeviceParts
  <2>2. QED
    BY <2>1, StoreNone
<1>24. QED
  BY <1>21, <1>22, <1>23, DeviceParts DEF After

-----------------------------------------------------------------------------
(* What holds between the steps of a session within its contract.          *)

\* The pins hold values that fit the width they are used with, and failsafe states
\* that fit a packet.
PinsFit ==
    /\ \A p \in Pins : device.pins_val[p] \in SUBSET (0 .. Width(p) - 1)
    /\ \A p \in Pins : EntryFits(device.failsafe, p)

\* Data, on arrival, tell the application of call c what the device holds.
Told(c, data) ==
    /\ c.op = "get_caps" => FromBits(read_bit_value(data, 8, 8)) = NB_PINS
    /\ c.op = "generic_read" =>
         read_bit_value(data, 8, get_type_bits_nb(c.pin_mode)) = device.pins_val[c.pin_id]
    /\ c.op = "read_value_mask" =>
         read_value_list(data, 8, c.mask, get_type_bits_nb(c.type))
           = OnMask(device.pins_val, c.mask)
    /\ c.op = "get_type" => read_bit_value(data, 8, 3) = device.pins_type[c.pin_id]
    /\ c.op = "get_type_mask" =>
         read_value_list(data, 8, c.mask, 3) = OnMask(device.pins_type, c.mask)
    /\ c.op = "get_failsafe" =>
         /\ read_type(data, 24) = device.failsafe.pin_state[c.pin_id]
         /\ read_bit_value(data, 27, get_type_bits_nb(device.failsafe.pin_state[c.pin_id]))
              = device.failsafe.pin_value[c.pin_id]
    /\ (c.op = "get_failsafe_mask" /\ Remote!Answerable(c, device)) =>
         /\ read_bit_value(data, 8, 16) = device.failsafe.timeout
         /\ read_failsafe_states(data, 24, c.mask)
              = OnMask(device.failsafe.pin_state, c.mask)
         /\ read_failsafe_values(data, 24, c.mask)
              = OnMask(device.failsafe.pin_value, c.mask)

\* So they do whatever the memory behind them holds.
Tells(c, reply) == \A junk \in HeapJunk : Told(c, received(reply, junk))

\* A request on its way, or being served, is that of the pending call, a reply tells
\* what the call asks for.
ContractInv ==
    /\ conn.nb_pins \in {0, NB_PINS}
    /\ PinsFit
    /\ call # NoCall => Made(call)
    /\ driver2device # << >> => Head(driver2device) = request(call)
    /\ req # NoPacket => req = request(call)
    /\ device2driver # << >> => Tells(call, Head(device2driver))

-----------------------------------------------------------------------------
(* The replies, as the driver reads them.                                  *)

\* The packet that send_reply sends.
ReplyOf(cmd, size, data) == packet(cmd, REP_CODE_SUCCESS, size, byte(0, ToBits(ID)) \cup data)

\* The reply id takes the first byte.
LEMMA IdByte ==
    ASSUME DeviceTypeOK
    PROVE  \A i \in byte(0, ToBits(ID)) : i \in Int /\ i < 8
<1>1. ID \in UINT8
  BY FirmwareAssumption DEF DeviceTypeOK, UINT8
<1>2. ToBits(ID) \in SUBSET (0..7)
  BY <1>1, NumberBack
<1>3. PICK o \in Nat : o = 8 * 0
  OBVIOUS
<1>4. byte(0, ToBits(ID)) = FieldBits(o, ToBits(ID), 8) /\ Carries(o, ToBits(ID), 8)
  BY <1>2, <1>3, ByteField
<1>5. byte(0, ToBits(ID)) \subseteq o .. o + 8 - 1
  BY <1>4, FieldRange
<1>6. QED
  BY <1>3, <1>5

\* A value behind the reply id.
LEMMA ReplyField ==
    ASSUME DeviceTypeOK, NEW cmd, NEW size \in Nat, NEW val, NEW w, NEW junk,
           Carries(8, val, w), 8 + w <= Sent(size)
    PROVE  read_bit_value(received(ReplyOf(cmd, size, write_bit_value({}, 8, val, w)), junk),
                          8, w) = val
<1>1. write_bit_value({}, 8, val, w) = {} \cup FieldBits(8, val, w)
  BY WriteCarried
<1>2. w \in 0..16
  BY DEF Carries
<1>3. ASSUME NEW i \in 8 .. 8 + w - 1
      PROVE  i \in byte(0, ToBits(ID)) \cup write_bit_value({}, 8, val, w)
               <=> i \in FieldBits(8, val, w)
  <2>1. i \notin byte(0, ToBits(ID))
    BY <1>2, IdByte
  <2>2. QED
    BY <1>1, <2>1
<1>4. QED
  BY <1>3, FieldReceived DEF ReplyOf

\* A list behind the reply id.
LEMMA ReplyList ==
    ASSUME DeviceTypeOK, NEW cmd, NEW size \in Nat, NEW m \in SUBSET PinIds, NEW values,
           NEW w \in ListWidths, NEW junk,
           ListCarries(8, m, values, w), ListSent(8, m, w, size)
    PROVE  read_value_list(
             received(ReplyOf(cmd, size, write_value_list({}, 8, m, values, w)), junk), 8, m, w)
               = OnMask(values, m)
<1> DEFINE data == byte(0, ToBits(ID)) \cup write_value_list({}, 8, m, values, w)
<1>1. HoldsList(data, {}, 8, m, values, w)
  <2>1. ASSUME NEW i \in Nat, 8 <= i
        PROVE  i \in data <=> i \in write_value_list({}, 8, m, values, w)
    <3>1. i \notin byte(0, ToBits(ID))
      BY <2>1, IdByte
    <3>2. QED
      BY <3>1
  <2>2. QED
    BY <2>1 DEF HoldsList
<1>2. AllBefore({}, 8)
  BY DEF AllBefore
<1> HIDE DEF data
<1>3. read_value_list(received(packet(cmd, REP_CODE_SUCCESS, size, data), junk), 8, m, w)
        = OnMask(values, m)
  BY <1>1, <1>2, ListReceived
<1>4. QED
  BY <1>3 DEF ReplyOf, data

\* The device answers c: it sends a reply that tells what the call asks for.
Answering(c) ==
    \E cmd, size, data : send_reply(cmd, size, data) /\ Tells(c, ReplyOf(cmd, size, data))

\* The device's memory, as far as the replies are made of it.
LEMMA Holds ==
    ASSUME TypeOK
    PROVE  /\ DeviceTypeOK /\ device \in DeviceState
           /\ device.pins_type \in [Pins -> PinType] /\ device.pins_val \in [Pins -> Word]
           /\ device.failsafe \in FailsafeOf(Pins)
           /\ device.failsafe.timeout \in Word
           /\ device.failsafe.pin_state \in [Pins -> Octet]
           /\ device.failsafe.pin_value \in [Pins -> Word]
<1>1. DeviceTypeOK /\ device \in DeviceState
  BY DEF TypeOK, DeviceTypeOK
<1>2. device.failsafe \in FailsafeOf(Pins)
  BY <1>1, DeviceParts
<1>3. QED
  BY <1>1, <1>2, DeviceParts DEF FailsafeOf

\* get_caps: the number of pins is the byte behind the reply id.
LEMMA CapsTold ==
    ASSUME TypeOK, NEW c, c.op = "get_caps", reply_get_caps
    PROVE  Answering(c)
<1> DEFINE types == UNION {byte(p + 2, pins_mask_type) : p \in Pins}
           data == byte(1, ToBits(NB_PINS)) \cup types
           all == byte(0, ToBits(ID)) \cup data
<1>1. send_reply(CMD_GET_CAPS, NB_PINS + 2, data)
  BY DEF reply_get_caps
<1>2. NB_PINS + 2 \in Nat /\ 8 + 8 <= Sent(NB_PINS + 2) /\ NB_PINS \in UINT8
  <2>1. NB_PINS \in Nat /\ 1 <= NB_PINS /\ NB_PINS <= 255
    BY PinsType
  <2>2. NB_PINS + 2 \in Nat /\ NB_PINS + 2 < 65536
    BY <2>1
  <2>3. Sent(NB_PINS + 2) = 8 * (NB_PINS + 2)
    BY <2>2, SentType
  <2>4. QED
    BY <2>1, <2>3, FirmwareAssumption
<1>3. ToBits(NB_PINS) \in SUBSET (0..7) /\ FromBits(ToBits(NB_PINS)) = NB_PINS
  BY <1>2, NumberBack
<1>4. byte(1, ToBits(NB_PINS)) = FieldBits(8, ToBits(NB_PINS), 8) /\ Carries(8, ToBits(NB_PINS), 8)
  <2>1. PICK o \in Nat : o = 8 * 1
    OBVIOUS
  <2>2. byte(1, ToBits(NB_PINS)) = FieldBits(o, ToBits(NB_PINS), 8)
          /\ Carries(o, ToBits(NB_PINS), 8)
    BY <1>3, <2>1, ByteField
  <2>3. o = 8
    BY <2>1
  <2>4. QED
    BY <2>2, <2>3
<1>5. ASSUME NEW i \in types
      PROVE  i \in Int /\ 16 <= i
  <2>1. PICK p \in Pins : i \in byte(p + 2, pins_mask_type)
    OBVIOUS
  <2>2. p \in Nat
    BY PinsType
  <2>3. 31 \in UINT8 /\ 1 + 2 + 4 + 8 + 16 = 31
    BY DEF UINT8
  <2>4. pins_mask_type \in SUBSET (0..7)
    BY <2>3, NumberBack DEF pins_mask_type
  <2>5. PICK j \in 0..7 : i = 8 * (p + 2) + 7 - j
    BY <2>1, <2>4 DEF byte
  <2>6. QED
    BY <2>2, <2>5
<1> HIDE DEF types
<1>6. ASSUME NEW i \in 8 .. 8 + 8 - 1
      PROVE  i \in all <=> i \in FieldBits(8, ToBits(NB_PINS), 8)
  <2>1. i \notin byte(0, ToBits(ID))
    BY Holds, IdByte
  <2>2. i \notin types
    BY <1>5
  <2>3. QED
    BY <1>4, <2>1, <2>2
<1> HIDE DEF all
<1>7. \A junk : read_bit_value(received(packet(CMD_GET_CAPS, REP_CODE_SUCCESS, NB_PINS + 2, all),
                                        junk), 8, 8) = ToBits(NB_PINS)
  BY <1>2, <1>4, <1>6, FieldReceived
<1>8. Tells(c, ReplyOf(CMD_GET_CAPS, NB_PINS + 2, data))
  BY <1>3, <1>7 DEF Tells, Told, ReplyOf, all
<1>9. QED
  BY <1>1, <1>8 DEF Answering

\* The value of one pin.
LEMMA PinTold ==
    ASSUME TypeOK, PinsFit, NEW c, Made(c), c.op = "generic_read", req = request(c),
           NEW junk, reply_read_pin(received(req, junk))
    PROVE  Answering(c)
<1> DEFINE w == get_type_bits_nb(c.pin_mode)
           val == device.pins_val[c.pin_id]
           size == BITS2BYTES(8 + w)
           data == write_bit_value({}, 8, val, w)
<1>1. requested_pin(received(req, junk)) = c.pin_id /\ param_type(req) = c.pin_mode
  BY PinAsked
<1>2. send_reply(CMD_READ, size, data)
  BY <1>1 DEF reply_read_pin, REPLY_ID_BITS_NB
<1>3. w = Width(c.pin_id) /\ c.pin_id \in Pins
  BY CallFacts DEF PinOps, WithinContract
<1>4. w \in {0, 1, 8, 16}
  BY WidthType
<1> HIDE DEF w
<1>5. val \in SUBSET (0 .. w - 1)
  BY <1>3 DEF PinsFit
<1>6. Carries(8, val, w)
  BY <1>4, <1>5 DEF Carries
<1>7. size \in Nat /\ 8 + w <= Sent(size)
  <2>1. 8 + w \in Nat /\ 8 + w < 60000
    BY <1>4
  <2>2. 0 + BITS2BYTES(8 + w) \in Nat /\ 8 * 0 + (8 + w) <= Sent(0 + BITS2BYTES(8 + w))
    BY <2>1, BytesSent
  <2>3. 0 + BITS2BYTES(8 + w) = BITS2BYTES(8 + w)
    BY <2>1, BytesType
  <2>4. QED
    BY <2>1, <2>2, <2>3
<1> HIDE DEF val, size
<1>8. \A junk2 : read_bit_value(received(ReplyOf(CMD_READ, size, data), junk2), 8, w) = val
  BY <1>6, <1>7, Holds, ReplyField
<1>9. Tells(c, ReplyOf(CMD_READ, size, data))
  BY <1>8 DEF Tells, Told, w, val
<1>10. QED
  BY <1>2, <1>9 DEF Answering

\* The values of a mask.
LEMMA MaskTold ==
    ASSUME TypeOK, PinsFit, NEW c, Made(c), c.op = "read_value_mask", req = request(c),
           NEW junk, reply_read_mask(received(req, junk))
    PROVE  Answering(c)
<1> DEFINE w == get_type_bits_nb(c.type)
           n == w * Cardinality(c.mask)
           size == BITS2BYTES(8 + n)
           data == write_value_list({}, 8, c.mask, device.pins_val, w)
<1>1. requested_pins(received(req, junk)) = c.mask /\ param_type(req) = c.type
  BY MaskAsked
<1>2. /\ c.mask \in SUBSET Pins /\ c.mask \in SUBSET PinIds
      /\ mask_nb_pins_used(c.mask, NB_PINS) = Cardinality(c.mask)
      /\ \A p \in c.mask : w = Width(p)
  BY CallFacts DEF MaskOps, WithinContract
<1>3. w \in ListWidths /\ w \in Nat
  BY WidthType DEF ListWidths
<1>4. n \in Nat /\ n <= 4080 /\ Cardinality(c.mask) * w = n
  BY <1>2, <1>3, ListSize
<1>5. send_reply(CMD_READ, size, data)
  BY <1>1, <1>2, <1>4 DEF reply_read_mask, REPLY_ID_BITS_NB
<1> HIDE DEF w, n
<1>6. \A p \in c.mask : device.pins_val[p] \in SUBSET (0 .. w - 1)
  BY <1>2 DEF PinsFit
<1>7. ListCarries(8, c.mask, device.pins_val, w)
  <2>1. 8 % 8 = 0 /\ 8 \in Nat
    OBVIOUS
  <2>2. QED
    BY <1>2, <1>3, <1>6, <2>1, ListFits
<1>8. size \in Nat /\ ListSent(8, c.mask, w, size)
  <2>1. 8 + n \in Nat /\ 8 + n < 60000
    BY <1>4
  <2>2. 0 + BITS2BYTES(8 + n) \in Nat /\ 8 * 0 + (8 + n) <= Sent(0 + BITS2BYTES(8 + n))
    BY <2>1, BytesSent
  <2>3. 0 + BITS2BYTES(8 + n) = BITS2BYTES(8 + n)
    BY <2>1, BytesType
  <2>4. size \in Nat /\ 8 + n <= Sent(size)
    BY <2>1, <2>2, <2>3
  <2>5. QED
    BY <2>4 DEF ListSent, n
<1> HIDE DEF size
<1>9. \A junk2 :
         read_value_list(received(ReplyOf(CMD_READ, size, data), junk2), 8, c.mask, w)
           = OnMask(device.pins_val, c.mask)
  BY <1>2, <1>3, <1>7, <1>8, Holds, ReplyList
<1>10. Tells(c, ReplyOf(CMD_READ, size, data))
  BY <1>9 DEF Tells, Told, w
<1>11. QED
  BY <1>5, <1>10 DEF Answering

\* The type of one pin.
LEMMA TypeTold ==
    ASSUME TypeOK, NEW c, Made(c), c.op = "get_type", req = request(c),
           NEW junk, reply_get_type_pin(received(req, junk))
    PROVE  Answering(c)
<1> DEFINE val == device.pins_type[c.pin_id]
           size == 1 + BITS2BYTES(3)
           data == write_bit_value({}, 8, val, 3)
<1>1. requested_pin(received(req, junk)) = c.pin_id
  BY PinAsked
<1>2. send_reply(CMD_SET_TYPE, size, data)
  BY <1>1 DEF reply_get_type_pin, REPLY_ID_BITS_NB, PIN_TYPE_BITS_NB
<1>3. c.pin_id \in Pins
  BY CallFacts DEF PinOps
<1>4. val \in PinType
  BY <1>3, Holds
<1>5. Carries(8, val, 3)
  BY <1>4 DEF Carries, PinType
<1>6. size \in Nat /\ 8 + 3 <= Sent(size)
  <2>1. size = 2 /\ Sent(2) = 16
    BY DEF BITS2BYTES, Sent
  <2>2. QED
    BY <2>1
<1> HIDE DEF val, size
<1>7. \A junk2 : read_bit_value(received(ReplyOf(CMD_SET_TYPE, size, data), junk2), 8, 3) = val
  BY <1>5, <1>6, Holds, ReplyField
<1>8. Tells(c, ReplyOf(CMD_SET_TYPE, size, data))
  BY <1>7 DEF Tells, Told, val
<1>9. QED
  BY <1>2, <1>8 DEF Answering

\* The types of a mask, which takes one byte when it is empty.
LEMMA TypesTold ==
    ASSUME TypeOK, NEW c, Made(c), c.op = "get_type_mask", req = request(c),
           NEW junk, reply_get_type_mask(received(req, junk))
    PROVE  Answering(c)
<1> DEFINE n == 3 * Cardinality(c.mask)
           size == 1 + BITS2BYTES_unsigned(n)
           data == write_value_list({}, 8, c.mask, device.pins_type, 3)
<1>1. requested_pins(received(req, junk)) = c.mask
  BY MaskAsked
<1>2. /\ c.mask \in SUBSET Pins /\ c.mask \in SUBSET PinIds
      /\ mask_nb_pins_used(c.mask, NB_PINS) = Cardinality(c.mask)
  BY CallFacts DEF MaskOps
<1>3. 3 \in ListWidths
  BY DEF ListWidths
<1>4. n \in Nat /\ n <= 4080 /\ Cardinality(c.mask) * 3 = n
  BY <1>2, <1>3, ListSize
<1>5. send_reply(CMD_SET_TYPE, size, data)
  BY <1>1, <1>2, <1>4 DEF reply_get_type_mask, REPLY_ID_BITS_NB, PIN_TYPE_BITS_NB
<1> HIDE DEF n
<1>6. \A p \in c.mask : device.pins_type[p] \in SUBSET (0 .. 3 - 1)
  BY <1>2, Holds DEF PinType
<1>7. ListCarries(8, c.mask, device.pins_type, 3)
  <2>1. 3 <= 8 /\ 8 \in Nat
    OBVIOUS
  <2>2. QED
    BY <1>2, <1>3, <1>6, <2>1, ListFits
<1>8. size \in Nat /\ 8 + n <= Sent(size)
  <2>1. CASE n = 0
    <3>1. BITS2BYTES_unsigned(n) = 536870912
      BY <2>1 DEF BITS2BYTES_unsigned
    <3>2. size \in Nat /\ size % 65536 = 1
      BY <3>1
    <3>3. Sent(size) = 8
      BY <3>2 DEF Sent
    <3>4. QED
      BY <2>1, <3>2, <3>3
  <2>2. CASE n # 0
    <3>1. n < 60000
      BY <1>4
    <3>2. /\ 1 + BITS2BYTES(n) \in Nat /\ 8 * 1 + n <= Sent(1 + BITS2BYTES(n))
          /\ BITS2BYTES_unsigned(n) = BITS2BYTES(n)
      BY <1>4, <2>2, <3>1, BytesSent
    <3>3. QED
      BY <1>4, <3>2
  <2>3. QED
    BY <2>1, <2>2
<1>9. ListSent(8, c.mask, 3, size)
  BY <1>8 DEF ListSent, n
<1> HIDE DEF size
<1>10. \A junk2 :
          read_value_list(received(ReplyOf(CMD_SET_TYPE, size, data), junk2), 8, c.mask, 3)
            = OnMask(device.pins_type, c.mask)
  BY <1>2, <1>3, <1>7, <1>8, <1>9, Holds, ReplyList
<1>11. Tells(c, ReplyOf(CMD_SET_TYPE, size, data))
  BY <1>10 DEF Tells, Told
<1>12. QED
  BY <1>5, <1>11 DEF Answering

\* The failsafe state of one pin, behind the reply id and the timeout.
LEMMA FailsafePinTold ==
    ASSUME TypeOK, PinsFit, NEW c, Made(c), c.op = "get_failsafe", req = request(c),
           NEW junk, reply_get_failsafe_pin(received(req, junk))
    PROVE  Answering(c)
<1> DEFINE f == device.failsafe
           type == f.pin_state[c.pin_id]
           val == f.pin_value[c.pin_id]
           w == get_type_bits_nb(type)
           size == 3 + BITS2BYTES(3 + w)
           data == write_bit_value({}, 8, f.timeout, 16)
                     \cup write_bit_value({}, 24, type, 3) \cup write_bit_value({}, 27, val, w)
           all == byte(0, ToBits(ID)) \cup data
<1>1. requested_pin(received(req, junk)) = c.pin_id
  BY PinAsked
<1>2. send_reply(CMD_SET_TYPE, size, data)
  BY <1>1 DEF reply_get_failsafe_pin, REPLY_ID_BITS_NB, PIN_TYPE_BITS_NB, TIMEOUT_BITS_NB
<1>3. c.pin_id \in Pins
  BY CallFacts DEF PinOps
<1>4. f.timeout \in Word
  BY Holds
<1>5. EntryFits(f, c.pin_id)
  BY <1>3 DEF PinsFit
<1>6. w \in {0, 1, 8, 16}
  BY WidthType
<1>7. /\ Carries(8, f.timeout, 16) /\ Carries(24, type, 3) /\ Carries(27, val, w)
      /\ type \in PinType
  <2>1. Carries(8, f.timeout, 16)
    BY <1>4 DEF Carries, Word
  <2>2. Carries(24, type, 3) /\ Carries(24 + 3, val, w) /\ type \in PinType
    BY <1>5, EntryCarries DEF EntryFits
  <2>3. 24 + 3 = 27
    OBVIOUS
  <2>4. QED
    BY <2>1, <2>2, <2>3
<1> HIDE DEF f, type, val, w
<1>8. size \in Nat /\ 24 + (3 + w) <= Sent(size)
  <2>1. 3 + w \in Nat /\ 3 + w < 60000
    BY <1>6
  <2>2. 3 + BITS2BYTES(3 + w) \in Nat /\ 8 * 3 + (3 + w) <= Sent(3 + BITS2BYTES(3 + w))
    BY <2>1, BytesSent
  <2>3. QED
    BY <2>1, <2>2
<1> HIDE DEF size
<1>9. data = FieldBits(8, f.timeout, 16) \cup FieldBits(24, type, 3) \cup FieldBits(27, val, w)
  <2>1. /\ write_bit_value({}, 8, f.timeout, 16) = {} \cup FieldBits(8, f.timeout, 16)
        /\ write_bit_value({}, 24, type, 3) = {} \cup FieldBits(24, type, 3)
        /\ write_bit_value({}, 27, val, w) = {} \cup FieldBits(27, val, w)
    BY <1>7, WriteCarried
  <2>2. QED
    BY <2>1
<1>10. /\ FieldBits(8, f.timeout, 16) \subseteq 8 .. 8 + 16 - 1
       /\ FieldBits(24, type, 3) \subseteq 24 .. 24 + 3 - 1
       /\ FieldBits(27, val, w) \subseteq 27 .. 27 + w - 1
  BY <1>7, FieldRange
<1>11. \A i \in byte(0, ToBits(ID)) : i \in Int /\ i < 8
  BY Holds, IdByte
<1> HIDE DEF data
<1>12. \A i \in 24 .. 24 + 3 - 1 : i \in all <=> i \in FieldBits(24, type, 3)
  BY <1>6, <1>9, <1>10, <1>11
<1>13. \A i \in 27 .. 27 + w - 1 : i \in all <=> i \in FieldBits(27, val, w)
  BY <1>6, <1>9, <1>10, <1>11
<1>14. 24 + 3 <= Sent(size) /\ 27 + w <= Sent(size)
  BY <1>6, <1>8, SentType
<1> HIDE DEF all
<1>15. ASSUME NEW junk2
       PROVE  /\ read_bit_value(received(ReplyOf(CMD_SET_TYPE, size, data), junk2), 24, 3) = type
              /\ read_bit_value(received(ReplyOf(CMD_SET_TYPE, size, data), junk2), 27, w) = val
  <2>1. ReplyOf(CMD_SET_TYPE, size, data) = packet(CMD_SET_TYPE, REP_CODE_SUCCESS, size, all)
    BY DEF ReplyOf, all
  <2>2. read_bit_value(received(packet(CMD_SET_TYPE, REP_CODE_SUCCESS, size, all), junk2), 24, 3)
          = type
    BY <1>7, <1>8, <1>12, <1>14, FieldReceived
  <2>3. read_bit_value(received(packet(CMD_SET_TYPE, REP_CODE_SUCCESS, size, all), junk2), 27, w)
          = val
    BY <1>7, <1>8, <1>13, <1>14, FieldReceived
  <2>4. QED
    BY <2>1, <2>2, <2>3
<1>16. to_uint8(type) = type
  <2>1. \A j \in type : j \in 0..7
    BY <1>7 DEF PinType
  <2>2. QED
    BY <2>1 DEF to_uint8
<1>17. Tells(c, ReplyOf(CMD_SET_TYPE, size, data))
  BY <1>15, <1>16 DEF Tells, Told, read_type, PIN_TYPE_BITS_NB, f, type, val, w
<1>18. QED
  BY <1>2, <1>17 DEF Answering

\* The failsafe states of a mask that names no disabled pin; for at most 100 pins the
\* size of the reply is kept whole by its uint8_t.
LEMMA FailsafeMaskTold ==
    ASSUME TypeOK, PinsFit, NEW c, Made(c), c.op = "get_failsafe_mask", req = request(c),
           NEW junk, reply_get_failsafe_mask(received(req, junk))
    PROVE  Answering(c)
<1> DEFINE f == device.failsafe
           m == c.mask
           bits == failsafe_nb_bits(f, m)
           size == (3 + BITS2BYTES(bits)) % 256
           data == write_bit_value({}, 8, f.timeout, 16) \cup write_failsafe(24, f, m)
           all == byte(0, ToBits(ID)) \cup data
           end == 24 + enabled_bits(f, m)
<1>1. requested_pins(received(req, junk)) = m
  BY MaskAsked
<1>2. send_reply(CMD_SET_TYPE, size, data)
  BY <1>1 DEF reply_get_failsafe_mask, REPLY_ID_BITS_NB, TIMEOUT_BITS_NB
<1>3. m \in SUBSET Pins /\ m \in SUBSET PinIds /\ Cardinality(m) <= 100
  BY CallFacts DEF MaskOps, WithinContract
<1>4. f.timeout \in Word
  BY Holds
<1>5. Carries(8, f.timeout, 16)
  BY <1>4 DEF Carries, Word
<1>6. size \in Nat /\ end <= Sent(size) /\ end \in Nat /\ 24 <= end /\ enabled_bits(f, m) \in Nat
  <2>1. PICK n \in Nat, eb \in Nat : n = Cardinality(m) /\ eb = enabled_bits(f, m)
    BY <1>3, MaskFinite, FailsafeBitsType
  <2>2. n <= 100 /\ eb <= 19 * n
    <3>1. eb <= 19 * Cardinality(m)
      BY <1>3, <2>1, EntryBounds
    <3>2. QED
      BY <1>3, <2>1, <3>1
  <2>3. bits = 16 + n + eb
    BY <2>1 DEF failsafe_nb_bits
  <2>4. bits \in Nat /\ bits # 0 /\ bits <= 2016
    BY <2>1, <2>2, <2>3
  <2> HIDE DEF bits
  <2>5. BITS2BYTES(bits) = (bits - 1) \div 8 + 1
    BY <2>4 DEF BITS2BYTES
  <2>6. BITS2BYTES(bits) \in Nat /\ BITS2BYTES(bits) <= 252 /\ bits <= 8 * BITS2BYTES(bits)
    BY <2>4, <2>5
  <2>7. size = 3 + BITS2BYTES(bits)
    BY <2>6
  <2>8. Sent(size) = 8 * size
    <3>1. size \in Nat /\ size < 65536
      BY <2>6, <2>7
    <3> HIDE DEF size
    <3>2. QED
      BY <3>1, SentType
  <2> HIDE DEF size
  <2>9. QED
    BY <2>1, <2>3, <2>6, <2>7, <2>8
<1> HIDE DEF size
<1>7. write_bit_value({}, 8, f.timeout, 16) = FieldBits(8, f.timeout, 16)
  <2>1. write_bit_value({}, 8, f.timeout, 16) = {} \cup FieldBits(8, f.timeout, 16)
    BY <1>5, WriteCarried
  <2>2. QED
    BY <2>1
<1>8. FieldBits(8, f.timeout, 16) \subseteq 8 .. 8 + 16 - 1
  BY <1>5, FieldRange
<1>9. \A i \in byte(0, ToBits(ID)) : i \in Int /\ i < 8
  BY Holds, IdByte
<1>10. ReplyOf(CMD_SET_TYPE, size, data) = packet(CMD_SET_TYPE, REP_CODE_SUCCESS, size, all)
  BY DEF ReplyOf
<1>11. all = byte(0, ToBits(ID)) \cup FieldBits(8, f.timeout, 16) \cup write_failsafe(24, f, m)
  BY <1>7
<1>12. ASSUME Remote!Answerable(c, device), NEW junk2
       PROVE  LET got == received(ReplyOf(CMD_SET_TYPE, size, data), junk2)
              IN  /\ read_bit_value(got, 8, 16) = f.timeout
                  /\ read_failsafe_states(got, 24, m) = OnMask(f.pin_state, m)
                  /\ read_failsafe_values(got, 24, m) = OnMask(f.pin_value, m)
  <2> DEFINE got == received(ReplyOf(CMD_SET_TYPE, size, data), junk2)
  <2>1. EntriesSent(f, m)
    <3>1. \A p \in m : f.pin_state[p] # PIN_TYPE_DISABLED
      BY <1>12 DEF Remote!Answerable, Remote!PIN_TYPE_DISABLED, PIN_TYPE_DISABLED
    <3>2. \A p \in m : EntryFits(f, p)
      BY <1>3 DEF PinsFit
    <3>3. QED
      BY <3>1, <3>2 DEF EntriesSent
  <2>2. \A i \in write_failsafe(24, f, m) : i \in Int /\ 24 <= i
    BY <1>3, <2>1, FailsafeBehind
  <2> HIDE DEF f, m, data, all
  <2>3. \A i \in 8 .. 8 + 16 - 1 : i \in all <=> i \in FieldBits(8, f.timeout, 16)
    BY <1>8, <1>9, <1>11, <2>2
  <2>4. \A i \in 24 .. end - 1 : i \in all <=> i \in write_failsafe(24, f, m)
    BY <1>6, <1>8, <1>9, <1>11
  <2>5. read_bit_value(got, 8, 16) = f.timeout
    <3>1. 8 + 16 <= Sent(size)
      BY <1>6, SentType
    <3>2. read_bit_value(received(packet(CMD_SET_TYPE, REP_CODE_SUCCESS, size, all), junk2),
                         8, 16) = f.timeout
      BY <1>5, <1>6, <2>3, <3>1, FieldReceived
    <3>3. QED
      BY <1>10, <3>2
  <2>6. SameOn(got, write_failsafe(24, f, m), 24, 24 + enabled_bits(f, m))
    <3>1. ASSUME NEW i \in 24 .. end - 1
          PROVE  i \in got <=> i \in write_failsafe(24, f, m)
      <4>1. i \in Nat /\ i < Sent(size)
        BY <1>6, SentType
      <4>2. i \in received(packet(CMD_SET_TYPE, REP_CODE_SUCCESS, size, all), junk2)
              <=> i \in all
        BY <1>6, <4>1, Received
      <4>3. QED
        BY <1>10, <2>4, <4>2
    <3> HIDE DEF got
    <3>2. QED
      BY <3>1 DEF SameOn
  <2> HIDE DEF got
  <2>7. /\ read_failsafe_states(got, 24, m) = OnMask(f.pin_state, m)
        /\ read_failsafe_values(got, 24, m) = OnMask(f.pin_value, m)
    BY <1>3, <2>1, <2>6, FailsafeRead DEF OnMask
  <2>8. QED
    BY <2>5, <2>7 DEF got
<1>13. Tells(c, ReplyOf(CMD_SET_TYPE, size, data))
  <2> HIDE DEF data
  <2>1. QED
    BY <1>12 DEF Tells, Told
<1>14. QED
  BY <1>2, <1>13 DEF Answering

\* A call that asks for nothing is answered with whatever comes.
LEMMA NothingTold ==
    ASSUME NEW c,
           c.op \notin {"get_caps", "generic_read", "read_value_mask", "get_type",
                        "get_type_mask", "get_failsafe", "get_failsafe_mask"},
           NEW reply
    PROVE  Tells(c, reply)
BY DEF Tells, Told

-----------------------------------------------------------------------------
(* The steps.                                                              *)

\* What fits still fits once a call has taken effect: the values it stores,
LEMMA NewValsFit ==
    ASSUME NEW c, Made(c), NEW p \in DOMAIN Remote!NewVals(c)
    PROVE  Remote!NewVals(c)[p] \in SUBSET (0 .. Width(p) - 1)
<1>1. CASE c.op = "generic_write"
  <2>1. c.val \in SUBSET (0 .. Width(c.pin_id) - 1)
    BY <1>1, CallFacts DEF WithinContract, Fits
  <2>2. Remote!NewVals(c) = [q \in {c.pin_id} |-> c.val]
    BY <1>1 DEF Remote!NewVals, Remote!Only
  <2>3. QED
    BY <2>1, <2>2
<1>2. CASE c.op = "write_value_mask"
  <2>1. c.values \in [c.mask -> Word]
    BY <1>2, CallFacts DEF WellFormed
  <2>2. \A q \in c.mask : c.values[q] \in SUBSET (0 .. Width(q) - 1)
    BY <1>2, CallFacts DEF WithinContract, Fits
  <2>3. Remote!NewVals(c) = c.values
    BY <1>2 DEF Remote!NewVals
  <2>4. QED
    BY <2>1, <2>2, <2>3
<1>3. CASE c.op \notin {"generic_write", "write_value_mask"}
  <2>1. Remote!NewVals(c) = << >>
    BY <1>3 DEF Remote!NewVals
  <2>2. QED
    BY <2>1
<1>4. QED
  BY <1>1, <1>2, <1>3

\* and the failsafe states.
LEMMA NewFailsafeFits ==
    ASSUME NEW c, Made(c), NEW f \in FailsafeOf(Pins), NEW p \in Pins, EntryFits(f, p)
    PROVE  EntryFits(Remote!NewFailsafe(c, f), p)
<1>1. /\ f.pin_state \in [Pins -> Octet] /\ f.pin_value \in [Pins -> Word]
      /\ DOMAIN f.pin_state = Pins /\ DOMAIN f.pin_value = Pins
  BY DEF FailsafeOf
<1>2. ASSUME NEW type \in PinType, NEW val, FitsFailsafe(val, type)
      PROVE  val \in SUBSET (0 .. get_type_bits_nb(type) - 1) /\ val \subseteq 0..8
  <2>1. PICK w : w = get_type_bits_nb(type)
    OBVIOUS
  <2>2. w \in {0, 1, 8, 16}
    BY <2>1, WidthType
  <2>3. val \subseteq 0 .. (IF w = 16 THEN 9 ELSE w) - 1
    BY <1>2, <2>1 DEF FitsFailsafe, Fits
  <2>4. val \in SUBSET (0 .. w - 1) /\ val \subseteq 0..8
    BY <2>2, <2>3
  <2>5. QED
    BY <2>1, <2>4
<1>3. ASSUME NEW timeout, NEW states, NEW values, DOMAIN states = DOMAIN values,
             \A q \in DOMAIN states : states[q] \in PinType /\ FitsFailsafe(values[q], states[q])
      PROVE  EntryFits(store_failsafe(f, timeout, states, values), p)
  <2> DEFINE g == store_failsafe(f, timeout, states, values)
  <2>1. /\ g.pin_state[p] = IF p \in DOMAIN states THEN states[p] ELSE f.pin_state[p]
        /\ g.pin_value[p] = IF p \in DOMAIN states THEN values[p] ELSE f.pin_value[p]
    BY <1>1, <1>3 DEF store_failsafe, store
  <2> HIDE DEF g
  <2>2. CASE p \in DOMAIN states
    <3>1. states[p] \in PinType /\ FitsFailsafe(values[p], states[p])
      BY <1>3, <2>2
    <3>2. values[p] \in SUBSET (0 .. get_type_bits_nb(states[p]) - 1) /\ values[p] \subseteq 0..8
      BY <1>2, <3>1
    <3>3. QED
      BY <2>1, <2>2, <3>1, <3>2 DEF EntryFits, g
  <2>3. CASE p \notin DOMAIN states
    BY <2>1, <2>3 DEF EntryFits, g
  <2>4. QED
    BY <2>2, <2>3
<1>4. CASE c.op = "set_failsafe"
  <2>1. c.type \in PinType /\ FitsFailsafe(c.val, c.type)
    BY <1>4, CallFacts DEF WellFormed, WithinContract
  <2>2. PICK states, values :
             states = Remote!Only(c.pin_id, c.type) /\ values = Remote!Only(c.pin_id, c.val)
    OBVIOUS
  <2>3. /\ DOMAIN states = DOMAIN values
        /\ \A q \in DOMAIN states :
              states[q] \in PinType /\ FitsFailsafe(values[q], states[q])
    BY <2>1, <2>2 DEF Remote!Only
  <2>4. Remote!NewFailsafe(c, f) = store_failsafe(f, c.timeout, states, values)
    BY <1>4, <2>2, RemoteStores DEF Remote!NewFailsafe
  <2>5. QED
    BY <1>3, <2>3, <2>4
<1>5. CASE c.op = "set_failsafe_mask"
  <2>1. /\ c.type \in PinType /\ c.values \in [c.mask -> Word]
        /\ \A q \in c.mask : FitsFailsafe(c.values[q], c.type)
    BY <1>5, CallFacts DEF WellFormed, WithinContract
  <2>2. PICK states : states = [q \in c.mask |-> c.type]
    OBVIOUS
  <2>3. /\ DOMAIN states = DOMAIN c.values
        /\ \A q \in DOMAIN states :
              states[q] \in PinType /\ FitsFailsafe(c.values[q], states[q])
    BY <2>1, <2>2
  <2>4. Remote!NewFailsafe(c, f) = store_failsafe(f, c.timeout, states, c.values)
    <3>1. Remote!NewFailsafe(c, f)
            = Remote!store_failsafe(f, c.timeout, [q \in c.mask |-> c.type], c.values)
      BY <1>5 DEF Remote!NewFailsafe
    <3>2. QED
      BY <2>2, <3>1, RemoteStores
  <2>5. QED
    BY <1>3, <2>3, <2>4
<1>6. CASE c.op \notin {"set_failsafe", "set_failsafe_mask"}
  BY <1>6 DEF Remote!NewFailsafe
<1>7. QED
  BY <1>4, <1>5, <1>6

LEMMA StillFits ==
    ASSUME TypeOK, PinsFit, NEW c, Made(c), device' = After(c)
    PROVE  PinsFit'
<1>1. ASSUME NEW p \in Pins
      PROVE  device'.pins_val[p] \in SUBSET (0 .. Width(p) - 1)
  <2>1. device'.pins_val = store(device.pins_val, Remote!NewVals(c))
    BY DEF After
  <2>2. DOMAIN device.pins_val = Pins
    BY Holds
  <2>3. device'.pins_val[p] = IF p \in DOMAIN Remote!NewVals(c) THEN Remote!NewVals(c)[p]
                              ELSE device.pins_val[p]
    BY <2>1, <2>2 DEF store
  <2>4. QED
    BY <2>3, NewValsFit DEF PinsFit
<1>2. ASSUME NEW p \in Pins
      PROVE  EntryFits(device'.failsafe, p)
  <2>1. device'.failsafe = Remote!NewFailsafe(c, device.failsafe)
    BY DEF After
  <2>2. device.failsafe \in FailsafeOf(Pins) /\ EntryFits(device.failsafe, p)
    BY Holds DEF PinsFit
  <2>3. QED
    BY <2>1, <2>2, NewFailsafeFits
<1>3. QED
  BY <1>1, <1>2 DEF PinsFit

\* What a step keeps when the number of pins the driver knows stays.
LEMMA MadeKept ==
    ASSUME conn'.nb_pins = conn.nb_pins, NEW c
    PROVE  (Made(c)' <=> Made(c)) /\ request(c)' = request(c)
<1>1. Made(c)' <=> Made(c)
  BY DEF Made, Callable
<1>2. request(c)' = request(c)
  BY DEF request, read_value_mask_request, write_value_mask_request, get_type_mask_request,
         set_type_mask_request, get_failsafe_mask_request, set_failsafe_mask_request
<1>3. QED
  BY <1>1, <1>2

\* What a step of RemotePins may be, and what of the session it is about.
RemoteStep == [Remote!RNext]_Remote!rvars

\* RemotePins names nothing as the driver does.
LEMMA NoCalls == Remote!NoCall = NoCall /\ Remote!NoAnswer = NoOut
BY DEF Remote!NoCall, NoCall, Remote!NoAnswer, NoOut

\* A packet on its way, or being served, is alone, and its call is pending.
LEMMA Alone ==
    ASSUME TypeOK, StopAndWaitInv
    PROVE  /\ driver2device # << >> =>
                device2driver = << >> /\ req = NoPacket /\ call # NoCall
           /\ req # NoPacket =>
                driver2device = << >> /\ device2driver = << >> /\ call # NoCall
           /\ device2driver # << >> =>
                driver2device = << >> /\ req = NoPacket /\ call # NoCall
           /\ drv = "idle" =>
                /\ call = NoCall /\ driver2device = << >> /\ device2driver = << >>
                /\ req = NoPacket
<1>1. driver2device \in Seq(Packet) /\ device2driver \in Seq(Packet)
  BY DEF TypeOK, LinkTypeOK
<1>2. /\ Len(driver2device) \in Nat /\ (driver2device # << >> => Len(driver2device) >= 1)
      /\ Len(device2driver) \in Nat /\ (device2driver # << >> => Len(device2driver) >= 1)
  BY <1>1, PipeLength
<1>3. /\ Len(driver2device) + Len(device2driver) + (IF req = NoPacket THEN 0 ELSE 1) <= 1
      /\ Len(driver2device) + Len(device2driver) + (IF req = NoPacket THEN 0 ELSE 1) = 1
           => call # NoCall
  BY DEF StopAndWaitInv, StopAndWait, InFlight
<1>4. drv = "idle" => call = NoCall
  BY DEF StopAndWaitInv
<1>5. QED
  BY <1>2, <1>3, <1>4

\* Steps that neither send, nor receive, nor touch driver or device.
LEMMA NothingSent ==
    ASSUME ContractInv, UNCHANGED <<pipes, call, out, device, req>>,
           conn'.nb_pins = conn.nb_pins \/ (call = NoCall /\ conn'.nb_pins = 0),
           driver2device # << >> => call # NoCall, req # NoPacket => call # NoCall
    PROVE  ContractInv' /\ RemoteStep
<1>1. /\ driver2device' = driver2device /\ device2driver' = device2driver
      /\ call' = call /\ out' = out /\ device' = device /\ req' = req
  BY DEF pipes
<1>2. RemoteStep
  BY <1>1 DEF RemoteStep, Remote!rvars
<1>3. conn'.nb_pins \in {0, NB_PINS}
  BY DEF ContractInv
<1>4. PinsFit'
  BY <1>1 DEF ContractInv, PinsFit
<1>5. device2driver' # << >> => Tells(call, Head(device2driver))'
  BY <1>1 DEF ContractInv, Tells, Told
<1>6. CASE conn'.nb_pins = conn.nb_pins
  <2>1. Made(call)' <=> Made(call)
    BY <1>1, <1>6 DEF Made, Callable
  <2>2. request(call)' = request(call)
    BY <1>1, <1>6 DEF request, read_value_mask_request, write_value_mask_request,
              get_type_mask_request, set_type_mask_request, get_failsafe_mask_request,
              set_failsafe_mask_request
  <2>3. QED
    BY <1>1, <1>2, <1>3, <1>4, <1>5, <2>1, <2>2 DEF ContractInv
<1>7. CASE call = NoCall /\ conn'.nb_pins = 0
  <2>1. driver2device = << >> /\ req = NoPacket
    BY <1>7
  <2>2. QED
    BY <1>1, <1>2, <1>3, <1>4, <1>5, <1>7, <2>1 DEF ContractInv
<1>8. QED
  BY <1>6, <1>7

\* A call is made: the request goes into the empty pipe.
LEMMA CallStep ==
    ASSUME TypeOK, StopAndWaitInv, ContractInv, NEW c \in Calls, send_packet(c),
           UNCHANGED deviceVars
    PROVE  ContractInv' /\ RemoteStep
<1>1. /\ call = NoCall /\ driver2device = << >> /\ device2driver = << >> /\ req = NoPacket
  BY Alone DEF send_packet
<1>2. /\ device2driver' = device2driver /\ out' = out /\ conn' = conn /\ device' = device
      /\ req' = req
  BY DEF send_packet, deviceVars
<1>3. CASE DeviceGone
  <2>1. UNCHANGED <<pipes, call, out, device, req>> /\ conn'.nb_pins = conn.nb_pins
    BY <1>2, <1>3 DEF send_packet, pipes
  <2>2. driver2device = << >> /\ req = NoPacket
    BY <1>1
  <2>3. QED
    BY <2>1, <2>2, NothingSent
<1>4. CASE ~DeviceGone
  <2>1. PICK r : r = request(c)
    OBVIOUS
  <2>2. driver2device' = Append(<< >>, r) /\ call' = c
    BY <1>1, <1>4, <2>1 DEF send_packet, connection_write
  <2>3. driver2device' # << >> /\ Head(driver2device') = r
    BY <2>2
  <2>4. Made(c)' /\ request(c)' = r
    <3>1. Made(c)
      BY DEF send_packet, Made, ContractInv
    <3>2. QED
      BY <1>2, <2>1, <3>1, MadeKept
  <2>5. Made(call)' /\ request(call)' = r
    BY <2>2, <2>4 DEF Made, Callable, request, read_value_mask_request,
              write_value_mask_request, get_type_mask_request, set_type_mask_request,
              get_failsafe_mask_request, set_failsafe_mask_request
  <2>6. PinsFit' /\ conn'.nb_pins \in {0, NB_PINS}
    BY <1>2 DEF ContractInv, PinsFit
  <2>7. ContractInv'
    BY <1>1, <1>2, <2>3, <2>5, <2>6 DEF ContractInv
  <2>8. Remote!Invoke(c)
    BY <1>1, <1>2, <2>2, <2>3, NoCalls DEF Remote!Invoke
  <2>9. QED
    BY <2>7, <2>8 DEF RemoteStep, Remote!RNext
<1>5. QED
  BY <1>3, <1>4

\* The device takes the request.
LEMMA ReceiveStep ==
    ASSUME TypeOK, StopAndWaitInv, ContractInv, mainloop_read, UNCHANGED driverVars
    PROVE  ContractInv' /\ RemoteStep
<1>1. /\ driver2device # << >> /\ device2driver = << >> /\ req = NoPacket /\ call # NoCall
  BY Alone DEF mainloop_read
<1>2. /\ call' = call /\ out' = out /\ conn' = conn /\ device' = device
      /\ device2driver' = device2driver /\ driver2device' = << >> /\ req' = Head(driver2device)
  BY DEF mainloop_read, driverVars, unread
<1>3. Head(driver2device) # NoPacket
  <2>1. Head(driver2device) \in Packet
    BY <1>1 DEF TypeOK, LinkTypeOK
  <2>2. QED
    BY <2>1 DEF Packet, NoPacket
<1>4. RemoteStep
  BY <1>1, <1>2, <1>3 DEF RemoteStep, Remote!rvars
<1>5. Made(call)' /\ request(call)' = request(call)
  <2>1. Made(call)
    BY <1>1 DEF ContractInv
  <2>2. QED
    BY <1>2, <2>1 DEF Made, Callable, request, read_value_mask_request,
              write_value_mask_request, get_type_mask_request, set_type_mask_request,
              get_failsafe_mask_request, set_failsafe_mask_request
<1>6. PinsFit' /\ conn'.nb_pins \in {0, NB_PINS}
  BY <1>2 DEF ContractInv, PinsFit
<1>7. Head(driver2device) = request(call)
  BY <1>1 DEF ContractInv
<1>8. ContractInv'
  BY <1>1, <1>2, <1>5, <1>6, <1>7 DEF ContractInv
<1>9. QED
  BY <1>4, <1>8

\* The device serves the request: the call takes effect, and is answered.
LEMMA ServeStep ==
    ASSUME TypeOK, StopAndWaitInv, ContractInv, req # NoPacket, UNCHANGED driverVars,
           NEW cmd, NEW size, NEW data, send_reply(cmd, size, data),
           device' = After(call),
           \/ Tells(call, ReplyOf(cmd, size, data)) /\ UNCHANGED device
           \/ call.op \in {"generic_write", "write_value_mask", "set_type", "set_type_mask",
                           "set_failsafe", "set_failsafe_mask", "ping"}
    PROVE  ContractInv' /\ RemoteStep
<1>1. driver2device = << >> /\ device2driver = << >> /\ call # NoCall /\ Made(call)
  BY Alone DEF ContractInv
<1>2. /\ call' = call /\ out' = out /\ conn' = conn
      /\ driver2device' = driver2device /\ req' = NoPacket
  BY DEF send_reply, driverVars
<1>3. Made(call)'
  BY <1>1, <1>2 DEF Made, Callable
<1>4. PinsFit' /\ conn'.nb_pins \in {0, NB_PINS}
  BY <1>1, <1>2, StillFits DEF ContractInv
<1>5. ASSUME device2driver' # << >>
      PROVE  Tells(call, Head(device2driver))'
  <2>1. PICK r : r = ReplyOf(cmd, size, data)
    OBVIOUS
  <2>2. device2driver' = Append(<< >>, r)
    BY <1>1, <1>5, <2>1 DEF send_reply, connection_write, ReplyOf
  <2>3. Head(device2driver') = r
    BY <2>2
  <2>4. CASE Tells(call, ReplyOf(cmd, size, data)) /\ UNCHANGED device
    BY <1>2, <2>1, <2>3, <2>4 DEF Tells, Told
  <2>5. CASE call.op \in {"generic_write", "write_value_mask", "set_type", "set_type_mask",
                          "set_failsafe", "set_failsafe_mask", "ping"}
    BY <1>2, <2>5 DEF Tells, Told
  <2>6. QED
    BY <2>4, <2>5
<1>6. ContractInv'
  BY <1>1, <1>2, <1>3, <1>4, <1>5 DEF ContractInv
<1>7. device' = [pins_type |-> Remote!store(device.pins_type, Remote!NewTypes(call)),
                 pins_val  |-> Remote!store(device.pins_val, Remote!NewVals(call)),
                 failsafe  |-> Remote!NewFailsafe(call, device.failsafe)]
  <2>1. /\ Remote!store(device.pins_type, Remote!NewTypes(call))
             = store(device.pins_type, Remote!NewTypes(call))
        /\ Remote!store(device.pins_val, Remote!NewVals(call))
             = store(device.pins_val, Remote!NewVals(call))
    BY RemoteStores
  <2>2. QED
    BY <2>1 DEF After
<1>8. Remote!Perform
  <2>1. call # Remote!NoCall
    BY <1>1, NoCalls
  <2>2. ~(call # NoCall /\ driver2device = << >> /\ req = NoPacket)
    OBVIOUS
  <2>3. (call # NoCall /\ driver2device = << >> /\ req = NoPacket)' = TRUE
    BY <1>1, <1>2
  <2>4. QED
    BY <1>2, <1>7, <2>1, <2>2, <2>3 DEF Remote!Perform
<1>9. QED
  BY <1>6, <1>8 DEF RemoteStep, Remote!RNext

\* Every handler serves its request.
LEMMA HandlerStep ==
    ASSUME TypeOK, StopAndWaitInv, ContractInv, UNCHANGED driverVars,
           \/ reply_get_caps \/ reply_reset \/ reply_ping
           \/ reply_read \/ reply_write \/ reply_get_type \/ reply_set_type
           \/ reply_get_failsafe \/ reply_set_failsafe
    PROVE  ContractInv' /\ RemoteStep
<1>1. req # NoPacket
  BY NotNone DEF reply_get_caps, reply_reset, reply_ping, reply_read, reply_write,
       reply_get_type, reply_set_type, reply_get_failsafe, reply_set_failsafe,
       CMD_GET_CAPS, CMD_RESET, CMD_PING, CMD_READ, CMD_WRITE, CMD_GET_TYPE, CMD_SET_TYPE,
       CMD_GET_FAILSAFE, CMD_SET_FAILSAFE
<1>2. call # NoCall /\ req = request(call) /\ Made(call) /\ PinsFit
  BY <1>1, Alone DEF ContractInv
<1>3. DeviceTypeOK /\ device \in DeviceState
  BY Holds
<1>4. ASSUME Answering(call), UNCHANGED device,
             call.op \notin {"generic_write", "write_value_mask", "set_type", "set_type_mask",
                             "set_failsafe", "set_failsafe_mask"}
      PROVE  ContractInv' /\ RemoteStep
  <2>1. device' = After(call)
    BY <1>3, <1>4, Unwritten
  <2>2. PICK cmd, size, data :
             send_reply(cmd, size, data) /\ Tells(call, ReplyOf(cmd, size, data))
    BY <1>4 DEF Answering
  <2>3. QED
    BY <1>1, <1>4, <2>1, <2>2, ServeStep
<1>5. ASSUME NEW cmd, NEW size, NEW data, send_reply(cmd, size, data), device' = After(call),
             call.op \in {"generic_write", "write_value_mask", "set_type", "set_type_mask",
                          "set_failsafe", "set_failsafe_mask"}
      PROVE  ContractInv' /\ RemoteStep
  <2>1. call.op \in {"generic_write", "write_value_mask", "set_type", "set_type_mask",
                     "set_failsafe", "set_failsafe_mask", "ping"}
    BY <1>5
  <2>2. QED
    BY <1>1, <1>5, <2>1, ServeStep
<1>6. /\ req.cmd = CMD_GET_CAPS <=> call.op = "get_caps"
      /\ req.cmd # CMD_RESET
      /\ req.cmd = CMD_PING <=> call.op = "ping"
      /\ req.cmd = CMD_READ <=> call.op \in {"generic_read", "read_value_mask"}
      /\ req.cmd = CMD_WRITE <=> call.op \in {"generic_write", "write_value_mask"}
      /\ req.cmd = CMD_GET_TYPE <=> call.op \in {"get_type", "get_type_mask"}
      /\ req.cmd = CMD_SET_TYPE <=> call.op \in {"set_type", "set_type_mask"}
      /\ req.cmd = CMD_GET_FAILSAFE <=> call.op \in {"get_failsafe", "get_failsafe_mask"}
      /\ req.cmd = CMD_SET_FAILSAFE <=> call.op \in {"set_failsafe", "set_failsafe_mask"}
  BY <1>2, RequestCmd
<1>7. CASE reply_get_caps
  <2>1. call.op = "get_caps" /\ UNCHANGED device
    BY <1>6, <1>7 DEF reply_get_caps, serving
  <2>2. Answering(call)
    BY <1>7, <2>1, CapsTold
  <2>3. QED
    BY <1>4, <2>1, <2>2
<1>8. CASE reply_reset
  BY <1>6, <1>8 DEF reply_reset, serving
<1>9. CASE reply_ping
  <2>1. call.op = "ping" /\ UNCHANGED device
    BY <1>6, <1>9 DEF reply_ping, serving
  <2>2. PICK cmd, size, data : send_reply(cmd, size, data)
    BY <1>9 DEF reply_ping
  <2>3. Answering(call)
    BY <2>1, <2>2, NothingTold DEF Answering
  <2>4. QED
    BY <1>4, <2>1, <2>3
<1>10. CASE reply_read
  <2>1. call.op \in {"generic_read", "read_value_mask"} /\ UNCHANGED device
    BY <1>6, <1>10 DEF reply_read, serving
  <2>2. PICK junk \in HeapJunk :
             IF use_mask(req) THEN reply_read_mask(received(req, junk))
                              ELSE reply_read_pin(received(req, junk))
    BY <1>10 DEF reply_read
  <2>3. CASE call.op = "generic_read"
    <3>1. ~use_mask(req)
      BY <1>2, <2>3, PinAsked
    <3>2. reply_read_pin(received(req, junk))
      BY <2>2, <3>1
    <3>3. Answering(call)
      BY <1>2, <2>3, <3>2, PinTold
    <3>4. QED
      BY <1>4, <2>1, <2>3, <3>3
  <2>4. CASE call.op = "read_value_mask"
    <3>1. use_mask(req)
      BY <1>2, <2>4, MaskAsked
    <3>2. reply_read_mask(received(req, junk))
      BY <2>2, <3>1
    <3>3. Answering(call)
      BY <1>2, <2>4, <3>2, MaskTold
    <3>4. QED
      BY <1>4, <2>1, <2>4, <3>3
  <2>5. QED
    BY <2>1, <2>3, <2>4
<1>11. CASE reply_write
  <2>1. call.op \in {"generic_write", "write_value_mask"}
    BY <1>6, <1>11 DEF reply_write, serving
  <2>2. PICK junk \in HeapJunk : device' = treat_write(received(req, junk))
    BY <1>11 DEF reply_write
  <2>3. device' = After(call)
    <3>1. CASE call.op = "generic_write"
      BY <1>2, <1>3, <2>2, <3>1, PinWritten
    <3>2. CASE call.op = "write_value_mask"
      BY <1>2, <1>3, <2>2, <3>2, MaskWritten
    <3>3. QED
      BY <2>1, <3>1, <3>2
  <2>4. send_reply(CMD_WRITE, 1, {})
    BY <1>11 DEF reply_write
  <2>5. QED
    BY <1>5, <2>1, <2>3, <2>4
<1>12. CASE reply_get_type
  <2>1. call.op \in {"get_type", "get_type_mask"} /\ UNCHANGED device
    BY <1>6, <1>12 DEF reply_get_type, serving
  <2>2. PICK junk \in HeapJunk :
             IF use_mask(req) THEN reply_get_type_mask(received(req, junk))
                              ELSE reply_get_type_pin(received(req, junk))
    BY <1>12 DEF reply_get_type
  <2>3. CASE call.op = "get_type"
    <3>1. ~use_mask(req)
      BY <1>2, <2>3, PinAsked
    <3>2. reply_get_type_pin(received(req, junk))
      BY <2>2, <3>1
    <3>3. Answering(call)
      BY <1>2, <2>3, <3>2, TypeTold
    <3>4. QED
      BY <1>4, <2>1, <2>3, <3>3
  <2>4. CASE call.op = "get_type_mask"
    <3>1. use_mask(req)
      BY <1>2, <2>4, MaskAsked
    <3>2. reply_get_type_mask(received(req, junk))
      BY <2>2, <3>1
    <3>3. Answering(call)
      BY <1>2, <2>4, <3>2, TypesTold
    <3>4. QED
      BY <1>4, <2>1, <2>4, <3>3
  <2>5. QED
    BY <2>1, <2>3, <2>4
<1>13. CASE reply_set_type
  <2>1. call.op \in {"set_type", "set_type_mask"}
    BY <1>6, <1>13 DEF reply_set_type, serving
  <2>2. PICK junk \in HeapJunk : device' = treat_set_type(received(req, junk))
    BY <1>13 DEF reply_set_type
  <2>3. device' = After(call)
    <3>1. CASE call.op = "set_type"
      BY <1>2, <1>3, <2>2, <3>1, TypeWritten
    <3>2. CASE call.op = "set_type_mask"
      BY <1>2, <1>3, <2>2, <3>2, TypesWritten
    <3>3. QED
      BY <2>1, <3>1, <3>2
  <2>4. send_reply(CMD_SET_TYPE, 1, {})
    BY <1>13 DEF reply_set_type
  <2>5. QED
    BY <1>5, <2>1, <2>3, <2>4
<1>14. CASE reply_get_failsafe
  <2>1. call.op \in {"get_failsafe", "get_failsafe_mask"} /\ UNCHANGED device
    BY <1>6, <1>14 DEF reply_get_failsafe, serving
  <2>2. PICK junk \in HeapJunk :
             IF use_mask(req) THEN reply_get_failsafe_mask(received(req, junk))
                              ELSE reply_get_failsafe_pin(received(req, junk))
    BY <1>14 DEF reply_get_failsafe
  <2>3. CASE call.op = "get_failsafe"
    <3>1. ~use_mask(req)
      BY <1>2, <2>3, PinAsked
    <3>2. reply_get_failsafe_pin(received(req, junk))
      BY <2>2, <3>1
    <3>3. Answering(call)
      BY <1>2, <2>3, <3>2, FailsafePinTold
    <3>4. QED
      BY <1>4, <2>1, <2>3, <3>3
  <2>4. CASE call.op = "get_failsafe_mask"
    <3>1. use_mask(req)
      BY <1>2, <2>4, MaskAsked
    <3>2. reply_get_failsafe_mask(received(req, junk))
      BY <2>2, <3>1
    <3>3. Answering(call)
      BY <1>2, <2>4, <3>2, FailsafeMaskTold
    <3>4. QED
      BY <1>4, <2>1, <2>4, <3>3
  <2>5. QED
    BY <2>1, <2>3, <2>4
<1>15. CASE reply_set_failsafe
  <2>1. call.op \in {"set_failsafe", "set_failsafe_mask"}
    BY <1>6, <1>15 DEF reply_set_failsafe, serving
  <2>2. PICK junk \in HeapJunk : device' = treat_set_failsafe(received(req, junk))
    BY <1>15 DEF reply_set_failsafe
  <2>3. device' = After(call)
    <3>1. CASE call.op = "set_failsafe"
      BY <1>2, <1>3, <2>2, <3>1, FailsafePinWritten
    <3>2. CASE call.op = "set_failsafe_mask"
      BY <1>2, <1>3, <2>2, <3>2, FailsafeMaskWritten
    <3>3. QED
      BY <2>1, <3>1, <3>2
  <2>4. send_reply(CMD_SET_TYPE, 1, {})
    BY <1>15 DEF reply_set_failsafe
  <2>5. QED
    BY <1>5, <2>1, <2>3, <2>4
<1>16. QED
  BY <1>7, <1>8, <1>9, <1>10, <1>11, <1>12, <1>13, <1>14, <1>15

\* A call returns with the answer, or its process is killed by a null pointer.
Returned(op) ==
    /\ read_reply(op)
    /\ \/ UNCHANGED <<conn, call, out>>
       \/ /\ call' = NoCall
          /\ conn'.nb_pins \in {0, NB_PINS}
          /\ Remote!Answerable(call, device) => out' = Remote!Answer(call, device)

LEMMA ReturnStep ==
    ASSUME TypeOK, StopAndWaitInv, ContractInv, UNCHANGED deviceVars, NEW op, Returned(op)
    PROVE  ContractInv' /\ RemoteStep
<1>1. driver2device = << >> /\ req = NoPacket /\ call # NoCall
  BY Alone DEF Returned, read_reply
<1>2. /\ device2driver' = << >> /\ driver2device' = << >> /\ device' = device /\ req' = NoPacket
  BY <1>1 DEF Returned, read_reply, unread, deviceVars
<1>3. PinsFit'
  BY <1>2 DEF ContractInv, PinsFit
<1>4. CASE UNCHANGED <<conn, call, out>>
  <2>1. Made(call)'
    BY <1>1, <1>4 DEF ContractInv, Made, Callable
  <2>2. ContractInv'
    BY <1>2, <1>3, <1>4, <2>1 DEF ContractInv
  <2>3. RemoteStep
    BY <1>1, <1>2, <1>4 DEF RemoteStep, Remote!rvars
  <2>4. QED
    BY <2>2, <2>3
<1>5. CASE /\ call' = NoCall
           /\ conn'.nb_pins \in {0, NB_PINS}
           /\ Remote!Answerable(call, device) => out' = Remote!Answer(call, device)
  <2>1. ContractInv'
    BY <1>2, <1>3, <1>5 DEF ContractInv
  <2>2. Remote!Return
    <3>1. (call # NoCall /\ driver2device = << >> /\ req = NoPacket)' = FALSE
      BY <1>5
    <3>2. QED
      BY <1>1, <1>2, <1>5, <3>1, NoCalls DEF Remote!Return
  <2>3. QED
    BY <2>1, <2>2 DEF RemoteStep, Remote!RNext
<1>6. QED
  BY <1>4, <1>5 DEF Returned

\* Storing into the mirror keeps the number of its pins.
LEMMA Stored ==
    ASSUME ContractInv, NEW newConn, NEW result, ReturnStoring(newConn, result),
           newConn.nb_pins = conn.nb_pins,
           Remote!Answerable(call, device) => result = Remote!Answer(call, device),
           NEW op, read_reply(op)
    PROVE  Returned(op)
BY DEF ReturnStoring, Return, Returned, ContractInv

\* What the reply says of the pending call.
LEMMA ReplyTells ==
    ASSUME TypeOK, StopAndWaitInv, ContractInv, NEW op, read_reply(op), NEW junk \in HeapJunk
    PROVE  Told(call, received(Reply, junk)) /\ Made(call) /\ call.op = op
<1>1. device2driver # << >> /\ call.op = op
  BY DEF read_reply
<1>2. call # NoCall
  BY <1>1, Alone
<1>3. QED
  BY <1>1, <1>2 DEF ContractInv, Tells, Reply

\* A call that returns nothing.
LEMMA NothingReturned ==
    ASSUME call.op \in {"get_caps", "ping", "generic_write", "write_value_mask", "set_type",
                        "set_type_mask", "set_failsafe", "set_failsafe_mask"}
    PROVE  Remote!Answer(call, device) = NoOut
BY DEF Remote!Answer, Remote!NoAnswer, NoOut

\* connection_init_resources takes the number of pins from the reply.
LEMMA CapsReturned ==
    ASSUME TypeOK, StopAndWaitInv, ContractInv, get_caps
    PROVE  Returned("get_caps")
<1>1. PICK junk \in HeapJunk :
           LET data    == received(Reply, junk)
               nb_pins == FromBits(read_bit_value(data, REPLY_ID_BITS_NB, PINS_NO_BITS_NB))
           IN  conn' = read_device_caps(connection_init_resources(nb_pins, junk), data)
  BY DEF get_caps
<1>2. Told(call, received(Reply, junk)) /\ call.op = "get_caps"
  BY ReplyTells DEF get_caps
<1>3. FromBits(read_bit_value(received(Reply, junk), 8, 8)) = NB_PINS
  BY <1>2 DEF Told
<1>4. conn' = read_device_caps(connection_init_resources(NB_PINS, junk), received(Reply, junk))
  BY <1>1, <1>3 DEF REPLY_ID_BITS_NB, PINS_NO_BITS_NB
<1>5. conn'.nb_pins = NB_PINS
  BY <1>4 DEF read_device_caps, connection_init_resources
<1>6. out' = Remote!Answer(call, device)
  BY <1>2, NothingReturned DEF get_caps
<1>7. QED
  BY <1>5, <1>6 DEF get_caps, Returned, Return

\* A call that returns values of pins.
LEMMA ValsReturned ==
    ASSUME TypeOK, StopAndWaitInv, ContractInv, generic_read \/ read_value_mask
    PROVE  \E op : Returned(op)
<1>1. CASE generic_read
  <2> DEFINE w == get_type_bits_nb(call.pin_mode)
             got(junk) == read_bit_value(received(Reply, junk), REPLY_ID_BITS_NB, w)
  <2>1. PICK junk \in HeapJunk :
             ReturnStoring([conn EXCEPT !.pins_val =
                               store(conn.pins_val, [p \in {call.pin_id} |-> got(junk)])],
                           Vals([p \in {call.pin_id} |-> got(junk)]))
    BY <1>1 DEF generic_read, TypeOK, DriverTypeOK, Connection
  <2>2. Told(call, received(Reply, junk)) /\ call.op = "generic_read"
    BY <1>1, ReplyTells DEF generic_read
  <2>3. got(junk) = device.pins_val[call.pin_id]
    BY <2>2 DEF Told, REPLY_ID_BITS_NB
  <2> HIDE DEF got
  <2>4. PICK read, val : read = [p \in {call.pin_id} |-> val] /\ val = got(junk)
    OBVIOUS
  <2>5. Vals(read) = Remote!Answer(call, device)
    <3>1. Remote!Of(device.pins_val, call) = read
      BY <2>2, <2>3, <2>4 DEF Remote!Of, Remote!Named
    <3>2. Remote!Answer(call, device) = [Remote!NoAnswer EXCEPT !.vals = read]
      BY <2>2, <3>1 DEF Remote!Answer
    <3>3. QED
      BY <3>2 DEF Remote!NoAnswer, Vals
  <2>6. PICK newConn : newConn = [conn EXCEPT !.pins_val = store(conn.pins_val, read)]
    OBVIOUS
  <2>7. newConn.nb_pins = conn.nb_pins
    BY <2>6 DEF TypeOK, DriverTypeOK, Connection
  <2>8. ReturnStoring(newConn, Vals(read))
    BY <2>1, <2>4, <2>6
  <2>9. QED
    BY <1>1, <2>5, <2>7, <2>8, Stored DEF generic_read
<1>2. CASE read_value_mask
  <2> DEFINE w == get_type_bits_nb(call.type)
             got(junk) == read_value_list(received(Reply, junk), REPLY_ID_BITS_NB,
                                          call.mask, w)
  <2>1. PICK junk \in HeapJunk :
             ReturnStoring([conn EXCEPT !.pins_val = store(conn.pins_val, got(junk))],
                           Vals(got(junk)))
    BY <1>2 DEF read_value_mask, TypeOK, DriverTypeOK, Connection
  <2>2. Told(call, received(Reply, junk)) /\ call.op = "read_value_mask"
    BY <1>2, ReplyTells DEF read_value_mask
  <2>3. got(junk) = OnMask(device.pins_val, call.mask)
    BY <2>2 DEF Told, REPLY_ID_BITS_NB
  <2> HIDE DEF got
  <2>4. PICK read : read = got(junk)
    OBVIOUS
  <2>5. Vals(read) = Remote!Answer(call, device)
    <3>1. Remote!Of(device.pins_val, call) = read
      BY <2>2, <2>3, <2>4 DEF Remote!Of, Remote!Named, OnMask
    <3>2. Remote!Answer(call, device) = [Remote!NoAnswer EXCEPT !.vals = read]
      BY <2>2, <3>1 DEF Remote!Answer
    <3>3. QED
      BY <3>2 DEF Remote!NoAnswer, Vals
  <2>6. PICK newConn : newConn = [conn EXCEPT !.pins_val = store(conn.pins_val, read)]
    OBVIOUS
  <2>7. newConn.nb_pins = conn.nb_pins
    BY <2>6 DEF TypeOK, DriverTypeOK, Connection
  <2>8. ReturnStoring(newConn, Vals(read))
    BY <2>1, <2>4, <2>6
  <2>9. QED
    BY <1>2, <2>5, <2>7, <2>8, Stored DEF read_value_mask
<1>3. QED
  BY <1>1, <1>2

\* A call that returns types of pins.
LEMMA TypesReturned ==
    ASSUME TypeOK, StopAndWaitInv, ContractInv, get_type \/ get_type_mask
    PROVE  \E op : Returned(op)
<1>1. CASE get_type
  <2> DEFINE got(junk) == read_bit_value(received(Reply, junk), REPLY_ID_BITS_NB,
                                         PIN_TYPE_BITS_NB)
  <2>1. PICK junk \in HeapJunk :
             ReturnStoring([conn EXCEPT !.pins_type =
                               store(conn.pins_type, [p \in {call.pin_id} |-> got(junk)])],
                           Types([p \in {call.pin_id} |-> got(junk)]))
    BY <1>1 DEF get_type, TypeOK, DriverTypeOK, Connection
  <2>2. Told(call, received(Reply, junk)) /\ call.op = "get_type"
    BY <1>1, ReplyTells DEF get_type
  <2>3. got(junk) = device.pins_type[call.pin_id]
    BY <2>2 DEF Told, REPLY_ID_BITS_NB, PIN_TYPE_BITS_NB
  <2> HIDE DEF got
  <2>4. PICK read, type : read = [p \in {call.pin_id} |-> type] /\ type = got(junk)
    OBVIOUS
  <2>5. Types(read) = Remote!Answer(call, device)
    <3>1. Remote!Of(device.pins_type, call) = read
      BY <2>2, <2>3, <2>4 DEF Remote!Of, Remote!Named
    <3>2. Remote!Answer(call, device) = [Remote!NoAnswer EXCEPT !.types = read]
      BY <2>2, <3>1 DEF Remote!Answer
    <3>3. QED
      BY <3>2 DEF Remote!NoAnswer, Types
  <2>6. PICK newConn : newConn = [conn EXCEPT !.pins_type = store(conn.pins_type, read)]
    OBVIOUS
  <2>7. newConn.nb_pins = conn.nb_pins
    BY <2>6 DEF TypeOK, DriverTypeOK, Connection
  <2>8. ReturnStoring(newConn, Types(read))
    BY <2>1, <2>4, <2>6
  <2>9. QED
    BY <1>1, <2>5, <2>7, <2>8, Stored DEF get_type
<1>2. CASE get_type_mask
  <2> DEFINE got(junk) == read_value_list(received(Reply, junk), REPLY_ID_BITS_NB,
                                          call.mask, PIN_TYPE_BITS_NB)
  <2>1. PICK junk \in HeapJunk :
             ReturnStoring([conn EXCEPT !.pins_type = store(conn.pins_type, got(junk))],
                           Types(got(junk)))
    BY <1>2 DEF get_type_mask, TypeOK, DriverTypeOK, Connection
  <2>2. Told(call, received(Reply, junk)) /\ call.op = "get_type_mask"
    BY <1>2, ReplyTells DEF get_type_mask
  <2>3. got(junk) = OnMask(device.pins_type, call.mask)
    BY <2>2 DEF Told, REPLY_ID_BITS_NB, PIN_TYPE_BITS_NB
  <2> HIDE DEF got
  <2>4. PICK read : read = got(junk)
    OBVIOUS
  <2>5. Types(read) = Remote!Answer(call, device)
    <3>1. Remote!Of(device.pins_type, call) = read
      BY <2>2, <2>3, <2>4 DEF Remote!Of, Remote!Named, OnMask
    <3>2. Remote!Answer(call, device) = [Remote!NoAnswer EXCEPT !.types = read]
      BY <2>2, <3>1 DEF Remote!Answer
    <3>3. QED
      BY <3>2 DEF Remote!NoAnswer, Types
  <2>6. PICK newConn : newConn = [conn EXCEPT !.pins_type = store(conn.pins_type, read)]
    OBVIOUS
  <2>7. newConn.nb_pins = conn.nb_pins
    BY <2>6 DEF TypeOK, DriverTypeOK, Connection
  <2>8. ReturnStoring(newConn, Types(read))
    BY <2>1, <2>4, <2>6
  <2>9. QED
    BY <1>2, <2>5, <2>7, <2>8, Stored DEF get_type_mask
<1>3. QED
  BY <1>1, <1>2

\* get_failsafe leaves the mirror alone.
LEMMA FailsafePinReturned ==
    ASSUME TypeOK, StopAndWaitInv, ContractInv, get_failsafe
    PROVE  Returned("get_failsafe")
<1>1. PICK junk \in HeapJunk :
           LET data == received(Reply, junk)
               type == read_type(data, 24)
               val  == read_bit_value(data, 27, get_type_bits_nb(type))
           IN  out' = [vals |-> [p \in {call.pin_id} |-> val],
                       types |-> [p \in {call.pin_id} |-> type], timeout |-> {}]
  <2>1. REPLY_ID_BITS_NB + TIMEOUT_BITS_NB = 24
    BY DEF REPLY_ID_BITS_NB, TIMEOUT_BITS_NB
  <2>2. QED
    BY <2>1 DEF get_failsafe
<1>2. Told(call, received(Reply, junk)) /\ call.op = "get_failsafe"
  BY ReplyTells DEF get_failsafe
<1>3. PICK val, type : /\ type = device.failsafe.pin_state[call.pin_id]
                       /\ val = device.failsafe.pin_value[call.pin_id]
  OBVIOUS
<1>4. out' = [vals |-> [p \in {call.pin_id} |-> val],
              types |-> [p \in {call.pin_id} |-> type], timeout |-> {}]
  <2>1. /\ read_type(received(Reply, junk), 24) = type
        /\ read_bit_value(received(Reply, junk), 27, get_type_bits_nb(type)) = val
    BY <1>2, <1>3 DEF Told
  <2>2. QED
    BY <1>1, <2>1
<1>5. /\ Remote!Of(device.failsafe.pin_value, call) = [p \in {call.pin_id} |-> val]
      /\ Remote!Of(device.failsafe.pin_state, call) = [p \in {call.pin_id} |-> type]
  BY <1>2, <1>3 DEF Remote!Of, Remote!Named
<1>6. Remote!Answer(call, device)
        = [vals |-> Remote!Of(device.failsafe.pin_value, call),
           types |-> Remote!Of(device.failsafe.pin_state, call), timeout |-> {}]
  BY <1>2 DEF Remote!Answer
<1>7. conn' = conn
  BY DEF get_failsafe
<1>8. QED
  BY <1>4, <1>5, <1>6, <1>7 DEF get_failsafe, Returned, Return, ContractInv

\* get_failsafe_mask, when no pin of the mask is disabled.
LEMMA FailsafeMaskReturned ==
    ASSUME TypeOK, StopAndWaitInv, ContractInv, get_failsafe_mask
    PROVE  Returned("get_failsafe_mask")
<1>1. PICK junk \in HeapJunk :
           LET data    == received(Reply, junk)
               timeout == read_bit_value(data, 8, 16)
               states  == read_failsafe_states(data, 24, call.mask)
               values  == read_failsafe_values(data, 24, call.mask)
           IN  ReturnStoring([conn EXCEPT !.failsafe =
                                 store_failsafe(conn.failsafe, conn.failsafe.timeout,
                                                states, values)],
                             [vals |-> values, types |-> states, timeout |-> timeout])
  <2>1. REPLY_ID_BITS_NB + TIMEOUT_BITS_NB = 24
    BY DEF REPLY_ID_BITS_NB, TIMEOUT_BITS_NB
  <2>2. QED
    BY <2>1 DEF get_failsafe_mask, TypeOK, DriverTypeOK, Connection,
                REPLY_ID_BITS_NB, TIMEOUT_BITS_NB
<1>2. Told(call, received(Reply, junk)) /\ call.op = "get_failsafe_mask"
  BY ReplyTells DEF get_failsafe_mask
<1>3. PICK timeout, states, values :
           /\ timeout = read_bit_value(received(Reply, junk), 8, 16)
           /\ states = read_failsafe_states(received(Reply, junk), 24, call.mask)
           /\ values = read_failsafe_values(received(Reply, junk), 24, call.mask)
  OBVIOUS
<1>4. PICK newConn :
           newConn = [conn EXCEPT !.failsafe =
                         store_failsafe(conn.failsafe, conn.failsafe.timeout, states, values)]
  OBVIOUS
<1>5. PICK result : result = [vals |-> values, types |-> states, timeout |-> timeout]
  OBVIOUS
<1>6. ReturnStoring(newConn, result)
  BY <1>1, <1>3, <1>4, <1>5
<1>7. newConn.nb_pins = conn.nb_pins
  BY <1>4 DEF TypeOK, DriverTypeOK, Connection
<1>8. ASSUME Remote!Answerable(call, device)
      PROVE  result = Remote!Answer(call, device)
  <2>1. /\ timeout = device.failsafe.timeout
        /\ states = OnMask(device.failsafe.pin_state, call.mask)
        /\ values = OnMask(device.failsafe.pin_value, call.mask)
    BY <1>2, <1>3, <1>8 DEF Told
  <2>2. /\ Remote!Of(device.failsafe.pin_value, call) = values
        /\ Remote!Of(device.failsafe.pin_state, call) = states
    BY <1>2, <2>1 DEF Remote!Of, Remote!Named, OnMask
  <2>3. Remote!Answer(call, device)
          = [vals |-> Remote!Of(device.failsafe.pin_value, call),
             types |-> Remote!Of(device.failsafe.pin_state, call),
             timeout |-> device.failsafe.timeout]
    BY <1>2 DEF Remote!Answer
  <2>4. QED
    BY <1>5, <2>1, <2>2, <2>3
<1>9. QED
  BY <1>6, <1>7, <1>8, Stored DEF get_failsafe_mask

\* A call that writes tells the mirror what it wrote, and returns nothing.
LEMMA WriteReturned ==
    ASSUME TypeOK, StopAndWaitInv, ContractInv,
           \/ generic_write \/ write_value_mask \/ set_type \/ set_type_mask
           \/ set_failsafe \/ set_failsafe_mask
    PROVE  \E op : Returned(op)
<1>1. ASSUME NEW newConn, ReturnStoring(newConn, NoOut), newConn.nb_pins = conn.nb_pins,
             NEW op, read_reply(op),
             op \in {"generic_write", "write_value_mask", "set_type", "set_type_mask",
                     "set_failsafe", "set_failsafe_mask"}
      PROVE  Returned(op)
  <2>1. NoOut = Remote!Answer(call, device)
    BY <1>1, NothingReturned DEF read_reply
  <2>2. PICK result : result = NoOut
    OBVIOUS
  <2>3. QED
    BY <1>1, <2>1, <2>2, Stored
<1>2. /\ \A v : [conn EXCEPT !.pins_val = v].nb_pins = conn.nb_pins
      /\ \A t : [conn EXCEPT !.pins_type = t].nb_pins = conn.nb_pins
      /\ \A f : [conn EXCEPT !.failsafe = f].nb_pins = conn.nb_pins
  BY DEF TypeOK, DriverTypeOK, Connection
<1>3. CASE generic_write
  <2>1. PICK v : ReturnStoring([conn EXCEPT !.pins_val = v], NoOut)
    BY <1>3 DEF generic_write, TypeOK, DriverTypeOK, Connection
  <2>2. QED
    BY <1>1, <1>2, <1>3, <2>1 DEF generic_write
<1>4. CASE write_value_mask
  <2>1. PICK v : ReturnStoring([conn EXCEPT !.pins_val = v], NoOut)
    BY <1>4 DEF write_value_mask, TypeOK, DriverTypeOK, Connection
  <2>2. QED
    BY <1>1, <1>2, <1>4, <2>1 DEF write_value_mask
<1>5. CASE set_type
  <2>1. PICK t : ReturnStoring([conn EXCEPT !.pins_type = t], NoOut)
    BY <1>5 DEF set_type, TypeOK, DriverTypeOK, Connection
  <2>2. QED
    BY <1>1, <1>2, <1>5, <2>1 DEF set_type
<1>6. CASE set_type_mask
  <2>1. PICK t : ReturnStoring([conn EXCEPT !.pins_type = t], NoOut)
    BY <1>6 DEF set_type_mask, TypeOK, DriverTypeOK, Connection
  <2>2. QED
    BY <1>1, <1>2, <1>6, <2>1 DEF set_type_mask
<1>7. CASE set_failsafe
  <2>1. PICK f : ReturnStoring([conn EXCEPT !.failsafe = f], NoOut)
    BY <1>7 DEF set_failsafe, TypeOK, DriverTypeOK, Connection
  <2>2. QED
    BY <1>1, <1>2, <1>7, <2>1 DEF set_failsafe
<1>8. CASE set_failsafe_mask
  <2>1. PICK f : ReturnStoring([conn EXCEPT !.failsafe = f], NoOut)
    BY <1>8 DEF set_failsafe_mask, TypeOK, DriverTypeOK, Connection
  <2>2. QED
    BY <1>1, <1>2, <1>8, <2>1 DEF set_failsafe_mask
<1>9. QED
  BY <1>3, <1>4, <1>5, <1>6, <1>7, <1>8

-----------------------------------------------------------------------------
(* The refinement.                                                         *)

\* Nothing is on its way at first, and the pins are as RemotePins starts them.
LEMMA ContractInit == Init => ContractInv /\ Remote!RInit
<1> SUFFICES ASSUME Init PROVE ContractInv /\ Remote!RInit
  OBVIOUS
<1>1. /\ conn = NoCaps /\ call = NoCall /\ out = NoOut /\ req = NoPacket
      /\ driver2device = << >> /\ device2driver = << >>
  BY DEF Init, LinkInit, DriverInit, DeviceInit
<1>2. PICK f : f = new_failsafe(Pins)
  OBVIOUS
<1>3. device = [pins_type |-> [p \in Pins |-> PIN_TYPE_DIGITAL],
                pins_val  |-> [p \in Pins |-> {}], failsafe  |-> f]
  BY <1>2 DEF Init, DeviceInit
<1>4. PinsFit
  <2>1. device.failsafe = f /\ \A p \in Pins : device.pins_val[p] = {}
    BY <1>3
  <2>2. ASSUME NEW p \in Pins
        PROVE  EntryFits(f, p)
    <3>1. f.pin_state[p] = PIN_TYPE_DISABLED /\ f.pin_value[p] = {}
      BY <1>2 DEF new_failsafe
    <3>2. QED
      BY <3>1 DEF EntryFits, PinType, PIN_TYPE_DISABLED, get_type_bits_nb, PIN_TYPE_DIGITAL,
                  PIN_TYPE_ANALOG8, PIN_TYPE_ANALOG16, PIN_TYPE_PWM8, PIN_TYPE_PWM16
  <2>3. QED
    BY <2>1, <2>2 DEF PinsFit
<1>5. ContractInv
  BY <1>1, <1>4 DEF ContractInv, NoCaps
<1>6. Remote!RInit
  <2>1. Remote!PIN_TYPE_DIGITAL = PIN_TYPE_DIGITAL /\ Remote!new_failsafe(Pins) = f
    BY <1>2 DEF Remote!PIN_TYPE_DIGITAL, PIN_TYPE_DIGITAL, Remote!new_failsafe, new_failsafe,
                Remote!PIN_TYPE_DISABLED, PIN_TYPE_DISABLED
  <2>2. (call # NoCall /\ driver2device = << >> /\ req = NoPacket) = FALSE
    BY <1>1
  <2>3. QED
    BY <1>1, <1>3, <2>1, <2>2, NoCalls DEF Remote!RInit
<1>7. QED
  BY <1>5, <1>6

\* Every step of the driver, and so of the application, is one of RemotePins.
LEMMA DriverContract ==
    ASSUME TypeOK, StopAndWaitInv, ContractInv, DriverNext, UNCHANGED deviceVars
    PROVE  ContractInv' /\ RemoteStep
<1>1. driver2device # << >> => call # NoCall
  BY Alone
<1>2. req # NoPacket => call # NoCall
  BY Alone
<1>3. ASSUME connection_open_in \/ connection_open_out \/ connection_opened
               \/ DriverKilled \/ read_reply_failed
      PROVE  ContractInv' /\ RemoteStep
  <2>1. UNCHANGED <<pipes, call, out, device, req>> /\ conn'.nb_pins = conn.nb_pins
    BY <1>3 DEF connection_open_in, connection_open_out, connection_opened, DriverKilled,
                read_reply_failed, driverVars, deviceVars
  <2>2. QED
    BY <1>1, <1>2, <2>1, NothingSent
<1>4. CASE connection_close
  <2>1. call = NoCall
    BY <1>4, Alone DEF connection_close
  <2>2. UNCHANGED <<pipes, call, out, device, req>> /\ conn'.nb_pins = 0
    BY <1>4 DEF connection_close, deviceVars, NoCaps
  <2>3. QED
    BY <1>1, <1>2, <2>1, <2>2, NothingSent
<1>5. CASE \E c \in Calls : send_packet(c)
  BY <1>5, CallStep
<1>6. ASSUME NEW op, Returned(op)
      PROVE  ContractInv' /\ RemoteStep
  BY <1>6, ReturnStep
<1>7. CASE get_caps
  BY <1>6, <1>7, CapsReturned
<1>8. CASE reset
  <2>1. PICK junk : junk \in HeapJunk
    BY LinkAssumption
  <2>2. Made(call) /\ call.op = "reset"
    BY <1>8, <2>1, ReplyTells DEF reset
  <2>3. QED
    BY <2>2, ContractAssumption DEF Made, Callable, WithinContract
<1>9. CASE ping
  <2>1. PICK junk : junk \in HeapJunk
    BY LinkAssumption
  <2>2. call.op = "ping"
    BY <1>9, <2>1, ReplyTells DEF ping
  <2>3. out' = Remote!Answer(call, device)
    BY <1>9, <2>2, NothingReturned DEF ping
  <2>4. conn' = conn /\ call' = NoCall /\ read_reply("ping")
    BY <1>9 DEF ping, Return
  <2>5. Returned("ping")
    BY <2>3, <2>4 DEF Returned, ContractInv
  <2>6. QED
    BY <1>6, <2>5
<1>10. CASE generic_read \/ read_value_mask
  BY <1>6, <1>10, ValsReturned
<1>11. CASE get_type \/ get_type_mask
  BY <1>6, <1>11, TypesReturned
<1>12. CASE get_failsafe
  BY <1>6, <1>12, FailsafePinReturned
<1>13. CASE get_failsafe_mask
  BY <1>6, <1>13, FailsafeMaskReturned
<1>14. CASE \/ generic_write \/ write_value_mask \/ set_type \/ set_type_mask
            \/ set_failsafe \/ set_failsafe_mask
  BY <1>6, <1>14, WriteReturned
<1>15. QED
  BY <1>3, <1>4, <1>5, <1>7, <1>8, <1>9, <1>10, <1>11, <1>12, <1>13, <1>14
     DEF DriverNext, DriverOpens, DriverReturns, ApplicationNext

\* And every step of the device.
LEMMA DeviceContract ==
    ASSUME TypeOK, StopAndWaitInv, ContractInv, DeviceNext, UNCHANGED driverVars
    PROVE  ContractInv' /\ RemoteStep
<1>1. /\ driver2device # << >> => call # NoCall
      /\ req # NoPacket => call # NoCall
  BY Alone
<1>2. ASSUME init_communication \/ open_out_done \/ open_in_done \/ mainloop_end
               \/ DeviceKilled
      PROVE  ContractInv' /\ RemoteStep
  <2>1. UNCHANGED <<pipes, call, out, device, req>> /\ conn'.nb_pins = conn.nb_pins
    BY <1>2 DEF init_communication, open_out_done, open_in_done, mainloop_end,
                DeviceKilled, driverVars, deviceVars
  <2>2. QED
    BY <1>1, <2>1, NothingSent
<1>3. CASE mainloop_read
  BY <1>3, ReceiveStep
<1>4. CASE \/ reply_get_caps \/ reply_reset \/ reply_ping
           \/ reply_read \/ reply_write \/ reply_get_type \/ reply_set_type
           \/ reply_get_failsafe \/ reply_set_failsafe
  BY <1>4, HandlerStep
<1>5. QED
  BY <1>2, <1>3, <1>4 DEF DeviceNext, DeviceRuns

\* ContractInv is inductive, next to the type and to the one packet at a time, and
\* every step of the session is a step of the remote registers or leaves them alone.
LEMMA ContractStep ==
    ASSUME TypeOK, StopAndWaitInv, ContractInv, [Next]_vars
    PROVE  ContractInv' /\ RemoteStep
<1>1. CASE DriverNext /\ UNCHANGED deviceVars
  BY <1>1, DriverContract
<1>2. CASE DeviceNext /\ UNCHANGED driverVars
  BY <1>2, DeviceContract
<1>3. CASE UNCHANGED vars
  <2>1. UNCHANGED <<pipes, call, out, device, req>> /\ conn'.nb_pins = conn.nb_pins
    BY <1>3 DEF vars, linkVars, driverVars, deviceVars
  <2>2. /\ driver2device # << >> => call # NoCall
        /\ req # NoPacket => call # NoCall
    BY Alone
  <2>3. QED
    BY <2>1, <2>2, NothingSent
<1>4. QED
  BY <1>1, <1>2, <1>3 DEF Next, Finished

\* What a session never leaves.
LEMMA Always == Spec => [](TypeOK /\ StopAndWaitInv /\ ContractInv)
<1>1. Init => StopAndWaitInv
  BY InitStopsAndWaits
<1>2. ASSUME TypeOK, StopAndWaitInv, [Next]_vars
      PROVE  StopAndWaitInv'
  BY <1>2, StepStopsAndWaits
<1>3. Init => ContractInv
  BY ContractInit
<1>4. TypeOK /\ StopAndWaitInv /\ ContractInv /\ [Next]_vars => ContractInv'
  BY ContractStep
<1>5. QED
  BY <1>1, <1>2, <1>3, <1>4, TypeCorrect, PTL DEF Spec

\* ImplementsRemotePins: whatever the number and the classes of the pins, the calls
\* within the contract, the content of uninitialised memory and who is killed when,
\* driver, pipes and device are the remote registers of RemotePins: a call takes
\* effect once, as a whole, on the pins it names, and returns what they hold.
THEOREM ImplementsRemote == Spec => ImplementsRemotePins
<1>1. Init => Remote!RInit
  BY ContractInit
<1>2. TypeOK /\ StopAndWaitInv /\ ContractInv /\ [Next]_vars => [Remote!RNext]_Remote!rvars
  BY ContractStep DEF RemoteStep
<1>3. QED
  BY <1>1, <1>2, Always, PTL DEF Spec, ImplementsRemotePins, Remote!RSpec

-----------------------------------------------------------------------------
(* The mirror.                                                             *)

\* The pending call has taken effect.
Performed == call # NoCall /\ driver2device = << >> /\ req = NoPacket

SetsFailsafe(c) == c.op \in {"set_failsafe", "set_failsafe_mask"}

\* What is known of the mirror is right, except for what the pending call has just
\* changed on the device and has not told the mirror yet.
ValsAgree ==
    \A p \in known.vals :
       \/ conn.pins_val[p] = device.pins_val[p]
       \/ Performed /\ p \in DOMAIN Remote!NewVals(call)
TypesAgree ==
    \A p \in known.types :
       \/ conn.pins_type[p] = device.pins_type[p]
       \/ Performed /\ p \in DOMAIN Remote!NewTypes(call)
FailsafeAgrees ==
    \A p \in known.failsafe :
       \/ /\ conn.failsafe.pin_state[p] = device.failsafe.pin_state[p]
          /\ conn.failsafe.pin_value[p] = device.failsafe.pin_value[p]
       \/ Performed /\ SetsFailsafe(call) /\ p \in Named(call)
TimeoutAgrees ==
    known.timeout =>
       \/ conn.failsafe.timeout = device.failsafe.timeout
       \/ Performed /\ SetsFailsafe(call)

\* What a call that has taken effect wrote is on the pins.
FailsafeVal(c, p) == IF c.op = "set_failsafe" THEN c.val ELSE c.values[p]

Took ==
    /\ \A p \in DOMAIN Remote!NewVals(call) :
          device.pins_val[p] = Remote!NewVals(call)[p]
    /\ \A p \in DOMAIN Remote!NewTypes(call) :
          device.pins_type[p] = Remote!NewTypes(call)[p]
    /\ SetsFailsafe(call) =>
         /\ device.failsafe.timeout = call.timeout
         /\ \A p \in Named(call) : /\ device.failsafe.pin_state[p] = call.type
                                   /\ device.failsafe.pin_value[p] = FailsafeVal(call, p)

KnownOK ==
    /\ known.vals \subseteq Pins /\ known.types \subseteq Pins
    /\ known.failsafe \subseteq Pins /\ known.timeout \in BOOLEAN

MirrorInv ==
    /\ KnownOK
    /\ Performed => Took
    /\ drv # "closed" =>
         /\ conn.nb_pins = 0 => known = Nothing
         /\ ValsAgree /\ TypesAgree /\ FailsafeAgrees /\ TimeoutAgrees

\* What a step of the remote registers does while the call stays the same, and when
\* it returns.
LEMMA StepEffect ==
    ASSUME RemoteStep, call \in Calls \cup {NoCall}
    PROVE  /\ call' = call =>
                \/ device' = device /\ (Performed' <=> Performed)
                \/ ~Performed /\ Performed' /\ device' = After(call)
           /\ (call # NoCall /\ call' = NoCall) =>
                /\ Performed /\ device' = device
                /\ Remote!Answerable(call, device) => out' = Remote!Answer(call, device)
<1>1. CASE UNCHANGED Remote!rvars
  <2>1. device' = device /\ call' = call
    BY <1>1 DEF Remote!rvars
  <2>2. (call # NoCall /\ driver2device = << >> /\ req = NoPacket)'
          = (call # NoCall /\ driver2device = << >> /\ req = NoPacket)
    BY <1>1 DEF Remote!rvars
  <2>3. QED
    BY <2>1, <2>2 DEF Performed
<1>2. ASSUME NEW c \in Calls, Remote!Invoke(c)
      PROVE  call = NoCall /\ call' # NoCall
  BY <1>2, NoCalls, NotNone DEF Remote!Invoke
<1>3. CASE Remote!Perform
  <2>1. device' = After(call)
    BY <1>3, RemoteStores DEF Remote!Perform, After
  <2>2. call' = call /\ call # NoCall
    BY <1>3, NoCalls DEF Remote!Perform
  <2>3. ~Performed
    BY <1>3 DEF Remote!Perform, Performed
  <2>4. Performed'
    BY <1>3 DEF Remote!Perform, Performed
  <2>5. QED
    BY <2>1, <2>2, <2>3, <2>4
<1>4. CASE Remote!Return
  <2>1. /\ call # NoCall /\ call' = NoCall /\ device' = device
        /\ Remote!Answerable(call, device) => out' = Remote!Answer(call, device)
    BY <1>4, NoCalls DEF Remote!Return
  <2>2. Performed
    BY <1>4 DEF Remote!Return, Performed
  <2>3. QED
    BY <2>1, <2>2
<1>5. QED
  BY <1>1, <1>2, <1>3, <1>4 DEF RemoteStep, Remote!RNext

\* The pins a call writes, and what they hold once it has taken effect.
LEMMA Written ==
    ASSUME TypeOK, ContractInv, call # NoCall
    PROVE  /\ DOMAIN Remote!NewVals(call)
                = IF call.op \in {"generic_write", "write_value_mask"} THEN Named(call) ELSE {}
           /\ DOMAIN Remote!NewTypes(call)
                = IF call.op \in {"generic_write", "set_type", "set_type_mask"}
                    THEN Named(call) ELSE {}
           /\ Named(call) \subseteq Pins \/ call.op \notin PinOps \cup MaskOps
           /\ call.op = "generic_write" =>
                /\ Remote!NewVals(call) = [p \in {call.pin_id} |-> call.val]
                /\ Remote!NewTypes(call) = [p \in {call.pin_id} |-> call.pin_mode]
           /\ call.op = "write_value_mask" => Remote!NewVals(call) = call.values
           /\ call.op = "set_type" => Remote!NewTypes(call) = [p \in {call.pin_id} |-> call.type]
           /\ call.op = "set_type_mask" => Remote!NewTypes(call) = call.values
<1>1. call \in Calls
  BY DEF TypeOK, DriverTypeOK
<1>2. WellFormed(call)
  BY <1>1, CallsAssumption
<1>3. DOMAIN << >> = {}
  OBVIOUS
<1>4. Named(call) \subseteq Pins \/ call.op \notin PinOps \cup MaskOps
  BY <1>1, PinsAssumption DEF Named, PinOps, MaskOps
<1>5. CASE call.op = "generic_write"
  BY <1>4, <1>5 DEF Remote!NewVals, Remote!NewTypes, Remote!Only, Named, PinOps
<1>6. CASE call.op = "write_value_mask"
  BY <1>2, <1>3, <1>4, <1>6 DEF Remote!NewVals, Remote!NewTypes, Named, PinOps, MaskOps, WellFormed
<1>7. CASE call.op = "set_type"
  BY <1>3, <1>4, <1>7 DEF Remote!NewVals, Remote!NewTypes, Remote!Only, Named, PinOps
<1>8. CASE call.op = "set_type_mask"
  BY <1>2, <1>3, <1>4, <1>8 DEF Remote!NewVals, Remote!NewTypes, Named, PinOps, MaskOps, WellFormed
<1>9. CASE call.op \notin {"generic_write", "write_value_mask", "set_type", "set_type_mask"}
  BY <1>3, <1>4, <1>9 DEF Remote!NewVals, Remote!NewTypes
<1>10. QED
  BY <1>5, <1>6, <1>7, <1>8, <1>9

\* Taking effect, a call writes what it names and leaves the rest alone.
LEMMA TakesEffect ==
    ASSUME TypeOK, ContractInv, call # NoCall, call' = call, device' = After(call)
    PROVE  /\ Took'
           /\ \A p \in Pins : /\ p \notin DOMAIN Remote!NewVals(call) =>
                                   device'.pins_val[p] = device.pins_val[p]
                              /\ p \notin DOMAIN Remote!NewTypes(call) =>
                                   device'.pins_type[p] = device.pins_type[p]
                              /\ ~(SetsFailsafe(call) /\ p \in Named(call)) =>
                                   /\ device'.failsafe.pin_state[p] = device.failsafe.pin_state[p]
                                   /\ device'.failsafe.pin_value[p] = device.failsafe.pin_value[p]
           /\ ~SetsFailsafe(call) => device'.failsafe.timeout = device.failsafe.timeout
<1>1. device \in DeviceState
  BY DEF TypeOK, DeviceTypeOK
<1>2. /\ DOMAIN device.pins_val = Pins /\ DOMAIN device.pins_type = Pins
      /\ DOMAIN device.failsafe.pin_state = Pins /\ DOMAIN device.failsafe.pin_value = Pins
  BY <1>1 DEF DeviceState, FailsafeOf
<1>3. /\ device'.pins_val = store(device.pins_val, Remote!NewVals(call))
      /\ device'.pins_type = store(device.pins_type, Remote!NewTypes(call))
      /\ device'.failsafe = Remote!NewFailsafe(call, device.failsafe)
  BY DEF After
<1>4. ASSUME NEW p \in Pins
      PROVE  /\ device'.pins_val[p] = IF p \in DOMAIN Remote!NewVals(call)
                                        THEN Remote!NewVals(call)[p] ELSE device.pins_val[p]
             /\ device'.pins_type[p] = IF p \in DOMAIN Remote!NewTypes(call)
                                        THEN Remote!NewTypes(call)[p] ELSE device.pins_type[p]
  BY <1>2, <1>3 DEF store
<1>5. /\ DOMAIN Remote!NewVals(call) \subseteq Pins
      /\ DOMAIN Remote!NewTypes(call) \subseteq Pins
      /\ SetsFailsafe(call) => Named(call) \subseteq Pins
  BY Written DEF PinOps, MaskOps, SetsFailsafe
<1>6. /\ Remote!NewVals(call)' = Remote!NewVals(call)
      /\ Remote!NewTypes(call)' = Remote!NewTypes(call)
      /\ Named(call)' = Named(call) /\ SetsFailsafe(call)' = SetsFailsafe(call)
  BY DEF Remote!NewVals, Remote!NewTypes, Remote!Only, Named, SetsFailsafe
<1>7. CASE ~SetsFailsafe(call)
  <2>1. device'.failsafe = device.failsafe
    BY <1>3, <1>7 DEF Remote!NewFailsafe, SetsFailsafe
  <2>2. QED
    BY <1>4, <1>5, <1>6, <1>7, <2>1 DEF Took
<1>8. CASE SetsFailsafe(call)
  <2>1. PICK states, values :
             /\ device'.failsafe = store_failsafe(device.failsafe, call.timeout, states, values)
             /\ DOMAIN states = Named(call) /\ DOMAIN values = Named(call)
             /\ \A p \in Named(call) : /\ states[p] = call.type
                                       /\ values[p] = FailsafeVal(call, p)
    <3>1. CASE call.op = "set_failsafe"
      <4>1. PICK states, values : states = Remote!Only(call.pin_id, call.type)
                                    /\ values = Remote!Only(call.pin_id, call.val)
        OBVIOUS
      <4>2. device'.failsafe = store_failsafe(device.failsafe, call.timeout, states, values)
        BY <1>3, <3>1, <4>1, RemoteStores DEF Remote!NewFailsafe
      <4>3. Named(call) = {call.pin_id}
        BY <3>1 DEF Named, PinOps
      <4>4. /\ DOMAIN states = Named(call) /\ DOMAIN values = Named(call)
            /\ \A p \in Named(call) : states[p] = call.type /\ values[p] = FailsafeVal(call, p)
        BY <3>1, <4>1, <4>3 DEF Remote!Only, FailsafeVal
      <4>5. QED
        BY <4>2, <4>4
    <3>2. CASE call.op = "set_failsafe_mask"
      <4>1. PICK states, values : states = [p \in call.mask |-> call.type]
                                    /\ values = call.values
        OBVIOUS
      <4>2. device'.failsafe = store_failsafe(device.failsafe, call.timeout, states, values)
        BY <1>3, <3>2, <4>1, RemoteStores DEF Remote!NewFailsafe
      <4>3. Named(call) = call.mask
        BY <3>2 DEF Named, PinOps
      <4>4. call.values \in [call.mask -> Word]
        BY <3>2, CallsAssumption DEF TypeOK, DriverTypeOK, WellFormed
      <4>5. /\ DOMAIN states = Named(call) /\ DOMAIN values = Named(call)
            /\ \A p \in Named(call) : states[p] = call.type /\ values[p] = FailsafeVal(call, p)
        BY <3>2, <4>1, <4>3, <4>4 DEF FailsafeVal
      <4>6. QED
        BY <4>2, <4>5
    <3>3. QED
      BY <1>8, <3>1, <3>2 DEF SetsFailsafe
  <2>2. /\ device'.failsafe.timeout = call.timeout
        /\ device'.failsafe.pin_state = store(device.failsafe.pin_state, states)
        /\ device'.failsafe.pin_value = store(device.failsafe.pin_value, values)
    BY <2>1 DEF store_failsafe
  <2>3. ASSUME NEW p \in Pins
        PROVE  /\ device'.failsafe.pin_state[p] = IF p \in Named(call) THEN call.type
                                                 ELSE device.failsafe.pin_state[p]
               /\ device'.failsafe.pin_value[p] = IF p \in Named(call) THEN FailsafeVal(call, p)
                                                 ELSE device.failsafe.pin_value[p]
    BY <1>2, <2>1, <2>2 DEF store
  <2>4. \A p : FailsafeVal(call, p)' = FailsafeVal(call, p)
    BY DEF FailsafeVal
  <2>5. /\ \A p \in Named(call) : /\ device'.failsafe.pin_state[p] = call.type
                                  /\ device'.failsafe.pin_value[p] = FailsafeVal(call, p)
        /\ device'.failsafe.timeout = call.timeout
    BY <1>5, <1>8, <2>2, <2>3
  <2>6. Took'
    BY <1>4, <1>5, <1>6, <2>4, <2>5 DEF Took, FailsafeVal
  <2>7. QED
    BY <1>4, <1>8, <2>3, <2>6
<1>9. QED
  BY <1>7, <1>8

\* Steps that leave the call and the mirror alone: the call takes effect, or not yet.
LEMMA MirrorWaits ==
    ASSUME TypeOK, ContractInv, MirrorInv, RemoteStep, UNCHANGED <<call, conn, known>>,
           drv = "closed" => drv' = "closed"
    PROVE  MirrorInv'
<1>1. call \in Calls \cup {NoCall}
  BY DEF TypeOK, DriverTypeOK
<1>2. /\ Remote!NewVals(call)' = Remote!NewVals(call)
      /\ Remote!NewTypes(call)' = Remote!NewTypes(call)
      /\ Named(call)' = Named(call) /\ SetsFailsafe(call)' = SetsFailsafe(call)
      /\ \A p : FailsafeVal(call, p)' = FailsafeVal(call, p)
  BY DEF Remote!NewVals, Remote!NewTypes, Remote!Only, Named, SetsFailsafe, FailsafeVal
<1>3. KnownOK'
  BY DEF MirrorInv, KnownOK
<1>4. CASE device' = device /\ (Performed' <=> Performed)
  <2>1. Took' <=> Took
    BY <1>2, <1>4 DEF Took
  <2>2. ValsAgree => ValsAgree'
    BY <1>2, <1>4 DEF ValsAgree
  <2>3. TypesAgree => TypesAgree'
    BY <1>2, <1>4 DEF TypesAgree
  <2>4. FailsafeAgrees => FailsafeAgrees'
    BY <1>2, <1>4 DEF FailsafeAgrees
  <2>5. TimeoutAgrees => TimeoutAgrees'
    BY <1>2, <1>4 DEF TimeoutAgrees
  <2>6. QED
    BY <1>3, <1>4, <2>1, <2>2, <2>3, <2>4, <2>5 DEF MirrorInv, Nothing
<1>5. CASE ~Performed /\ Performed' /\ device' = After(call)
  <2>1. call # NoCall
    BY <1>5 DEF Performed
  <2>2. Took'
    BY <1>5, <2>1, TakesEffect
  <2>3. KnownOK
    BY DEF MirrorInv
  <2>4. CASE drv = "closed"
    BY <1>3, <2>2, <2>4 DEF MirrorInv
  <2>5. CASE drv # "closed"
    <3>1. ValsAgree /\ TypesAgree /\ FailsafeAgrees /\ TimeoutAgrees
      BY <2>5 DEF MirrorInv
    <3>2. ValsAgree'
      BY <1>2, <1>5, <2>1, <2>3, <3>1, TakesEffect DEF ValsAgree, KnownOK
    <3>3. TypesAgree'
      BY <1>2, <1>5, <2>1, <2>3, <3>1, TakesEffect DEF TypesAgree, KnownOK
    <3>4. FailsafeAgrees'
      BY <1>2, <1>5, <2>1, <2>3, <3>1, TakesEffect DEF FailsafeAgrees, KnownOK
    <3>5. TimeoutAgrees'
      BY <1>2, <1>5, <2>1, <2>3, <3>1, TakesEffect DEF TimeoutAgrees, KnownOK
    <3>6. QED
      BY <1>3, <2>2, <2>5, <3>2, <3>3, <3>4, <3>5 DEF MirrorInv, Nothing
  <2>6. QED
    BY <2>4, <2>5
<1>6. QED
  BY <1>1, <1>4, <1>5, StepEffect

\* A call is made: nothing has changed yet.
LEMMA MirrorCalls ==
    ASSUME MirrorInv, call = NoCall, ~Performed', device' = device, UNCHANGED <<conn, known>>,
           drv # "closed"
    PROVE  MirrorInv'
<1>1. ~Performed
  BY DEF Performed
<1>2. ValsAgree' /\ TypesAgree' /\ FailsafeAgrees' /\ TimeoutAgrees'
  BY <1>1 DEF MirrorInv, ValsAgree, TypesAgree, FailsafeAgrees, TimeoutAgrees
<1>3. QED
  BY <1>2 DEF MirrorInv, KnownOK, Nothing

\* What the return of the pending call stores into the mirror: what the device holds
\* on the pins the call names, as far as the call is about it.
ValOps == {"generic_read", "read_value_mask", "generic_write", "write_value_mask"}
TypeOps == {"get_type", "get_type_mask", "set_type", "set_type_mask"}
FailsafeOps == {"get_failsafe_mask", "set_failsafe", "set_failsafe_mask"}

LearnsVals ==
    \A p \in Pins : conn'.pins_val[p] = IF call.op \in ValOps /\ p \in Named(call)
                                          THEN device.pins_val[p] ELSE conn.pins_val[p]
LearnsTypes ==
    \A p \in Pins : conn'.pins_type[p] = IF call.op \in TypeOps /\ p \in Named(call)
                                           THEN device.pins_type[p] ELSE conn.pins_type[p]
LearnsFailsafe ==
    \A p \in Pins :
       IF call.op \in FailsafeOps /\ p \in Named(call)
         THEN Remote!Answerable(call, device) =>
                /\ conn'.failsafe.pin_state[p] = device.failsafe.pin_state[p]
                /\ conn'.failsafe.pin_value[p] = device.failsafe.pin_value[p]
         ELSE /\ conn'.failsafe.pin_state[p] = conn.failsafe.pin_state[p]
              /\ conn'.failsafe.pin_value[p] = conn.failsafe.pin_value[p]
LearnsTimeout ==
    conn'.failsafe.timeout = IF SetsFailsafe(call) THEN device.failsafe.timeout
                                                   ELSE conn.failsafe.timeout
Learns == LearnsVals /\ LearnsTypes /\ LearnsFailsafe /\ LearnsTimeout

\* The return of a call that learns keeps the mirror right.
LEMMA MirrorReturns ==
    ASSUME TypeOK, ContractInv, MirrorInv, Performed, call' = NoCall, device' = device,
           Learns, known' = KnownAfter(call), call.op # "get_caps", drv # "closed",
           conn'.nb_pins = conn.nb_pins,
           conn.nb_pins = 0 => call.op \in {"ping", "get_failsafe"}
    PROVE  MirrorInv'
<1>1. call # NoCall /\ ~Performed'
  BY DEF Performed
<1>2. /\ ValsAgree /\ TypesAgree /\ FailsafeAgrees /\ TimeoutAgrees /\ Took
      /\ KnownOK /\ (conn.nb_pins = 0 => known = Nothing)
  BY DEF MirrorInv
<1>3. /\ known'.vals = KnownVals(call) /\ known'.types = KnownTypes(call)
      /\ known'.failsafe = KnownFailsafe(call)
      /\ known'.timeout = (known.timeout \/ SetsFailsafe(call))
  BY DEF KnownAfter, SetsFailsafe
<1>4. /\ DOMAIN Remote!NewVals(call)
           = IF call.op \in {"generic_write", "write_value_mask"} THEN Named(call) ELSE {}
      /\ DOMAIN Remote!NewTypes(call)
           = IF call.op \in {"generic_write", "set_type", "set_type_mask"}
               THEN Named(call) ELSE {}
      /\ call.op = "generic_write" => Remote!NewTypes(call) = [p \in {call.pin_id} |-> call.pin_mode]
      /\ Named(call) \subseteq Pins \/ call.op \notin PinOps \cup MaskOps
  BY <1>1, Written
<1>5. KnownOK'
  <2>1. KnownVals(call) \subseteq Pins
    BY <1>2, <1>4 DEF KnownVals, KnownOK, PinOps, MaskOps
  <2>2. KnownTypes(call) \subseteq Pins
    BY <1>2, <1>4 DEF KnownTypes, KnownOK, PinOps, MaskOps
  <2>3. KnownFailsafe(call) \subseteq Pins
    <3>1. call.op = "get_failsafe_mask" => Named(call) = call.mask
      BY DEF Named, PinOps
    <3>2. QED
      BY <1>2, <1>4, <3>1 DEF KnownFailsafe, KnownOK, PinOps, MaskOps
  <2>4. QED
    BY <1>2, <1>3, <2>1, <2>2, <2>3 DEF KnownOK
<1>6. ASSUME NEW p \in known'.vals
      PROVE  conn'.pins_val[p] = device.pins_val[p]
  <2>1. p \in Pins
    BY <1>5, <1>6 DEF KnownOK
  <2>2. CASE call.op \in ValOps /\ p \in Named(call)
    BY <2>1, <2>2 DEF Learns, LearnsVals
  <2>3. CASE ~(call.op \in ValOps /\ p \in Named(call))
    <3>1. p \in known.vals
      BY <1>3, <1>6, <2>3 DEF KnownVals, ValOps
    <3>2. conn'.pins_val[p] = conn.pins_val[p]
      BY <2>1, <2>3 DEF Learns, LearnsVals
    <3>3. p \notin DOMAIN Remote!NewVals(call)
      BY <1>4, <2>3 DEF ValOps
    <3>4. QED
      BY <1>2, <3>1, <3>2, <3>3 DEF ValsAgree
  <2>4. QED
    BY <2>2, <2>3
<1>7. ASSUME NEW p \in known'.types
      PROVE  conn'.pins_type[p] = device.pins_type[p]
  <2>1. p \in Pins
    BY <1>5, <1>7 DEF KnownOK
  <2>2. CASE call.op \in TypeOps /\ p \in Named(call)
    BY <2>1, <2>2 DEF Learns, LearnsTypes
  <2>3. CASE ~(call.op \in TypeOps /\ p \in Named(call))
    <3>1. p \in known.types
      BY <1>3, <1>7, <2>3 DEF KnownTypes, TypeOps
    <3>2. conn'.pins_type[p] = conn.pins_type[p]
      BY <2>1, <2>3 DEF Learns, LearnsTypes
    <3>3. CASE call.op = "generic_write" /\ p = call.pin_id
      <4>1. conn.pins_type[p] = call.pin_mode
        BY <1>3, <1>7, <3>3 DEF KnownTypes
      <4>2. p \in DOMAIN Remote!NewTypes(call) /\ Remote!NewTypes(call)[p] = call.pin_mode
        BY <1>4, <3>3
      <4>3. device.pins_type[p] = call.pin_mode
        BY <1>2, <4>2 DEF Took
      <4>4. QED
        BY <3>2, <4>1, <4>3
    <3>4. CASE ~(call.op = "generic_write" /\ p = call.pin_id)
      <4>1. p \notin DOMAIN Remote!NewTypes(call)
        BY <1>4, <2>3, <3>4 DEF TypeOps, Named, PinOps
      <4>2. QED
        BY <1>2, <3>1, <3>2, <4>1 DEF TypesAgree
    <3>5. QED
      BY <3>3, <3>4
  <2>4. QED
    BY <2>2, <2>3
<1>8. ASSUME NEW p \in known'.failsafe
      PROVE  /\ conn'.failsafe.pin_state[p] = device.failsafe.pin_state[p]
             /\ conn'.failsafe.pin_value[p] = device.failsafe.pin_value[p]
  <2>1. p \in Pins
    BY <1>5, <1>8 DEF KnownOK
  <2>2. CASE call.op \in FailsafeOps /\ p \in Named(call)
    <3>1. Remote!Answerable(call, device)
      <4>1. CASE call.op = "get_failsafe_mask"
        <5>1. p \in call.mask
          BY <2>2, <4>1 DEF Named, PinOps
        <5>2. QED
          BY <1>3, <1>8, <4>1, <5>1 DEF KnownFailsafe
      <4>2. CASE call.op # "get_failsafe_mask"
        BY <4>2 DEF Remote!Answerable
      <4>3. QED
        BY <4>1, <4>2
    <3>2. QED
      BY <2>1, <2>2, <3>1 DEF Learns, LearnsFailsafe
  <2>3. CASE ~(call.op \in FailsafeOps /\ p \in Named(call))
    <3>1. p \in known.failsafe
      BY <1>3, <1>8, <2>3 DEF KnownFailsafe, FailsafeOps, Named, PinOps
    <3>2. /\ conn'.failsafe.pin_state[p] = conn.failsafe.pin_state[p]
          /\ conn'.failsafe.pin_value[p] = conn.failsafe.pin_value[p]
      BY <2>1, <2>3 DEF Learns, LearnsFailsafe
    <3>3. ~(SetsFailsafe(call) /\ p \in Named(call))
      BY <2>3 DEF FailsafeOps, SetsFailsafe
    <3>4. QED
      BY <1>2, <3>1, <3>2, <3>3 DEF FailsafeAgrees
  <2>4. QED
    BY <2>2, <2>3
<1>9. known'.timeout => conn'.failsafe.timeout = device.failsafe.timeout
  BY <1>2, <1>3 DEF Learns, LearnsTimeout, TimeoutAgrees
<1>10. conn'.nb_pins = 0 => known' = Nothing
  <2> SUFFICES ASSUME conn.nb_pins = 0
               PROVE  known' = Nothing
    OBVIOUS
  <2>1. known = Nothing /\ call.op \in {"ping", "get_failsafe"}
    BY <1>2
  <2>2. /\ KnownVals(call) = {} /\ KnownTypes(call) = {} /\ KnownFailsafe(call) = {}
        /\ known.timeout = FALSE
    BY <2>1 DEF KnownVals, KnownTypes, KnownFailsafe, Nothing
  <2>3. known' = [vals |-> {}, types |-> {}, failsafe |-> {}, timeout |-> FALSE]
    BY <2>1, <2>2 DEF KnownAfter
  <2>4. QED
    BY <2>3 DEF Nothing
<1>11. QED
  BY <1>1, <1>5, <1>6, <1>7, <1>8, <1>9, <1>10
     DEF MirrorInv, ValsAgree, TypesAgree, FailsafeAgrees, TimeoutAgrees, Nothing

\* Storing into one of the three parts of the mirror.
LEMMA StoresVals ==
    ASSUME TypeOK, ContractInv, conn.nb_pins # 0, call.op \in ValOps,
           NEW v, DOMAIN v = Named(call), \A p \in Named(call) : v[p] = device.pins_val[p],
           conn' = [conn EXCEPT !.pins_val = store(conn.pins_val, v)]
    PROVE  Learns /\ conn'.nb_pins = conn.nb_pins
<1>1. conn \in Connection(NB_PINS)
  BY DEF TypeOK, DriverTypeOK, ContractInv
<1>2. DOMAIN conn.pins_val = Pins
  BY <1>1 DEF Connection, PinArray, Pins
<1>3. /\ conn'.pins_val = store(conn.pins_val, v) /\ conn'.pins_type = conn.pins_type
      /\ conn'.failsafe = conn.failsafe /\ conn'.nb_pins = conn.nb_pins
  BY <1>1 DEF Connection
<1>4. call.op \notin TypeOps /\ call.op \notin FailsafeOps /\ ~SetsFailsafe(call)
  BY DEF ValOps, TypeOps, FailsafeOps, SetsFailsafe
<1>5. LearnsVals
  BY <1>2, <1>3 DEF LearnsVals, store
<1>6. QED
  BY <1>3, <1>4, <1>5 DEF Learns, LearnsTypes, LearnsFailsafe, LearnsTimeout

LEMMA StoresTypes ==
    ASSUME TypeOK, ContractInv, conn.nb_pins # 0, call.op \in TypeOps,
           NEW t, DOMAIN t = Named(call), \A p \in Named(call) : t[p] = device.pins_type[p],
           conn' = [conn EXCEPT !.pins_type = store(conn.pins_type, t)]
    PROVE  Learns /\ conn'.nb_pins = conn.nb_pins
<1>1. conn \in Connection(NB_PINS)
  BY DEF TypeOK, DriverTypeOK, ContractInv
<1>2. DOMAIN conn.pins_type = Pins
  BY <1>1 DEF Connection, PinArray, Pins
<1>3. /\ conn'.pins_type = store(conn.pins_type, t) /\ conn'.pins_val = conn.pins_val
      /\ conn'.failsafe = conn.failsafe /\ conn'.nb_pins = conn.nb_pins
  BY <1>1 DEF Connection
<1>4. call.op \notin ValOps /\ call.op \notin FailsafeOps /\ ~SetsFailsafe(call)
  BY DEF ValOps, TypeOps, FailsafeOps, SetsFailsafe
<1>5. LearnsTypes
  BY <1>2, <1>3 DEF LearnsTypes, store
<1>6. QED
  BY <1>3, <1>4, <1>5 DEF Learns, LearnsVals, LearnsFailsafe, LearnsTimeout

LEMMA StoresFailsafe ==
    ASSUME TypeOK, ContractInv, conn.nb_pins # 0, call.op \in FailsafeOps,
           NEW timeout, NEW states, NEW values,
           DOMAIN states = Named(call), DOMAIN values = Named(call),
           Remote!Answerable(call, device) =>
             \A p \in Named(call) : /\ states[p] = device.failsafe.pin_state[p]
                                    /\ values[p] = device.failsafe.pin_value[p],
           timeout = IF SetsFailsafe(call) THEN device.failsafe.timeout
                                           ELSE conn.failsafe.timeout,
           conn' = [conn EXCEPT !.failsafe =
                       store_failsafe(conn.failsafe, timeout, states, values)]
    PROVE  Learns /\ conn'.nb_pins = conn.nb_pins
<1>1. conn \in Connection(NB_PINS)
  BY DEF TypeOK, DriverTypeOK, ContractInv
<1>2. DOMAIN conn.failsafe.pin_state = Pins /\ DOMAIN conn.failsafe.pin_value = Pins
  BY <1>1 DEF Connection, FailsafeOf, Pins
<1>3. /\ conn'.failsafe = store_failsafe(conn.failsafe, timeout, states, values)
      /\ conn'.pins_val = conn.pins_val /\ conn'.pins_type = conn.pins_type
      /\ conn'.nb_pins = conn.nb_pins
  BY <1>1 DEF Connection
<1>4. call.op \notin ValOps /\ call.op \notin TypeOps
  BY DEF ValOps, TypeOps, FailsafeOps
<1>5. /\ conn'.failsafe.timeout = timeout
      /\ conn'.failsafe.pin_state = store(conn.failsafe.pin_state, states)
      /\ conn'.failsafe.pin_value = store(conn.failsafe.pin_value, values)
  BY <1>3 DEF store_failsafe
<1>6. LearnsFailsafe
  BY <1>2, <1>5 DEF LearnsFailsafe, store
<1>7. QED
  BY <1>3, <1>4, <1>5, <1>6 DEF Learns, LearnsVals, LearnsTypes, LearnsTimeout

\* A call that reads values, or types, stores what it returns.
LEMMA ReadLearns ==
    ASSUME TypeOK, ContractInv, call # NoCall, call' = NoCall,
           Remote!Answerable(call, device) => out' = Remote!Answer(call, device),
           generic_read \/ read_value_mask \/ get_type \/ get_type_mask
    PROVE  conn.nb_pins # 0 /\ Learns /\ conn'.nb_pins = conn.nb_pins
<1>1. /\ \A f : Vals(f).vals = f /\ Types(f).types = f
      /\ \A f : Remote!Of(f, call) = [p \in Remote!Named(call) |-> f[p]]
  BY DEF Vals, Types, Remote!Of
<1>2. Remote!Answerable(call, device) /\ Remote!Named(call) = Named(call)
  BY DEF generic_read, read_value_mask, get_type, get_type_mask, read_reply,
         Remote!Answerable, Remote!Named, Named, PinOps
<1>3. CASE generic_read \/ read_value_mask
  <2>1. call.op \in ValOps
    BY <1>3 DEF generic_read, read_value_mask, read_reply, ValOps
  <2>2. PICK v : ReturnStoring([conn EXCEPT !.pins_val = store(conn.pins_val, v)], Vals(v))
    <3>1. CASE generic_read
      <4>1. PICK v : ReturnStoring([conn EXCEPT !.pins_val =
                         store(conn.pins_val, [p \in {call.pin_id} |-> v])],
                                   Vals([p \in {call.pin_id} |-> v]))
        BY <3>1 DEF generic_read, TypeOK, DriverTypeOK, Connection
      <4>2. QED
        BY <4>1
    <3>2. CASE read_value_mask
      <4>1. PICK junk \in HeapJunk :
                 ReturnStoring([conn EXCEPT !.pins_val = store(conn.pins_val,
                     read_value_list(received(Reply, junk), REPLY_ID_BITS_NB, call.mask,
                                     get_type_bits_nb(call.type)))],
                     Vals(read_value_list(received(Reply, junk), REPLY_ID_BITS_NB, call.mask,
                                     get_type_bits_nb(call.type))))
        BY <3>2 DEF read_value_mask, TypeOK, DriverTypeOK, Connection
      <4>2. QED
        BY <4>1
    <3>3. QED
      BY <1>3, <3>1, <3>2
  <2>3. /\ conn.nb_pins # 0 /\ out' = Vals(v)
        /\ conn' = [conn EXCEPT !.pins_val = store(conn.pins_val, v)]
    BY <2>2 DEF ReturnStoring
  <2>4. out'.vals = Remote!Of(device.pins_val, call)
    <3>1. out' = [Remote!NoAnswer EXCEPT !.vals = Remote!Of(device.pins_val, call)]
      BY <1>2, <1>3 DEF generic_read, read_value_mask, read_reply, Remote!Answer
    <3>2. QED
      BY <3>1 DEF Remote!NoAnswer
  <2>5. v = [p \in Named(call) |-> device.pins_val[p]]
    BY <1>1, <1>2, <2>3, <2>4
  <2>6. DOMAIN v = Named(call) /\ \A p \in Named(call) : v[p] = device.pins_val[p]
    BY <2>5
  <2>7. QED
    BY <2>1, <2>3, <2>6, StoresVals
<1>4. CASE get_type \/ get_type_mask
  <2>1. call.op \in TypeOps
    BY <1>4 DEF get_type, get_type_mask, read_reply, TypeOps
  <2>2. PICK t : ReturnStoring([conn EXCEPT !.pins_type = store(conn.pins_type, t)], Types(t))
    <3>1. CASE get_type
      <4>1. PICK t : ReturnStoring([conn EXCEPT !.pins_type =
                         store(conn.pins_type, [p \in {call.pin_id} |-> t])],
                                   Types([p \in {call.pin_id} |-> t]))
        BY <3>1 DEF get_type, TypeOK, DriverTypeOK, Connection
      <4>2. QED
        BY <4>1
    <3>2. CASE get_type_mask
      <4>1. PICK junk \in HeapJunk :
                 ReturnStoring([conn EXCEPT !.pins_type = store(conn.pins_type,
                     read_value_list(received(Reply, junk), REPLY_ID_BITS_NB, call.mask,
                                     PIN_TYPE_BITS_NB))],
                     Types(read_value_list(received(Reply, junk), REPLY_ID_BITS_NB, call.mask,
                                     PIN_TYPE_BITS_NB)))
        BY <3>2 DEF get_type_mask, TypeOK, DriverTypeOK, Connection
      <4>2. QED
        BY <4>1
    <3>3. QED
      BY <1>4, <3>1, <3>2
  <2>3. /\ conn.nb_pins # 0 /\ out' = Types(t)
        /\ conn' = [conn EXCEPT !.pins_type = store(conn.pins_type, t)]
    BY <2>2 DEF ReturnStoring
  <2>4. out'.types = Remote!Of(device.pins_type, call)
    <3>1. out' = [Remote!NoAnswer EXCEPT !.types = Remote!Of(device.pins_type, call)]
      BY <1>2, <1>4 DEF get_type, get_type_mask, read_reply, Remote!Answer
    <3>2. QED
      BY <3>1 DEF Remote!NoAnswer
  <2>5. t = [p \in Named(call) |-> device.pins_type[p]]
    BY <1>1, <1>2, <2>3, <2>4
  <2>6. DOMAIN t = Named(call) /\ \A p \in Named(call) : t[p] = device.pins_type[p]
    BY <2>5
  <2>7. QED
    BY <2>1, <2>3, <2>6, StoresTypes
<1>5. QED
  BY <1>3, <1>4

\* A call that writes stores what it wrote, which by then is on the device.
LEMMA WriteLearns ==
    ASSUME TypeOK, ContractInv, Took, call # NoCall, call' = NoCall,
           \/ generic_write \/ write_value_mask \/ set_type \/ set_type_mask
           \/ set_failsafe \/ set_failsafe_mask
    PROVE  conn.nb_pins # 0 /\ Learns /\ conn'.nb_pins = conn.nb_pins
<1>1. WellFormed(call)
  BY CallsAssumption DEF TypeOK, DriverTypeOK
<1>2. conn.nb_pins # 0
  BY DEF generic_write, write_value_mask, set_type, set_type_mask, set_failsafe,
         set_failsafe_mask, ReturnStoring
<1>3. CASE generic_write \/ write_value_mask
  <2>1. call.op \in ValOps /\ call.op \in {"generic_write", "write_value_mask"}
    BY <1>3 DEF generic_write, write_value_mask, read_reply, ValOps
  <2>2. PICK v : v = Remote!NewVals(call)
    OBVIOUS
  <2>3. conn' = [conn EXCEPT !.pins_val = store(conn.pins_val, v)]
    <3>1. CASE generic_write
      <4>1. v = [p \in {call.pin_id} |-> call.val]
        BY <2>2, <3>1, Written DEF generic_write, read_reply
      <4>2. QED
        BY <1>2, <3>1, <4>1 DEF generic_write, ReturnStoring, TypeOK, DriverTypeOK, Connection
    <3>2. CASE write_value_mask
      <4>1. v = call.values
        BY <2>2, <3>2, Written DEF write_value_mask, read_reply
      <4>2. QED
        BY <1>2, <3>2, <4>1
           DEF write_value_mask, ReturnStoring, TypeOK, DriverTypeOK, Connection
    <3>3. QED
      BY <1>3, <3>1, <3>2
  <2>4. DOMAIN v = Named(call)
    BY <2>1, <2>2, Written
  <2>5. \A p \in Named(call) : v[p] = device.pins_val[p]
    BY <2>2, <2>4 DEF Took
  <2>6. QED
    BY <1>2, <2>1, <2>3, <2>4, <2>5, StoresVals
<1>4. CASE set_type \/ set_type_mask
  <2>1. call.op \in TypeOps /\ call.op \in {"set_type", "set_type_mask"}
    BY <1>4 DEF set_type, set_type_mask, read_reply, TypeOps
  <2>2. PICK t : t = Remote!NewTypes(call)
    OBVIOUS
  <2>3. conn' = [conn EXCEPT !.pins_type = store(conn.pins_type, t)]
    <3>1. CASE set_type
      <4>1. t = [p \in {call.pin_id} |-> call.type]
        BY <2>2, <3>1, Written DEF set_type, read_reply
      <4>2. QED
        BY <1>2, <3>1, <4>1 DEF set_type, ReturnStoring, TypeOK, DriverTypeOK, Connection
    <3>2. CASE set_type_mask
      <4>1. t = call.values
        BY <2>2, <3>2, Written DEF set_type_mask, read_reply
      <4>2. QED
        BY <1>2, <3>2, <4>1 DEF set_type_mask, ReturnStoring, TypeOK, DriverTypeOK, Connection
    <3>3. QED
      BY <1>4, <3>1, <3>2
  <2>4. DOMAIN t = Named(call)
    BY <2>1, <2>2, Written
  <2>5. \A p \in Named(call) : t[p] = device.pins_type[p]
    BY <2>2, <2>4 DEF Took
  <2>6. QED
    BY <1>2, <2>1, <2>3, <2>4, <2>5, StoresTypes
<1>5. CASE set_failsafe \/ set_failsafe_mask
  <2>1. call.op \in FailsafeOps /\ SetsFailsafe(call)
    BY <1>5 DEF set_failsafe, set_failsafe_mask, read_reply, FailsafeOps, SetsFailsafe
  <2>2. PICK states, values :
             /\ conn' = [conn EXCEPT !.failsafe =
                            store_failsafe(conn.failsafe, call.timeout, states, values)]
             /\ DOMAIN states = Named(call) /\ DOMAIN values = Named(call)
             /\ \A p \in Named(call) : /\ states[p] = call.type
                                       /\ values[p] = FailsafeVal(call, p)
    <3>1. CASE set_failsafe
      <4>1. call.op = "set_failsafe"
        BY <3>1 DEF set_failsafe, read_reply
      <4>2. PICK states, values : /\ states = [p \in {call.pin_id} |-> call.type]
                                  /\ values = [p \in {call.pin_id} |-> call.val]
        OBVIOUS
      <4>3. conn' = [conn EXCEPT !.failsafe =
                        store_failsafe(conn.failsafe, call.timeout, states, values)]
        BY <1>2, <3>1, <4>2 DEF set_failsafe, ReturnStoring, TypeOK, DriverTypeOK, Connection
      <4>4. Named(call) = {call.pin_id} /\ \A p : FailsafeVal(call, p) = call.val
        BY <4>1 DEF Named, PinOps, FailsafeVal
      <4>5. QED
        BY <4>2, <4>3, <4>4
    <3>2. CASE set_failsafe_mask
      <4>1. call.op = "set_failsafe_mask"
        BY <3>2 DEF set_failsafe_mask, read_reply
      <4>2. PICK states, values : /\ states = [p \in call.mask |-> call.type]
                                  /\ values = call.values
        OBVIOUS
      <4>3. conn' = [conn EXCEPT !.failsafe =
                        store_failsafe(conn.failsafe, call.timeout, states, values)]
        BY <1>2, <3>2, <4>2
           DEF set_failsafe_mask, ReturnStoring, TypeOK, DriverTypeOK, Connection
      <4>4. Named(call) = call.mask /\ \A p : FailsafeVal(call, p) = call.values[p]
        BY <4>1 DEF Named, PinOps, FailsafeVal
      <4>5. DOMAIN call.values = call.mask
        BY <1>1, <4>1 DEF WellFormed
      <4>6. QED
        BY <4>2, <4>3, <4>4, <4>5
    <3>3. QED
      BY <1>5, <3>1, <3>2
  <2>3. /\ device.failsafe.timeout = call.timeout
        /\ \A p \in Named(call) : /\ states[p] = device.failsafe.pin_state[p]
                                  /\ values[p] = device.failsafe.pin_value[p]
    BY <2>1, <2>2 DEF Took
  <2>4. PICK timeout : timeout = call.timeout
    OBVIOUS
  <2>5. timeout = IF SetsFailsafe(call) THEN device.failsafe.timeout ELSE conn.failsafe.timeout
    BY <2>1, <2>3, <2>4
  <2>6. conn' = [conn EXCEPT !.failsafe =
                    store_failsafe(conn.failsafe, timeout, states, values)]
    BY <2>2, <2>4
  <2>7. QED
    BY <1>2, <2>1, <2>2, <2>3, <2>5, <2>6, StoresFailsafe
<1>6. QED
  BY <1>3, <1>4, <1>5

\* get_failsafe_mask stores the states it returns, which are those of the device when
\* no pin of the mask is disabled, and garbage on the mask otherwise.
LEMMA FailsafeLearns ==
    ASSUME TypeOK, ContractInv, call # NoCall, call' = NoCall,
           Remote!Answerable(call, device) => out' = Remote!Answer(call, device),
           get_failsafe_mask
    PROVE  conn.nb_pins # 0 /\ Learns /\ conn'.nb_pins = conn.nb_pins
<1>1. call.op = "get_failsafe_mask"
  BY DEF get_failsafe_mask, read_reply
<1>2. /\ call.op \in FailsafeOps /\ ~SetsFailsafe(call)
      /\ Named(call) = call.mask /\ Remote!Named(call) = call.mask
  BY <1>1 DEF FailsafeOps, SetsFailsafe, Named, PinOps, Remote!Named
<1>3. PICK junk \in HeapJunk :
           LET offset == REPLY_ID_BITS_NB + TIMEOUT_BITS_NB
               states == read_failsafe_states(received(Reply, junk), offset, call.mask)
               values == read_failsafe_values(received(Reply, junk), offset, call.mask)
           IN  ReturnStoring([conn EXCEPT !.failsafe =
                                 store_failsafe(conn.failsafe, conn.failsafe.timeout,
                                                states, values)],
                             [vals |-> values, types |-> states,
                              timeout |-> read_bit_value(received(Reply, junk),
                                              REPLY_ID_BITS_NB, TIMEOUT_BITS_NB)])
  BY DEF get_failsafe_mask, TypeOK, DriverTypeOK, Connection
<1>4. PICK offset, sent :
           /\ offset = REPLY_ID_BITS_NB + TIMEOUT_BITS_NB
           /\ sent = read_bit_value(received(Reply, junk), REPLY_ID_BITS_NB, TIMEOUT_BITS_NB)
  OBVIOUS
<1>5. PICK states, values :
           /\ states = read_failsafe_states(received(Reply, junk), offset, call.mask)
           /\ values = read_failsafe_values(received(Reply, junk), offset, call.mask)
  OBVIOUS
<1>6. ReturnStoring([conn EXCEPT !.failsafe = store_failsafe(conn.failsafe,
                                                 conn.failsafe.timeout, states, values)],
                    [vals |-> values, types |-> states, timeout |-> sent])
  BY <1>3, <1>4, <1>5
<1>7. /\ conn.nb_pins # 0 /\ out' = [vals |-> values, types |-> states, timeout |-> sent]
      /\ conn' = [conn EXCEPT !.failsafe = store_failsafe(conn.failsafe,
                                              conn.failsafe.timeout, states, values)]
  BY <1>6 DEF ReturnStoring
<1>8. DOMAIN states = Named(call) /\ DOMAIN values = Named(call)
  BY <1>2, <1>5 DEF read_failsafe_states, read_failsafe_values
<1>9. ASSUME Remote!Answerable(call, device)
      PROVE  \A p \in Named(call) : /\ states[p] = device.failsafe.pin_state[p]
                                    /\ values[p] = device.failsafe.pin_value[p]
  <2>1. /\ out'.vals = Remote!Of(device.failsafe.pin_value, call)
        /\ out'.types = Remote!Of(device.failsafe.pin_state, call)
    BY <1>1, <1>9 DEF Remote!Answer
  <2>2. /\ values = Remote!Of(device.failsafe.pin_value, call)
        /\ states = Remote!Of(device.failsafe.pin_state, call)
    BY <1>7, <2>1
  <2>3. QED
    BY <1>2, <2>2 DEF Remote!Of
<1>10. PICK timeout : timeout = conn.failsafe.timeout
  OBVIOUS
<1>11. /\ timeout = IF SetsFailsafe(call) THEN device.failsafe.timeout
                                          ELSE conn.failsafe.timeout
       /\ conn' = [conn EXCEPT !.failsafe =
                      store_failsafe(conn.failsafe, timeout, states, values)]
  BY <1>2, <1>7, <1>10
<1>12. QED
  BY <1>2, <1>7, <1>8, <1>9, <1>11, StoresFailsafe

\* The step of the mirror's history variable.
KnownStep ==
    known' = IF call # NoCall /\ call' = NoCall THEN KnownAfter(call) ELSE known

\* Every return keeps the mirror right, unless a null pointer kills the process.
LEMMA MirrorReplied ==
    ASSUME TypeOK, StopAndWaitInv, ContractInv, MirrorInv, RemoteStep, KnownStep,
           NEW op, read_reply(op),
           DriverReturns /\ ~read_reply_failed
    PROVE  MirrorInv'
<1>1. call # NoCall /\ call \in Calls \cup {NoCall} /\ drv = "waiting" /\ call.op = op
  BY Alone DEF read_reply, TypeOK, DriverTypeOK
<1>2. call.op # "reset"
  BY <1>1, ContractAssumption DEF ContractInv, Made, Callable, WithinContract
<1>3. CASE call' = NoCall
  <2>1. /\ Performed /\ device' = device
        /\ Remote!Answerable(call, device) => out' = Remote!Answer(call, device)
    BY <1>1, <1>3, StepEffect
  <2>2. known' = KnownAfter(call) /\ ~Performed' /\ Took
    BY <1>1, <1>3, <2>1 DEF KnownStep, Performed, MirrorInv
  <2>3. CASE get_caps
    <3>1. known' = Nothing
      BY <2>2, <2>3 DEF get_caps, read_reply, KnownAfter
    <3>2. QED
      BY <2>2, <3>1 DEF MirrorInv, KnownOK, Nothing, ValsAgree, TypesAgree, FailsafeAgrees,
                        TimeoutAgrees
  <2>4. CASE ~get_caps
    <3>1. call.op # "get_caps"
      BY <2>4, <1>2 DEF DriverReturns, read_reply, get_caps, reset, ping, generic_read,
             read_value_mask, generic_write, write_value_mask, get_type, get_type_mask,
             set_type, set_type_mask, get_failsafe, get_failsafe_mask, set_failsafe,
             set_failsafe_mask
    <3>2. /\ Learns /\ conn'.nb_pins = conn.nb_pins
          /\ conn.nb_pins = 0 => call.op \in {"ping", "get_failsafe"}
      <4>1. CASE generic_read \/ read_value_mask \/ get_type \/ get_type_mask
        BY <1>1, <1>3, <2>1, <4>1, ReadLearns
      <4>2. CASE get_failsafe_mask
        BY <1>1, <1>3, <2>1, <4>2, FailsafeLearns
      <4>3. CASE \/ generic_write \/ write_value_mask \/ set_type \/ set_type_mask
                 \/ set_failsafe \/ set_failsafe_mask
        BY <1>1, <1>3, <2>2, <4>3, WriteLearns
      <4>4. CASE ping \/ get_failsafe
        <5>1. conn' = conn /\ call.op \in {"ping", "get_failsafe"}
          BY <4>4 DEF ping, get_failsafe, read_reply
        <5>2. QED
          BY <5>1 DEF Learns, LearnsVals, LearnsTypes, LearnsFailsafe, LearnsTimeout, ValOps,
                      TypeOps, FailsafeOps, SetsFailsafe
      <4>5. CASE reset
        BY <1>2, <4>5 DEF reset, read_reply
      <4>6. QED
        BY <2>4, <4>1, <4>2, <4>3, <4>4, <4>5 DEF DriverReturns
    <3>3. QED
      BY <1>1, <1>3, <2>1, <2>2, <3>1, <3>2, MirrorReturns
  <2>5. QED
    BY <2>3, <2>4
<1>4. CASE call' # NoCall
  <2>1. UNCHANGED <<conn, call>> /\ drv' = "killed"
    BY <1>4 DEF DriverReturns, Return, ReturnStoring, get_caps, reset, ping, generic_read,
           read_value_mask, generic_write, write_value_mask, get_type, get_type_mask,
           set_type, set_type_mask, get_failsafe, get_failsafe_mask, set_failsafe,
           set_failsafe_mask
  <2>2. known' = known
    BY <1>4 DEF KnownStep
  <2>3. QED
    BY <1>1, <2>1, <2>2, MirrorWaits
<1>5. QED
  BY <1>3, <1>4

\* MirrorInv is inductive.
LEMMA MirrorStep ==
    ASSUME TypeOK, StopAndWaitInv, ContractInv, MirrorInv, [MNext]_<<vars, known>>
    PROVE  MirrorInv'
<1>1. RemoteStep
  BY ContractStep DEF MNext
<1>2. call \in Calls \cup {NoCall}
  BY DEF TypeOK, DriverTypeOK
<1>3. CASE UNCHANGED <<vars, known>>
  <2>1. UNCHANGED <<call, conn, known, drv>>
    BY <1>3 DEF vars, linkVars, driverVars
  <2>2. QED
    BY <1>1, <2>1, MirrorWaits
<1>4. ASSUME MNext, UNCHANGED <<call, conn>>, drv = "closed" => drv' = "closed"
      PROVE  MirrorInv'
  <2>1. known' = known
    BY <1>4 DEF MNext
  <2>2. QED
    BY <1>1, <1>4, <2>1, MirrorWaits
<1>5. CASE MNext /\ DeviceNext /\ UNCHANGED driverVars
  <2>1. drv' = drv
    BY <1>5 DEF DeviceNext, DeviceRuns, init_communication, open_out_done, open_in_done,
         mainloop_read, mainloop_end, DeviceKilled, no_reply, send_reply,
         reply_get_caps, reply_reset, reply_ping, reply_read,
         reply_read_mask, reply_read_pin, reply_write, reply_get_type,
         reply_get_type_mask, reply_get_type_pin, reply_set_type, reply_set_failsafe,
         reply_get_failsafe, reply_get_failsafe_mask, reply_get_failsafe_pin
  <2>2. QED
    BY <1>4, <1>5, <2>1 DEF driverVars
<1>6. CASE MNext /\ Finished
  BY <1>4, <1>6 DEF Finished, vars, linkVars, driverVars
<1>7. CASE MNext /\ DriverNext /\ UNCHANGED deviceVars
  <2>1. KnownStep
    BY <1>7 DEF MNext, KnownStep
  <2>2. CASE connection_open_in \/ connection_open_out \/ connection_opened
               \/ DriverKilled \/ read_reply_failed
    BY <1>4, <1>7, <2>2 DEF connection_open_in, connection_open_out, connection_opened,
                DriverKilled, read_reply_failed, driverVars
  <2>3. CASE connection_close
    <3>1. /\ call = NoCall /\ call' = NoCall /\ drv' = "closed" /\ known' = known
          /\ ~Performed'
      BY <2>1, <2>3, Alone DEF connection_close, KnownStep, Performed
    <3>2. QED
      BY <3>1 DEF MirrorInv, KnownOK
  <2>4. CASE \E c \in Calls : send_packet(c)
    <3>1. PICK c \in Calls : send_packet(c)
      BY <2>4
    <3>2. CASE DeviceGone
      BY <1>4, <1>7, <3>1, <3>2 DEF send_packet
    <3>3. CASE ~DeviceGone
      <4>1. call = NoCall /\ call' # NoCall /\ drv # "closed" /\ known' = known
        BY <2>1, <3>1, <3>3, NotNone, Alone DEF send_packet, KnownStep
      <4>2. driver2device' # << >>
        <5>1. PICK r : r = request(c)
          OBVIOUS
        <5>2. driver2device' = Append(driver2device, r) /\ driver2device = << >>
          BY <3>1, <3>3, <5>1, Alone DEF send_packet, connection_write
        <5>3. QED
          BY <5>2
      <4>3. ~Performed' /\ device' = device /\ conn' = conn
        BY <1>7, <3>1, <4>2 DEF Performed, deviceVars, send_packet
      <4>4. QED
        BY <4>1, <4>3, MirrorCalls
    <3>4. QED
      BY <3>2, <3>3
  <2>5. CASE DriverReturns /\ ~read_reply_failed
    <3>1. PICK op : read_reply(op)
      BY <2>5 DEF DriverReturns, get_caps, reset, ping, generic_read,
             read_value_mask, generic_write, write_value_mask, get_type, get_type_mask,
             set_type, set_type_mask, get_failsafe, get_failsafe_mask, set_failsafe,
             set_failsafe_mask
    <3>2. QED
      BY <1>1, <2>1, <2>5, <3>1, MirrorReplied
  <2>6. QED
    BY <1>7, <2>2, <2>3, <2>4, <2>5 DEF DriverNext, DriverOpens, ApplicationNext
<1>8. QED
  BY <1>3, <1>5, <1>6, <1>7 DEF MNext, Next

\* MirrorAgrees: whatever an application takes from the mirror once a call has told
\* it, as test_communication.c does between calls, is what the device holds.
THEOREM MirrorAgreesHolds == MSpec => []MirrorAgrees
<1>1. MInit => MirrorInv
  BY DEF MInit, Init, DriverInit, MirrorInv, KnownOK, Nothing, Performed, ValsAgree,
         TypesAgree, FailsafeAgrees, TimeoutAgrees
<1>2. TypeOK /\ StopAndWaitInv /\ ContractInv /\ MirrorInv /\ [MNext]_<<vars, known>>
        => MirrorInv'
  BY MirrorStep
<1>3. TypeOK /\ StopAndWaitInv /\ ContractInv /\ MirrorInv => MirrorAgrees
  <2> SUFFICES ASSUME TypeOK, StopAndWaitInv, ContractInv, MirrorInv, drv = "idle"
               PROVE  MirrorAgrees
    BY DEF MirrorAgrees
  <2>1. ~Performed
    BY Alone DEF Performed
  <2>2. QED
    BY <2>1 DEF MirrorAgrees, MirrorInv, ValsAgree, TypesAgree, FailsafeAgrees, TimeoutAgrees
<1>4. MSpec => Spec
  <2>1. MInit => Init
    BY DEF MInit
  <2>2. [MNext]_<<vars, known>> => [Next]_vars
    BY DEF MNext
  <2>3. QED
    BY <2>1, <2>2, PTL DEF MSpec, Spec
<1>5. QED
  BY <1>1, <1>2, <1>3, <1>4, Always, PTL DEF MSpec

=============================================================================
