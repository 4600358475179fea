---------------------------- MODULE PacketProofs ----------------------------
(***************************************************************************)
(* What the operators that build and read packets return: the lemmas the   *)
(* proofs about the two processes rest on.                                 *)
(***************************************************************************)
EXTENDS Failsafe, BitUtilsProofs, FiniteSetTheorems, WellFoundedInduction

\* The conversion of a size to uint16_t.
LEMMA SizeType ==
    ASSUME NEW size \in Nat
    PROVE  size % 65536 \in UINT16
BY DEF UINT16

\* packet builds a packet out of a header, a size and a bit buffer.
LEMMA PacketType ==
    ASSUME NEW cmd \in 0..15, NEW param \in SUBSET (0..3), NEW size \in Nat,
           NEW data \in SUBSET Nat
    PROVE  packet(cmd, param, size, data) \in Packet
<1> DEFINE size16 == size % 65536
           sent   == {i \in data : i \div 8 < size16}
<1>1. size16 \in UINT16
  BY SizeType
<1> HIDE DEF size16
<1>2. sent \in SUBSET Nat
  OBVIOUS
<1>3. packet(cmd, param, size, data)
        = [cmd |-> cmd, param |-> param, size |-> size16, data |-> sent]
  BY DEF packet, size16
<1> HIDE DEF sent
<1>4. QED
  BY <1>1, <1>2, <1>3 DEF Packet

\* The parameter of a request is four bits.
LEMMA ParamType ==
    ASSUME NEW pin_type \in PinType, NEW how \in {USE_PIN_ID, USE_MASK}
    PROVE  type_param(pin_type, how) \in SUBSET (0..3)
<1>1. \A j \in 0..2 : j + 1 \in 0..3
  OBVIOUS
<1>2. QED
  BY <1>1 DEF type_param, PinType, USE_PIN_ID, USE_MASK

\* The type a request carries is a pin type.
LEMMA ParamTypeRead ==
    ASSUME NEW p
    PROVE  param_type(p) \in PinType
BY DEF param_type, PinType

\* A type is 0, 1, 8 or 16 bits wide.
LEMMA WidthType ==
    ASSUME NEW pin_type
    PROVE  get_type_bits_nb(pin_type) \in {0, 1, 8, 16}
BY DEF get_type_bits_nb

\* Three bits are read into a pin type.
LEMMA ReadPinType ==
    ASSUME NEW src, NEW offset \in Nat
    PROVE  read_bit_value(src, offset, PIN_TYPE_BITS_NB) \in PinType
<1>1. 3 \in 0..16 /\ (offset % 8) + 3 <= 16
  BY ByteAndBit
<1>2. read_bit_value(src, offset, 3)
        = {j \in 0 .. 3 - 1 : offset + 3 - 1 - j \in src}
  BY <1>1, ReadTwoBytes
<1>3. 0 .. 3 - 1 = 0..2
  OBVIOUS
<1>4. QED
  BY <1>2, <1>3 DEF PIN_TYPE_BITS_NB, PinType

\* A mask of at most 255 pins is finite and its counts are numbers.
LEMMA CountType ==
    ASSUME NEW m \in SUBSET PinIds, NEW n
    PROVE  /\ mask_nb_pins_used(m, n) \in UINT8
           /\ mask_index(m, n) \in Nat
<1>1. ASSUME NEW s \in SUBSET PinIds
      PROVE  Cardinality(s) \in UINT8
  <2>1. s \in SUBSET Nat /\ \A p \in s : p <= 254
    BY DEF PinIds
  <2>2. IsFiniteSet(s) /\ Cardinality(s) <= 255
    BY <2>1, FS_BoundedSetOfNaturals
  <2>3. Cardinality(s) \in Nat
    BY <2>2, FS_CardinalityType
  <2>4. QED
    BY <2>2, <2>3 DEF UINT8
<1>2. /\ {p \in m : p < n} \in SUBSET PinIds
      /\ {q \in m : q < n} \in SUBSET PinIds
  OBVIOUS
<1>3. QED
  BY <1>1, <1>2 DEF mask_nb_pins_used, mask_index, UINT8

\* Lists of values take positions of the buffer.
LEMMA WriteListType ==
    ASSUME NEW buffer \in SUBSET Nat, NEW offset \in Nat, NEW m \in SUBSET PinIds,
           NEW values, NEW size \in Nat
    PROVE  write_value_list(buffer, offset, m, values, size) \in SUBSET Nat
<1>1. ASSUME NEW p \in m
      PROVE  write_bit_value({}, value_offset(offset, m, p, size), values[p], size)
               \in SUBSET Nat
  <2>1. size * mask_index(m, p) \in Nat
    BY CountType
  <2>2. value_offset(offset, m, p, size) \in Nat
    BY <2>1 DEF value_offset
  <2>3. QED
    BY <2>2, WriteType
<1>2. QED
  BY <1>1 DEF write_value_list

\* A list of types is read as pin types.
LEMMA ReadListOfTypes ==
    ASSUME NEW buffer, NEW offset \in Nat, NEW m \in SUBSET PinIds
    PROVE  read_value_list(buffer, offset, m, PIN_TYPE_BITS_NB) \in [m -> PinType]
<1>1. ASSUME NEW p \in m
      PROVE  value_offset(offset, m, p, PIN_TYPE_BITS_NB) \in Nat
  <2>1. mask_index(m, p) \in Nat
    BY CountType
  <2>2. QED
    BY <2>1 DEF value_offset, PIN_TYPE_BITS_NB
<1>2. QED
  BY <1>1, ReadPinType DEF read_value_list

\* BITS2BYTES of a number of bits is a number of bytes.
LEMMA BytesType ==
    ASSUME NEW bits \in Nat
    PROVE  BITS2BYTES(bits) \in Nat /\ BITS2BYTES_unsigned(bits) \in Nat
<1>1. CASE bits = 0
  BY <1>1 DEF BITS2BYTES, BITS2BYTES_unsigned
<1>2. CASE bits # 0
  <2>1. bits - 1 \in Nat
    BY <1>2
  <2>2. (bits - 1) \div 8 \in Nat
    BY <2>1
  <2>3. QED
    BY <1>2, <2>2 DEF BITS2BYTES, BITS2BYTES_unsigned
<1>3. QED
  BY <1>1, <1>2

\* Storing a list keeps the domain and the range of an array.
LEMMA StoreType ==
    ASSUME NEW D, NEW S, NEW f \in [D -> S], NEW E, NEW g \in [E -> S]
    PROVE  store(f, g) \in [D -> S]
BY DEF store

-----------------------------------------------------------------------------
(* Failsafe states.                                                        *)

\* A fresh failsafe, and one some pins of which were stored.
LEMMA FailsafeType ==
    ASSUME NEW S
    PROVE  /\ new_failsafe(S) \in FailsafeOf(S)
           /\ \A f \in FailsafeOf(S), timeout \in Word :
                 \A E : \A states \in [E -> Octet], values \in [E -> Word] :
                    store_failsafe(f, timeout, states, values) \in FailsafeOf(S)
<1>1. new_failsafe(S) \in FailsafeOf(S)
  BY DEF new_failsafe, FailsafeOf, Word, Octet, PIN_TYPE_DISABLED
<1>2. ASSUME NEW f \in FailsafeOf(S), NEW timeout \in Word, NEW E,
             NEW states \in [E -> Octet], NEW values \in [E -> Word]
      PROVE  store_failsafe(f, timeout, states, values) \in FailsafeOf(S)
  <2>1. f.pin_state \in [S -> Octet] /\ f.pin_value \in [S -> Word]
    BY DEF FailsafeOf
  <2>2. store(f.pin_state, states) \in [S -> Octet]
    BY <2>1, StoreType
  <2>3. store(f.pin_value, values) \in [S -> Word]
    BY <2>1, StoreType
  <2>4. QED
    BY <2>2, <2>3 DEF store_failsafe, FailsafeOf
<1>3. QED
  BY <1>1, <1>2

\* Pin types are octets, and octets and pin types are words.
LEMMA Widenings == PinType \subseteq Octet /\ PinType \subseteq Word /\ Octet \subseteq Word
BY DEF PinType, Octet, Word

\* The bits failsafe states take in a packet are counted by numbers.
LEMMA FailsafeBitsType ==
    ASSUME NEW f, NEW m \in SUBSET PinIds
    PROVE  enabled_bits(f, m) \in Nat /\ failsafe_nb_bits(f, m) \in Nat
<1>1. ASSUME NEW s \in SUBSET PinIds
      PROVE  Cardinality(s) \in Nat
  <2>1. s \in SUBSET Nat /\ \A p \in s : p <= 254
    BY DEF PinIds
  <2>2. IsFiniteSet(s)
    BY <2>1, FS_BoundedSetOfNaturals
  <2>3. QED
    BY <2>2, FS_CardinalityType
<1> DEFINE N(w) == Cardinality({p \in enabled(f, m) : get_type_bits_nb(f.pin_state[p]) = w})
<1>2. \A w : N(w) \in Nat
  <2>1. \A w : {p \in enabled(f, m) : get_type_bits_nb(f.pin_state[p]) = w} \in SUBSET PinIds
    BY DEF enabled
  <2>2. QED
    BY <1>1, <2>1
<1>3. N(0) \in Nat /\ N(1) \in Nat /\ N(8) \in Nat /\ N(16) \in Nat
  BY <1>2
<1>4. enabled_bits(f, m)
        = PIN_TYPE_BITS_NB * (N(0) + N(1) + N(8) + N(16)) + N(1) + 8 * N(8) + 16 * N(16)
  BY DEF enabled_bits
<1> HIDE DEF N
<1>5. enabled_bits(f, m) \in Nat
  BY <1>3, <1>4 DEF PIN_TYPE_BITS_NB
<1>6. QED
  BY <1>1, <1>5 DEF failsafe_nb_bits

\* Failsafe states take positions of the buffer.
LEMMA WriteFailsafeType ==
    ASSUME NEW offset \in Nat, NEW f, NEW m \in SUBSET PinIds
    PROVE  write_failsafe(offset, f, m) \in SUBSET Nat
<1> DEFINE at(p)    == offset + enabled_bits(f, {q \in m : q < p})
           entry(p) == write_bit_value({}, at(p), f.pin_state[p], PIN_TYPE_BITS_NB)
                         \cup write_bit_value({}, at(p) + PIN_TYPE_BITS_NB, f.pin_value[p],
                                              get_type_bits_nb(f.pin_state[p]))
<1>1. ASSUME NEW p \in enabled(f, m)
      PROVE  entry(p) \in SUBSET Nat
  <2>1. {q \in m : q < p} \in SUBSET PinIds
    OBVIOUS
  <2>2. enabled_bits(f, {q \in m : q < p}) \in Nat
    BY <2>1, FailsafeBitsType
  <2> HIDE DEF at
  <2>3. at(p) \in Nat /\ at(p) + PIN_TYPE_BITS_NB \in Nat
    BY <2>2 DEF PIN_TYPE_BITS_NB, at
  <2>4. PIN_TYPE_BITS_NB \in Nat /\ get_type_bits_nb(f.pin_state[p]) \in Nat
    BY WidthType DEF PIN_TYPE_BITS_NB
  <2>5. QED
    BY <2>3, <2>4, WriteType
<1>2. write_failsafe(offset, f, m) = UNION {entry(p) : p \in enabled(f, m)}
  BY DEF write_failsafe
<1> HIDE DEF entry
<1>3. QED
  BY <1>1, <1>2

\* What read_failsafe returns, whatever lies in the buffer.
LEMMA ReadFailsafeType ==
    ASSUME NEW buffer, NEW offset, NEW m
    PROVE  /\ read_failsafe_states(buffer, offset, m) \in [m -> Octet]
           /\ read_failsafe_values(buffer, offset, m) \in [m -> Word]
<1>1. \A at : read_type(buffer, at) \in Octet
  BY DEF read_type, to_uint8, Octet
<1>2. \A at, size : read_bit_value(buffer, at, size) \in Word
  BY ReadType
<1>3. QED
  BY <1>1, <1>2 DEF read_failsafe_states, read_failsafe_values

-----------------------------------------------------------------------------
(* Lists of values.                                                        *)

\* The widths a list may have.
ListWidths == {0, 1, 3, 8, 16}

\* A product with one of the widths, once the width is known.
LEMMA WidthTimes ==
    ASSUME NEW w \in ListWidths, NEW a \in Nat, NEW b \in Nat
    PROVE  /\ w * a \in Nat
           /\ a + 1 <= b => w * a + w <= w * b
<1>1. CASE w = 0
  BY <1>1
<1>2. CASE w = 1
  BY <1>2
<1>3. CASE w = 3
  BY <1>3
<1>4. CASE w = 8
  BY <1>4
<1>5. CASE w = 16
  BY <1>5
<1>6. QED
  BY <1>1, <1>2, <1>3, <1>4, <1>5 DEF ListWidths

\* The pins of a mask are few.
LEMMA MaskFinite ==
    ASSUME NEW m \in SUBSET PinIds
    PROVE  IsFiniteSet(m) /\ Cardinality(m) \in Nat /\ Cardinality(m) <= 255
<1>1. m \in SUBSET Nat /\ \A p \in m : p <= 254
  BY DEF PinIds
<1>2. IsFiniteSet(m) /\ Cardinality(m) <= 255
  BY <1>1, FS_BoundedSetOfNaturals
<1>3. QED
  BY <1>2, FS_CardinalityType

\* Every pin of a mask has a rank of its own, in the order of the pins.
LEMMA MaskIndex ==
    ASSUME NEW m \in SUBSET PinIds, NEW p \in m
    PROVE  /\ mask_index(m, p) \in Nat
           /\ mask_index(m, p) + 1 <= Cardinality(m)
           /\ \A q \in m : p < q => mask_index(m, p) + 1 <= mask_index(m, q)
<1> DEFINE before(q) == {r \in m : r < q}
<1>1. ASSUME NEW S \in SUBSET m, before(p) \cup {p} \subseteq S
      PROVE  mask_index(m, p) + 1 <= Cardinality(S)
  <2>1. before(p) \in SUBSET PinIds /\ S \in SUBSET PinIds
    OBVIOUS
  <2>2. IsFiniteSet(before(p)) /\ IsFiniteSet(S)
    BY <2>1, MaskFinite
  <2>3. p \in PinIds
    OBVIOUS
  <2>4. p \notin before(p)
    BY <2>3 DEF PinIds
  <2> HIDE DEF before
  <2>5. Cardinality(before(p) \cup {p}) = Cardinality(before(p)) + 1
    BY <2>2, <2>4, FS_AddElement
  <2>6. Cardinality(before(p) \cup {p}) <= Cardinality(S)
    BY <1>1, <2>2, FS_Subset
  <2>7. QED
    BY <2>5, <2>6 DEF mask_index, before
<1>2. mask_index(m, p) + 1 <= Cardinality(m)
  BY <1>1
<1>3. ASSUME NEW q \in m, p < q
      PROVE  mask_index(m, p) + 1 <= mask_index(m, q)
  <2>1. p \in Int /\ q \in Int
    BY DEF PinIds
  <2>2. ASSUME NEW r \in m, r < p
        PROVE  r < q
    <3>1. r \in Int
      BY DEF PinIds
    <3>2. QED
      BY <1>3, <2>1, <2>2, <3>1
  <2>3. before(p) \cup {p} \subseteq before(q) /\ before(q) \in SUBSET m
    BY <1>3, <2>2
  <2>4. QED
    BY <1>1, <2>3 DEF mask_index
<1>4. QED
  BY <1>2, <1>3, CountType

\* The values of a list lie one behind the other.
LEMMA ListPlaces ==
    ASSUME NEW m \in SUBSET PinIds, NEW offset \in Nat, NEW w \in ListWidths, NEW p \in m
    PROVE  /\ value_offset(offset, m, p, w) \in Nat
           /\ offset <= value_offset(offset, m, p, w)
           /\ value_offset(offset, m, p, w) + w <= offset + w * Cardinality(m)
           /\ \A q \in m : p < q =>
                 value_offset(offset, m, p, w) + w <= value_offset(offset, m, q, w)
<1>1. mask_index(m, p) \in Nat /\ Cardinality(m) \in Nat /\ w \in Nat
  BY MaskIndex, MaskFinite DEF ListWidths
<1>2. w * mask_index(m, p) \in Nat
  BY <1>1, WidthTimes
<1>3. w * mask_index(m, p) + w <= w * Cardinality(m) /\ w * Cardinality(m) \in Nat
  BY <1>1, WidthTimes, MaskIndex
<1>4. ASSUME NEW q \in m, p < q
      PROVE  value_offset(offset, m, p, w) + w <= value_offset(offset, m, q, w)
  <2>1. mask_index(m, q) \in Nat /\ mask_index(m, p) + 1 <= mask_index(m, q)
    BY <1>4, MaskIndex
  <2>2. w * mask_index(m, p) + w <= w * mask_index(m, q) /\ w * mask_index(m, q) \in Nat
    BY <1>1, <2>1, WidthTimes
  <2>3. QED
    BY <1>1, <1>2, <2>2 DEF value_offset
<1>5. QED
  BY <1>1, <1>2, <1>3, <1>4 DEF value_offset

\* Every value of a list fits its field and comes back from it.
ListCarries(offset, m, values, w) ==
    \A p \in m : Carries(value_offset(offset, m, p, w), values[p], w)

\* What a list of values is in the buffer: what was there, and the fields.
LEMMA ListWritten ==
    ASSUME NEW buffer, NEW offset, NEW m, NEW values, NEW w,
           ListCarries(offset, m, values, w)
    PROVE  write_value_list(buffer, offset, m, values, w)
             = buffer \cup UNION {FieldBits(value_offset(offset, m, p, w), values[p], w) : p \in m}
<1>1. ASSUME NEW p \in m
      PROVE  write_bit_value({}, value_offset(offset, m, p, w), values[p], w)
               = FieldBits(value_offset(offset, m, p, w), values[p], w)
  <2>1. Carries(value_offset(offset, m, p, w), values[p], w)
    BY DEF ListCarries
  <2>2. QED
    BY <2>1, WriteCarried
<1>2. QED
  BY <1>1 DEF write_value_list

\* Positions in front of the list are left alone.
LEMMA ListBehind ==
    ASSUME NEW buffer, NEW offset \in Nat, NEW m \in SUBSET PinIds, NEW values,
           NEW w \in ListWidths, ListCarries(offset, m, values, w),
           NEW i \in Nat, i < offset
    PROVE  i \in write_value_list(buffer, offset, m, values, w) <=> i \in buffer
<1>1. ASSUME NEW p \in m
      PROVE  i \notin FieldBits(value_offset(offset, m, p, w), values[p], w)
  <2>1. PICK at \in Nat : at = value_offset(offset, m, p, w) /\ offset <= at
    BY ListPlaces
  <2>2. Carries(at, values[p], w)
    BY <2>1 DEF ListCarries
  <2>3. FieldBits(at, values[p], w) \subseteq at .. at + w - 1
    BY <2>2, FieldRange
  <2>4. i \notin at .. at + w - 1
    BY <2>1
  <2>5. QED
    BY <2>1, <2>3, <2>4
<1>2. QED
  BY <1>1, ListWritten

\* The positions of a buffer lie in front of offset; two buffers agree between two places.
AllBefore(buffer, offset) == \A i \in buffer : i \in Int /\ i < offset
SameOn(src, dst, first, end) == \A i \in first .. end - 1 : i \in src <=> i \in dst

\* A list that was written behind a buffer is read back, wherever the reader's memory
\* agrees with the writer's on the positions of the list.
LEMMA ListRead ==
    ASSUME NEW buffer, NEW offset \in Nat, NEW m \in SUBSET PinIds, NEW values,
           NEW w \in ListWidths, ListCarries(offset, m, values, w),
           AllBefore(buffer, offset), NEW src,
           SameOn(src, write_value_list(buffer, offset, m, values, w),
                  offset, offset + w * Cardinality(m))
    PROVE  read_value_list(src, offset, m, w) = [p \in m |-> values[p]]
<1> DEFINE at(p) == value_offset(offset, m, p, w)
<1>1. w \in Nat
  BY DEF ListWidths
<1>2. PICK end \in Nat : end = offset + w * Cardinality(m)
  <2>1. PICK n \in Nat : n = w * Cardinality(m)
    BY MaskFinite, WidthTimes
  <2>2. offset + n \in Nat
    BY <2>1
  <2>3. QED
    BY <2>1, <2>2
<1>3. ASSUME NEW p \in m, NEW i \in at(p) .. at(p) + w - 1
      PROVE  i \in src <=> i \in FieldBits(at(p), values[p], w)
  <2>1. at(p) \in Nat /\ offset <= at(p) /\ at(p) + w <= end
    BY <1>2, ListPlaces
  <2>2. i \in offset .. end - 1 /\ i \notin buffer
    BY <1>1, <1>2, <1>3, <2>1 DEF AllBefore
  <2>3. ASSUME NEW q \in m, i \in FieldBits(at(q), values[q], w)
        PROVE  q = p
    <3>1. at(q) \in Nat
      BY ListPlaces
    <3>2. Carries(at(q), values[q], w)
      BY DEF ListCarries
    <3>3. i \in at(q) .. at(q) + w - 1
      BY <2>3, <3>2, FieldRange
    <3>4. p \in Int /\ q \in Int
      BY DEF PinIds
    <3>5. (p < q => at(p) + w <= at(q)) /\ (q < p => at(q) + w <= at(p))
      BY ListPlaces
    <3> HIDE DEF at
    <3>6. QED
      BY <1>1, <1>3, <2>1, <3>1, <3>3, <3>4, <3>5
  <2>4. i \in write_value_list(buffer, offset, m, values, w)
          <=> i \in FieldBits(at(p), values[p], w)
    BY <2>2, <2>3, ListWritten
  <2>5. i \in src <=> i \in write_value_list(buffer, offset, m, values, w)
    BY <1>2, <2>2 DEF SameOn
  <2>6. QED
    BY <2>4, <2>5
<1>4. ASSUME NEW p \in m
      PROVE  read_bit_value(src, at(p), w) = values[p]
  <2>1. Carries(at(p), values[p], w)
    BY DEF ListCarries
  <2>2. QED
    BY <1>3, <2>1, ReadCarried
<1>5. QED
  BY <1>4 DEF read_value_list

-----------------------------------------------------------------------------
(* Lists of failsafe states, whose entries say how long they are.          *)

\* The least-number principle, for sets.
LEMMA Smallest ==
    ASSUME NEW T, T \subseteq Nat, T # {}
    PROVE  \E x \in T : \A y \in T : x <= y
<1> DEFINE R == OpToRel(<, Nat)
<1>1. IsWellFoundedOn(R, Nat)
  BY NatLessThanWellFounded
<1>2. R = {ss \in Nat \X Nat : ss[1] < ss[2]}
  BY Zenon DEF OpToRel
<1> HIDE DEF R
<1>3. PICK x \in T : \A y \in T : ~(<<y, x>> \in R)
  BY <1>1, WFMin
<1>4. ASSUME NEW y \in T
      PROVE  x <= y
  <2>1. <<y, x>> \in Nat \X Nat
    BY <1>3
  <2>2. ~(y < x)
    BY <1>2, <1>3, <2>1
  <2>3. QED
    BY <2>2
<1>5. QED
  BY <1>3, <1>4

\* Where the entry behind the one at prev starts.
next_entry(buffer, prev) ==
    prev + PIN_TYPE_BITS_NB + get_type_bits_nb(read_type(buffer, prev))

LEMMA NextEntryType ==
    ASSUME NEW buffer, NEW prev \in Nat
    PROVE  next_entry(buffer, prev) \in Nat
<1>1. get_type_bits_nb(read_type(buffer, prev)) \in Nat
  BY WidthType
<1>2. QED
  BY <1>1 DEF next_entry, PIN_TYPE_BITS_NB

\* s holds the places of the entries up to the n-th.
EntryPlaces(s, buffer, offset, n) ==
    s = [k \in 0 .. n |-> IF k = 0 THEN offset ELSE next_entry(buffer, s[k - 1])]

LEMMA EntryPlacesExist ==
    ASSUME NEW buffer, NEW offset
    PROVE  \A n \in Nat : \E s : EntryPlaces(s, buffer, offset, n)
<1> DEFINE T == {n \in Nat : ~ \E s : EntryPlaces(s, buffer, offset, n)}
<1> SUFFICES ASSUME T # {} PROVE FALSE
  OBVIOUS
<1>1. \A n \in Nat : n \notin T => \E s : EntryPlaces(s, buffer, offset, n)
  BY Zenon
<1>2. PICK n \in T : \A k \in T : n <= k
  <2>1. T \subseteq Nat
    OBVIOUS
  <2> HIDE DEF T
  <2>2. QED
    BY <2>1, Smallest
<1>3. CASE n = 0
  <2>1. EntryPlaces([k \in 0 .. 0 |-> offset], buffer, offset, 0)
    BY DEF EntryPlaces
  <2>2. QED
    BY <1>2, <1>3, <2>1
<1>4. CASE n # 0
  <2>1. n - 1 \in Nat /\ n - 1 \notin T
    BY <1>2, <1>4
  <2>2. PICK s : EntryPlaces(s, buffer, offset, n - 1)
    BY <1>1, <2>1
  <2> DEFINE t == [k \in 0 .. n |-> IF k = n THEN next_entry(buffer, s[n - 1]) ELSE s[k]]
             u == [k \in 0 .. n |-> IF k = 0 THEN offset ELSE next_entry(buffer, t[k - 1])]
  <2>3. ASSUME NEW k \in 0 .. n
        PROVE  t[k] = u[k]
    <3>1. n \in Nat
      BY <1>2
    <3>2. CASE k = n
      <4>1. n - 1 \in 0 .. n /\ n - 1 # n
        BY <1>4, <3>1
      <4>2. t[n - 1] = s[n - 1]
        BY <4>1
      <4>3. QED
        BY <1>4, <3>2, <4>2
    <3>3. CASE k # n /\ k # 0
      <4>1. k \in 0 .. n - 1 /\ k - 1 \in 0 .. n /\ k - 1 # n
        BY <3>1, <3>3
      <4>2. s[k] = next_entry(buffer, s[k - 1])
        BY <2>2, <3>3, <4>1 DEF EntryPlaces
      <4>3. t[k] = s[k] /\ t[k - 1] = s[k - 1]
        BY <3>3, <4>1
      <4>4. QED
        BY <3>3, <4>2, <4>3
    <3>4. CASE k # n /\ k = 0
      <4>1. 0 \in 0 .. n - 1
        BY <3>1, <3>4
      <4>2. s[0] = offset
        BY <2>2, <4>1 DEF EntryPlaces
      <4>3. QED
        BY <3>4, <4>2
    <3>5. QED
      BY <3>2, <3>3, <3>4
  <2>4. t = u
    BY <2>3
  <2>5. EntryPlaces(t, buffer, offset, n)
    BY <2>4 DEF EntryPlaces
  <2>6. QED
    BY <1>2, <2>5
<1>5. QED
  BY <1>3, <1>4

\* entry_offset is the last of them, so it follows the entry before.
LEMMA EntryOffset ==
    ASSUME NEW buffer, NEW offset \in Nat
    PROVE  /\ \A n \in Nat : entry_offset(buffer, offset, n) \in Nat
           /\ entry_offset(buffer, offset, 0) = offset
           /\ \A n \in Nat \ {0} :
                 entry_offset(buffer, offset, n)
                   = next_entry(buffer, entry_offset(buffer, offset, n - 1))
<1> DEFINE Is(s, n) == s = [k \in 0 .. n |->
                              IF k = 0 THEN offset
                              ELSE LET prev == s[k - 1]
                                   IN  prev + PIN_TYPE_BITS_NB
                                         + get_type_bits_nb(read_type(buffer, prev))]
           at(n)    == CHOOSE s : Is(s, n)
<1>1. \A n \in Nat : entry_offset(buffer, offset, n) = at(n)[n]
  BY Zenon DEF entry_offset
<1>2. \A n, s : Is(s, n) <=> EntryPlaces(s, buffer, offset, n)
  BY Zenon DEF EntryPlaces, next_entry
<1> HIDE DEF Is
<1>3. ASSUME NEW n \in Nat
      PROVE  EntryPlaces(at(n), buffer, offset, n)
  <2>1. \E s : Is(s, n)
    BY <1>2, EntryPlacesExist
  <2>2. Is(at(n), n)
    BY <2>1, Zenon
  <2>3. QED
    BY <1>2, <2>2
<1> HIDE DEF at
<1>4. ASSUME NEW n \in Nat
      PROVE  /\ at(n)[0] = offset
             /\ \A k \in 1 .. n : at(n)[k] = next_entry(buffer, at(n)[k - 1])
  <2>1. at(n) = [k \in 0 .. n |-> IF k = 0 THEN offset
                                   ELSE next_entry(buffer, at(n)[k - 1])]
    BY <1>3 DEF EntryPlaces
  <2>2. 0 \in 0 .. n /\ \A k \in 1 .. n : k \in 0 .. n /\ k # 0
    OBVIOUS
  <2>3. QED
    BY <2>1, <2>2
<1>5. ASSUME NEW n \in Nat
      PROVE  \A k \in 0 .. n : at(n)[k] \in Nat
  <2> DEFINE T == {k \in 0 .. n : at(n)[k] \notin Nat}
  <2> SUFFICES ASSUME T # {} PROVE FALSE
    OBVIOUS
  <2>1. PICK k \in T : \A j \in T : k <= j
    <3>1. T \subseteq Nat
      OBVIOUS
    <3> HIDE DEF T
    <3>2. QED
      BY <3>1, Smallest
  <2>2. k # 0
    BY <1>4, <2>1
  <2>3. k \in 1 .. n /\ k - 1 \in 0 .. n /\ k - 1 \notin T
    BY <2>1, <2>2
  <2>4. at(n)[k - 1] \in Nat
    BY <2>3
  <2>5. QED
    BY <1>4, <2>1, <2>3, <2>4, NextEntryType
<1>6. ASSUME NEW n \in Nat \ {0}
      PROVE  \A k \in 0 .. n - 1 : at(n)[k] = at(n - 1)[k]
  <2> DEFINE T == {k \in 0 .. n - 1 : at(n)[k] # at(n - 1)[k]}
  <2> SUFFICES ASSUME T # {} PROVE FALSE
    OBVIOUS
  <2>1. PICK k \in T : \A j \in T : k <= j
    <3>1. T \subseteq Nat
      OBVIOUS
    <3> HIDE DEF T
    <3>2. QED
      BY <3>1, Smallest
  <2>2. n - 1 \in Nat
    OBVIOUS
  <2>3. k # 0
    BY <1>4, <2>1, <2>2
  <2>4. k \in 1 .. n - 1 /\ k \in 1 .. n /\ k - 1 \in 0 .. n - 1 /\ k - 1 \notin T
    BY <2>1, <2>3
  <2>5. at(n)[k - 1] = at(n - 1)[k - 1]
    BY <2>4
  <2>6. /\ at(n)[k] = next_entry(buffer, at(n)[k - 1])
        /\ at(n - 1)[k] = next_entry(buffer, at(n - 1)[k - 1])
    BY <1>4, <2>2, <2>4
  <2>7. QED
    BY <2>1, <2>5, <2>6
<1>7. ASSUME NEW n \in Nat
      PROVE  entry_offset(buffer, offset, n) \in Nat
  BY <1>1, <1>5
<1>8. entry_offset(buffer, offset, 0) = offset
  BY <1>1, <1>4
<1>9. ASSUME NEW n \in Nat \ {0}
      PROVE  entry_offset(buffer, offset, n)
               = next_entry(buffer, entry_offset(buffer, offset, n - 1))
  <2>1. n \in 1 .. n /\ n - 1 \in 0 .. n - 1 /\ n - 1 \in Nat
    OBVIOUS
  <2>2. at(n)[n] = next_entry(buffer, at(n)[n - 1]) /\ at(n)[n - 1] = at(n - 1)[n - 1]
    BY <1>4, <1>6, <2>1
  <2>3. QED
    BY <1>1, <2>1, <2>2
<1>10. QED
  BY <1>7, <1>8, <1>9

\* The bits of entries, counted by width.
Entries(f, S, w) == {p \in enabled(f, S) : get_type_bits_nb(f.pin_state[p]) = w}

LEMMA EntryCounts ==
    ASSUME NEW f, NEW S \in SUBSET PinIds
    PROVE  /\ \A w : IsFiniteSet(Entries(f, S, w)) /\ Cardinality(Entries(f, S, w)) \in Nat
           /\ enabled_bits(f, S)
                = 3 * (Cardinality(Entries(f, S, 0)) + Cardinality(Entries(f, S, 1))
                         + Cardinality(Entries(f, S, 8)) + Cardinality(Entries(f, S, 16)))
                    + Cardinality(Entries(f, S, 1)) + 8 * Cardinality(Entries(f, S, 8))
                    + 16 * Cardinality(Entries(f, S, 16))
<1>1. \A w : Entries(f, S, w) \in SUBSET PinIds
  BY DEF Entries, enabled
<1>2. QED
  BY <1>1, MaskFinite DEF enabled_bits, Entries, PIN_TYPE_BITS_NB

\* One more pin adds its type and its value.
LEMMA EntryAdded ==
    ASSUME NEW f, NEW S \in SUBSET PinIds, NEW p \in PinIds, p \notin S,
           f.pin_state[p] # PIN_TYPE_DISABLED
    PROVE  enabled_bits(f, S \cup {p})
             = enabled_bits(f, S) + 3 + get_type_bits_nb(f.pin_state[p])
<1> DEFINE width == get_type_bits_nb(f.pin_state[p])
           old(w) == Cardinality(Entries(f, S, w))
           new(w) == Cardinality(Entries(f, S \cup {p}, w))
<1>1. width \in {0, 1, 8, 16}
  BY WidthType
<1> HIDE DEF width
<1>2. ASSUME NEW w
      PROVE  new(w) = IF w = width THEN old(w) + 1 ELSE old(w)
  <2>1. CASE w = width
    <3>1. Entries(f, S \cup {p}, w) = Entries(f, S, w) \cup {p}
      BY <2>1 DEF Entries, enabled, width
    <3>2. p \notin Entries(f, S, w)
      BY DEF Entries, enabled
    <3>3. IsFiniteSet(Entries(f, S, w))
      BY EntryCounts
    <3>4. Cardinality(Entries(f, S, w) \cup {p}) = Cardinality(Entries(f, S, w)) + 1
      BY <3>2, <3>3, FS_AddElement
    <3>5. QED
      BY <2>1, <3>1, <3>4
  <2>2. CASE w # width
    <3>1. Entries(f, S \cup {p}, w) = Entries(f, S, w)
      BY <2>2 DEF Entries, enabled, width
    <3>2. QED
      BY <2>2, <3>1
  <2>3. QED
    BY <2>1, <2>2
<1>3. old(0) \in Nat /\ old(1) \in Nat /\ old(8) \in Nat /\ old(16) \in Nat
  BY EntryCounts
<1>4. enabled_bits(f, S) = 3 * (old(0) + old(1) + old(8) + old(16)) + old(1) + 8 * old(8)
                             + 16 * old(16)
  BY EntryCounts
<1>5. enabled_bits(f, S \cup {p})
        = 3 * (new(0) + new(1) + new(8) + new(16)) + new(1) + 8 * new(8) + 16 * new(16)
  <2>1. S \cup {p} \in SUBSET PinIds
    OBVIOUS
  <2>2. QED
    BY <2>1, EntryCounts
<1>6. /\ new(0) = IF 0 = width THEN old(0) + 1 ELSE old(0)
      /\ new(1) = IF 1 = width THEN old(1) + 1 ELSE old(1)
      /\ new(8) = IF 8 = width THEN old(8) + 1 ELSE old(8)
      /\ new(16) = IF 16 = width THEN old(16) + 1 ELSE old(16)
  BY <1>2
<1> HIDE DEF old, new
<1>7. enabled_bits(f, S \cup {p}) = enabled_bits(f, S) + 3 + width
  BY <1>1, <1>3, <1>4, <1>5, <1>6
<1>8. QED
  BY <1>7 DEF width

\* More pins take no fewer bits, and no pin takes more than 19.
LEMMA EntryBounds ==
    ASSUME NEW f, NEW S \in SUBSET PinIds, NEW T \in SUBSET S
    PROVE  /\ enabled_bits(f, T) \in Nat /\ enabled_bits(f, T) <= enabled_bits(f, S)
           /\ enabled_bits(f, S) <= 19 * Cardinality(S)
<1> DEFINE n(R, w) == Cardinality(Entries(f, R, w))
<1>1. T \in SUBSET PinIds
  OBVIOUS
<1>2. ASSUME NEW R \in SUBSET PinIds
      PROVE  /\ n(R, 0) \in Nat /\ n(R, 1) \in Nat /\ n(R, 8) \in Nat /\ n(R, 16) \in Nat
             /\ enabled_bits(f, R) = 3 * (n(R, 0) + n(R, 1) + n(R, 8) + n(R, 16))
                                       + n(R, 1) + 8 * n(R, 8) + 16 * n(R, 16)
  BY EntryCounts
<1>3. ASSUME NEW w
      PROVE  n(T, w) <= n(S, w)
  <2>1. Entries(f, T, w) \in SUBSET Entries(f, S, w)
    BY DEF Entries, enabled
  <2>2. IsFiniteSet(Entries(f, S, w))
    BY EntryCounts
  <2>3. QED
    BY <2>1, <2>2, FS_Subset
<1>4. n(S, 0) + n(S, 1) + n(S, 8) + n(S, 16) <= Cardinality(S)
  <2> DEFINE A == Entries(f, S, 0)
             B == Entries(f, S, 1)
             C == Entries(f, S, 8)
             D == Entries(f, S, 16)
  <2>1. /\ A \cap B = {} /\ (A \cup B) \cap C = {} /\ (A \cup B \cup C) \cap D = {}
        /\ A \cup B \cup C \cup D \subseteq S
    BY DEF Entries, enabled
  <2>2. IsFiniteSet(A) /\ IsFiniteSet(B) /\ IsFiniteSet(C) /\ IsFiniteSet(D)
    BY EntryCounts
  <2>3. IsFiniteSet(S) /\ Cardinality(S) \in Nat
    BY MaskFinite
  <2> HIDE DEF A, B, C, D
  <2>4. ASSUME NEW X, NEW Y, IsFiniteSet(X), IsFiniteSet(Y), X \cap Y = {}
        PROVE  IsFiniteSet(X \cup Y) /\ Cardinality(X \cup Y) = Cardinality(X) + Cardinality(Y)
    <3>1. Cardinality(X \cap Y) = 0
      BY <2>4, FS_EmptySet, Zenon
    <3>2. Cardinality(X) \in Nat /\ Cardinality(Y) \in Nat
      BY <2>4, FS_CardinalityType
    <3>3. /\ IsFiniteSet(X \cup Y)
          /\ Cardinality(X \cup Y) = Cardinality(X) + Cardinality(Y) - Cardinality(X \cap Y)
      BY <2>4, FS_Union
    <3>4. QED
      BY <2>4, <3>1, <3>2, <3>3
  <2>5. /\ IsFiniteSet(A \cup B) /\ Cardinality(A \cup B) = Cardinality(A) + Cardinality(B)
    BY <2>1, <2>2, <2>4
  <2>6. /\ IsFiniteSet(A \cup B \cup C)
        /\ Cardinality(A \cup B \cup C) = Cardinality(A \cup B) + Cardinality(C)
    BY <2>1, <2>2, <2>4, <2>5
  <2>7. Cardinality(A \cup B \cup C \cup D) = Cardinality(A \cup B \cup C) + Cardinality(D)
    BY <2>1, <2>2, <2>4, <2>6
  <2>8. Cardinality(A \cup B \cup C \cup D) <= Cardinality(S)
    BY <2>1, <2>3, FS_Subset
  <2>9. Cardinality(A) + Cardinality(B) + Cardinality(C) + Cardinality(D) <= Cardinality(S)
    BY <2>5, <2>6, <2>7, <2>8
  <2>10. QED
    BY <2>9 DEF A, B, C, D
<1>5. Cardinality(S) \in Nat
  BY MaskFinite
<1>6. n(T, 0) <= n(S, 0) /\ n(T, 1) <= n(S, 1) /\ n(T, 8) <= n(S, 8) /\ n(T, 16) <= n(S, 16)
  BY <1>3
<1>7. /\ n(S, 0) \in Nat /\ n(S, 1) \in Nat /\ n(S, 8) \in Nat /\ n(S, 16) \in Nat
      /\ enabled_bits(f, S) = 3 * (n(S, 0) + n(S, 1) + n(S, 8) + n(S, 16))
                                + n(S, 1) + 8 * n(S, 8) + 16 * n(S, 16)
  BY <1>2
<1>8. /\ n(T, 0) \in Nat /\ n(T, 1) \in Nat /\ n(T, 8) \in Nat /\ n(T, 16) \in Nat
      /\ enabled_bits(f, T) = 3 * (n(T, 0) + n(T, 1) + n(T, 8) + n(T, 16))
                                + n(T, 1) + 8 * n(T, 8) + 16 * n(T, 16)
  BY <1>1, <1>2
<1> HIDE DEF n
<1>9. enabled_bits(f, T) \in Nat /\ enabled_bits(f, T) <= enabled_bits(f, S)
  BY <1>6, <1>7, <1>8
<1>10. enabled_bits(f, S) <= 19 * Cardinality(S)
  BY <1>4, <1>5, <1>7
<1>11. QED
  BY <1>9, <1>10

\* Where write_failsafe puts the entry of a pin, and the bits it puts there.
EntryAt(offset, f, m, p) == offset + enabled_bits(f, {q \in m : q < p})

EntryBits(offset, f, m, p) ==
    FieldBits(EntryAt(offset, f, m, p), f.pin_state[p], PIN_TYPE_BITS_NB)
      \cup FieldBits(EntryAt(offset, f, m, p) + PIN_TYPE_BITS_NB, f.pin_value[p],
                     get_type_bits_nb(f.pin_state[p]))

\* The state of a pin is a type, and the value fits it and can be read at every offset.
EntryFits(f, p) ==
    /\ f.pin_state[p] \in PinType
    /\ f.pin_value[p] \in SUBSET (0 .. get_type_bits_nb(f.pin_state[p]) - 1)
    /\ f.pin_value[p] \subseteq 0..8

EntriesSent(f, m) ==
    \A p \in m : EntryFits(f, p) /\ f.pin_state[p] # PIN_TYPE_DISABLED

\* The entries lie one behind the other.
LEMMA EntryPlace ==
    ASSUME NEW offset \in Nat, NEW f, NEW m \in SUBSET PinIds, EntriesSent(f, m), NEW p \in m
    PROVE  /\ EntryAt(offset, f, m, p) \in Nat /\ offset <= EntryAt(offset, f, m, p)
           /\ EntryAt(offset, f, m, p) + 3 + get_type_bits_nb(f.pin_state[p])
                <= offset + enabled_bits(f, m)
           /\ \A q \in m : p < q =>
                 EntryAt(offset, f, m, p) + 3 + get_type_bits_nb(f.pin_state[p])
                   <= EntryAt(offset, f, m, q)
<1> DEFINE before(q) == {r \in m : r < q}
           eb(S)     == enabled_bits(f, S)
           width     == get_type_bits_nb(f.pin_state[p])
<1>1. before(p) \in SUBSET PinIds /\ p \in PinIds /\ p \notin before(p)
  <2>1. before(p) \in SUBSET PinIds /\ p \in PinIds
    OBVIOUS
  <2>2. ~(p < p)
    BY <2>1 DEF PinIds
  <2>3. QED
    BY <2>1, <2>2
<1>2. f.pin_state[p] # PIN_TYPE_DISABLED
  BY DEF EntriesSent
<1>3. eb(before(p) \cup {p}) = eb(before(p)) + 3 + width
  BY <1>1, <1>2, EntryAdded
<1>4. width \in Nat /\ eb(before(p)) \in Nat /\ eb(m) \in Nat
  BY <1>1, FailsafeBitsType, WidthType
<1>5. EntryAt(offset, f, m, p) = offset + eb(before(p))
  BY DEF EntryAt
<1>6. eb(before(p) \cup {p}) <= eb(m)
  <2>1. before(p) \cup {p} \in SUBSET m
    OBVIOUS
  <2>2. QED
    BY <2>1, EntryBounds
<1>7. ASSUME NEW q \in m, p < q
      PROVE  EntryAt(offset, f, m, p) + 3 + width <= EntryAt(offset, f, m, q)
  <2>1. ASSUME NEW r \in m, r < p
        PROVE  r < q
    <3>1. r \in Int /\ p \in Int /\ q \in Int
      BY DEF PinIds
    <3>2. QED
      BY <1>7, <2>1, <3>1
  <2>2. before(p) \cup {p} \in SUBSET before(q) /\ before(q) \in SUBSET PinIds
    BY <1>7, <2>1
  <2>3. eb(before(p) \cup {p}) <= eb(before(q)) /\ eb(before(q)) \in Nat
    BY <2>2, EntryBounds
  <2>4. EntryAt(offset, f, m, q) = offset + eb(before(q))
    BY DEF EntryAt
  <2> HIDE DEF eb, before, width
  <2>5. QED
    BY <1>3, <1>4, <1>5, <2>3, <2>4
<1> HIDE DEF eb, before
<1>8. /\ EntryAt(offset, f, m, p) \in Nat /\ offset <= EntryAt(offset, f, m, p)
      /\ EntryAt(offset, f, m, p) + 3 + width <= offset + eb(m)
  <2> HIDE DEF width
  <2>1. QED
    BY <1>3, <1>4, <1>5, <1>6
<1>9. QED
  BY <1>7, <1>8 DEF eb

\* Type and value of an entry are carried by their fields.
LEMMA EntryCarries ==
    ASSUME NEW at \in Nat, NEW f, NEW p, EntryFits(f, p)
    PROVE  /\ Carries(at, f.pin_state[p], 3)
           /\ Carries(at + 3, f.pin_value[p], get_type_bits_nb(f.pin_state[p]))
           /\ at + 3 \in Nat
<1>1. get_type_bits_nb(f.pin_state[p]) \in 0..16
  BY WidthType
<1>2. (at % 8) + 3 <= 16 /\ 3 \in 0..16 /\ 0 .. 3 - 1 = 0..2 /\ at + 3 \in Nat
  BY ByteAndBit
<1>3. QED
  BY <1>1, <1>2 DEF EntryFits, Carries, PinType

\* What write_failsafe writes when no pin is disabled.
LEMMA FailsafeWritten ==
    ASSUME NEW offset \in Nat, NEW f, NEW m \in SUBSET PinIds, EntriesSent(f, m)
    PROVE  write_failsafe(offset, f, m) = UNION {EntryBits(offset, f, m, p) : p \in m}
<1> DEFINE at(p)    == offset + enabled_bits(f, {q \in m : q < p})
           entry(p) == write_bit_value({}, at(p), f.pin_state[p], PIN_TYPE_BITS_NB)
                         \cup write_bit_value({}, at(p) + PIN_TYPE_BITS_NB, f.pin_value[p],
                                              get_type_bits_nb(f.pin_state[p]))
<1>1. write_failsafe(offset, f, m) = UNION {entry(p) : p \in enabled(f, m)}
  BY DEF write_failsafe
<1>2. enabled(f, m) = m
  BY DEF enabled, EntriesSent
<1>3. ASSUME NEW p \in m
      PROVE  entry(p) = EntryBits(offset, f, m, p)
  <2>1. at(p) \in Nat /\ at(p) = EntryAt(offset, f, m, p)
    BY EntryPlace DEF EntryAt
  <2> HIDE DEF at
  <2>2. EntryFits(f, p)
    BY DEF EntriesSent
  <2>3. /\ Carries(at(p), f.pin_state[p], 3)
        /\ Carries(at(p) + 3, f.pin_value[p], get_type_bits_nb(f.pin_state[p]))
    BY <2>1, <2>2, EntryCarries
  <2>4. write_bit_value({}, at(p), f.pin_state[p], 3) = FieldBits(at(p), f.pin_state[p], 3)
    BY <2>3, WriteCarried
  <2>5. write_bit_value({}, at(p) + 3, f.pin_value[p], get_type_bits_nb(f.pin_state[p]))
          = FieldBits(at(p) + 3, f.pin_value[p], get_type_bits_nb(f.pin_state[p]))
    BY <2>3, WriteCarried
  <2>6. QED
    BY <2>1, <2>4, <2>5 DEF EntryBits, PIN_TYPE_BITS_NB
<1> HIDE DEF entry
<1>4. QED
  BY <1>1, <1>2, <1>3

\* An entry lies on its own positions.
LEMMA EntryRange ==
    ASSUME NEW offset \in Nat, NEW f, NEW m \in SUBSET PinIds, EntriesSent(f, m), NEW p \in m
    PROVE  \A i \in EntryBits(offset, f, m, p) :
              /\ i \in Int /\ EntryAt(offset, f, m, p) <= i
              /\ i < EntryAt(offset, f, m, p) + 3 + get_type_bits_nb(f.pin_state[p])
<1> DEFINE width == get_type_bits_nb(f.pin_state[p])
<1>1. PICK at \in Nat : at = EntryAt(offset, f, m, p)
  BY EntryPlace
<1>2. EntryFits(f, p)
  BY DEF EntriesSent
<1>3. Carries(at, f.pin_state[p], 3) /\ Carries(at + 3, f.pin_value[p], width)
  BY <1>2, EntryCarries
<1>4. /\ FieldBits(at, f.pin_state[p], 3) \subseteq at .. at + 3 - 1
      /\ FieldBits(at + 3, f.pin_value[p], width) \subseteq at + 3 .. at + 3 + width - 1
  BY <1>3, FieldRange
<1>5. width \in Nat
  BY WidthType
<1> HIDE DEF width
<1>6. \A i \in at .. at + 3 - 1 : i \in Int /\ at <= i /\ i < at + 3 + width
  BY <1>5
<1>7. \A i \in at + 3 .. at + 3 + width - 1 : i \in Int /\ at <= i /\ i < at + 3 + width
  BY <1>5
<1>8. EntryBits(offset, f, m, p)
        = FieldBits(at, f.pin_state[p], 3) \cup FieldBits(at + 3, f.pin_value[p], width)
  BY <1>1 DEF EntryBits, PIN_TYPE_BITS_NB, width
<1>9. \A i \in EntryBits(offset, f, m, p) : i \in Int /\ at <= i /\ i < at + 3 + width
  BY <1>4, <1>6, <1>7, <1>8
<1>10. QED
  BY <1>1, <1>9 DEF width

\* The entry of a pin is read where it was written.
LEMMA EntryRead ==
    ASSUME NEW offset \in Nat, NEW f, NEW m \in SUBSET PinIds, EntriesSent(f, m),
           NEW src,
           SameOn(src, write_failsafe(offset, f, m), offset, offset + enabled_bits(f, m)),
           NEW p \in m
    PROVE  /\ read_type(src, EntryAt(offset, f, m, p)) = f.pin_state[p]
           /\ read_bit_value(src, EntryAt(offset, f, m, p) + PIN_TYPE_BITS_NB,
                             get_type_bits_nb(f.pin_state[p])) = f.pin_value[p]
<1> DEFINE width(q) == get_type_bits_nb(f.pin_state[q])
           at(q)    == EntryAt(offset, f, m, q)
           end      == at(p) + 3 + width(p)
<1>1. \A q \in m : width(q) \in Nat
  BY WidthType
<1>2. /\ at(p) \in Nat /\ offset <= at(p) /\ enabled_bits(f, m) \in Nat
      /\ end <= offset + enabled_bits(f, m)
  BY EntryPlace, FailsafeBitsType
<1>3. EntryFits(f, p)
  BY DEF EntriesSent
<1>4. Carries(at(p), f.pin_state[p], 3) /\ Carries(at(p) + 3, f.pin_value[p], width(p))
  BY <1>2, <1>3, EntryCarries
<1>5. /\ FieldBits(at(p), f.pin_state[p], 3) \subseteq at(p) .. at(p) + 3 - 1
      /\ FieldBits(at(p) + 3, f.pin_value[p], width(p))
           \subseteq at(p) + 3 .. at(p) + 3 + width(p) - 1
  BY <1>4, FieldRange
<1>6. ASSUME NEW q \in m, NEW i \in EntryBits(offset, f, m, q), at(p) <= i, i < end
      PROVE  q = p
  <2>1. at(q) \in Nat /\ i \in Int /\ at(q) <= i /\ i < at(q) + 3 + width(q)
    BY EntryRange, EntryPlace
  <2>2. p \in Int /\ q \in Int
    BY DEF PinIds
  <2>3. /\ p < q => end <= at(q)
        /\ q < p => at(q) + 3 + width(q) <= at(p)
    BY EntryPlace
  <2>4. width(p) \in Nat /\ width(q) \in Nat
    BY <1>1
  <2> HIDE DEF at, width
  <2>5. QED
    BY <1>2, <1>6, <2>1, <2>2, <2>3, <2>4
<1>7. EntryBits(offset, f, m, p)
        = FieldBits(at(p), f.pin_state[p], 3) \cup FieldBits(at(p) + 3, f.pin_value[p], width(p))
  BY DEF EntryBits, PIN_TYPE_BITS_NB
<1>8. ASSUME NEW i \in Int, at(p) <= i, i < end
      PROVE  i \in src <=> i \in EntryBits(offset, f, m, p)
  <2>1. i \in offset .. offset + enabled_bits(f, m) - 1
    <3>1. width(p) \in Nat
      BY <1>1
    <3> HIDE DEF at, width
    <3>2. QED
      BY <1>2, <1>8, <3>1
  <2>2. i \in write_failsafe(offset, f, m) <=> i \in EntryBits(offset, f, m, p)
    <3>1. write_failsafe(offset, f, m) = UNION {EntryBits(offset, f, m, q) : q \in m}
      BY FailsafeWritten
    <3> HIDE DEF end, at
    <3>2. QED
      BY <1>6, <1>8, <3>1
  <2>3. i \in src <=> i \in write_failsafe(offset, f, m)
    BY <1>2, <2>1 DEF SameOn
  <2>4. QED
    BY <2>2, <2>3
<1>9. width(p) \in Nat
  BY <1>1
<1> HIDE DEF at, width
<1>10. ASSUME NEW i \in at(p) .. at(p) + 3 - 1
       PROVE  i \in src <=> i \in FieldBits(at(p), f.pin_state[p], 3)
  <2>1. i \in Int /\ at(p) <= i /\ i < end /\ i \notin at(p) + 3 .. at(p) + 3 + width(p) - 1
    BY <1>2, <1>9
  <2> HIDE DEF end
  <2>2. QED
    BY <1>5, <1>7, <1>8, <2>1
<1>11. ASSUME NEW i \in at(p) + 3 .. at(p) + 3 + width(p) - 1
       PROVE  i \in src <=> i \in FieldBits(at(p) + 3, f.pin_value[p], width(p))
  <2>1. i \in Int /\ at(p) <= i /\ i < end /\ i \notin at(p) .. at(p) + 3 - 1
    BY <1>2, <1>9
  <2> HIDE DEF end
  <2>2. QED
    BY <1>5, <1>7, <1>8, <2>1
<1>12. read_bit_value(src, at(p), 3) = f.pin_state[p]
  BY <1>4, <1>10, ReadCarried
<1>13. read_bit_value(src, at(p) + 3, width(p)) = f.pin_value[p]
  BY <1>4, <1>11, ReadCarried
<1>14. to_uint8(f.pin_state[p]) = f.pin_state[p]
  BY <1>3 DEF to_uint8, EntryFits, PinType
<1>15. QED
  BY <1>12, <1>13, <1>14 DEF read_type, PIN_TYPE_BITS_NB, at, width

\* A pin that is not the first follows the largest one in front of it.
LEMMA PinBefore ==
    ASSUME NEW m \in SUBSET PinIds, NEW p \in m, mask_index(m, p) # 0
    PROVE  \E q \in m : /\ q < p
                        /\ {r \in m : r < p} = {r \in m : r < q} \cup {q}
                        /\ mask_index(m, q) \in Nat
                        /\ mask_index(m, p) = mask_index(m, q) + 1
<1> DEFINE before(q) == {r \in m : r < q}
           T         == {254 - r : r \in before(p)}
<1>1. \A r \in m : r \in Nat /\ r <= 254
  BY DEF PinIds
<1>2. T \subseteq Nat
  BY <1>1
<1>3. before(p) # {}
  BY FS_EmptySet DEF mask_index
<1>4. PICK x \in T : \A y \in T : x <= y
  <2>1. T # {}
    BY <1>3
  <2> HIDE DEF T
  <2>2. QED
    BY <1>2, <2>1, Smallest
<1>5. PICK q \in before(p) : x = 254 - q
  BY <1>4
<1>6. ASSUME NEW r \in m, r < p
      PROVE  r <= q
  <2>1. r \in before(p) /\ 254 - r \in T
    BY <1>6
  <2>2. 254 - q <= 254 - r
    BY <1>4, <1>5, <2>1
  <2>3. r \in Nat /\ q \in Nat
    BY <1>1
  <2>4. QED
    BY <2>2, <2>3
<1>7. q \in m /\ q < p
  OBVIOUS
<1>8. ASSUME NEW r \in m
      PROVE  r < p <=> r < q \/ r = q
  <2>1. r \in Nat /\ q \in Nat /\ p \in Nat
    BY <1>1
  <2>2. QED
    BY <1>6, <1>7, <2>1
<1>9. before(p) = before(q) \cup {q}
  BY <1>7, <1>8
<1>10. mask_index(m, p) = mask_index(m, q) + 1 /\ mask_index(m, q) \in Nat
  <2>1. before(q) \in SUBSET PinIds
    OBVIOUS
  <2>2. IsFiniteSet(before(q)) /\ Cardinality(before(q)) \in Nat
    BY <2>1, MaskFinite
  <2>3. q \notin before(q)
    <3>1. q \in Nat
      BY <1>1
    <3>2. ~(q < q)
      BY <3>1
    <3>3. QED
      BY <3>2
  <2>4. mask_index(m, p) = Cardinality(before(p)) /\ mask_index(m, q) = Cardinality(before(q))
    BY DEF mask_index
  <2> HIDE DEF before
  <2>5. Cardinality(before(q) \cup {q}) = Cardinality(before(q)) + 1
    BY <2>2, <2>3, FS_AddElement
  <2>6. QED
    BY <1>9, <2>2, <2>4, <2>5
<1>11. QED
  BY <1>7, <1>9, <1>10

\* The reader, who counts entries and adds up the lengths they state, finds each entry
\* where the writer, who knows the lengths, put it.
LEMMA EntryFound ==
    ASSUME NEW offset \in Nat, NEW f, NEW m \in SUBSET PinIds, EntriesSent(f, m),
           NEW src,
           SameOn(src, write_failsafe(offset, f, m), offset, offset + enabled_bits(f, m))
    PROVE  \A p \in m : entry_offset(src, offset, mask_index(m, p)) = EntryAt(offset, f, m, p)
<1> DEFINE found(p) == entry_offset(src, offset, mask_index(m, p))
           T        == {p \in m : found(p) # EntryAt(offset, f, m, p)}
<1> SUFFICES ASSUME T # {} PROVE FALSE
  OBVIOUS
<1>1. PICK p \in T : \A q \in T : p <= q
  <2>1. T \subseteq Nat
    BY DEF PinIds
  <2> HIDE DEF T
  <2>2. QED
    BY <2>1, Smallest
<1>2. p \in m /\ found(p) # EntryAt(offset, f, m, p)
  BY <1>1
<1>3. CASE mask_index(m, p) = 0
  <2>1. {q \in m : q < p} = {}
    <3>1. {q \in m : q < p} \in SUBSET PinIds
      OBVIOUS
    <3>2. IsFiniteSet({q \in m : q < p})
      BY <3>1, MaskFinite
    <3>3. QED
      BY <1>3, <3>2, FS_EmptySet DEF mask_index
  <2>2. enabled_bits(f, {}) = 0
    <3>1. {} \in SUBSET PinIds /\ {} \in SUBSET {}
      OBVIOUS
    <3>2. enabled_bits(f, {}) \in Nat /\ enabled_bits(f, {}) <= 19 * Cardinality({})
      BY <3>1, EntryBounds
    <3>3. Cardinality({}) = 0
      BY FS_EmptySet
    <3>4. QED
      BY <3>2, <3>3
  <2>3. EntryAt(offset, f, m, p) = offset
    BY <2>1, <2>2 DEF EntryAt
  <2>4. found(p) = offset
    BY <1>3, EntryOffset
  <2>5. QED
    BY <1>2, <2>3, <2>4
<1>4. CASE mask_index(m, p) # 0
  <2>1. PICK q \in m : /\ q < p
                       /\ {r \in m : r < p} = {r \in m : r < q} \cup {q}
                       /\ mask_index(m, q) \in Nat
                       /\ mask_index(m, p) = mask_index(m, q) + 1
    BY <1>2, <1>4, PinBefore
  <2>2. found(q) = EntryAt(offset, f, m, q)
    <3>1. q \in Nat /\ p \in Nat
      BY <1>2 DEF PinIds
    <3>2. ~(p <= q)
      BY <2>1, <3>1
    <3>3. q \notin T
      BY <1>1, <3>2
    <3>4. QED
      BY <3>3
  <2>3. found(p) = next_entry(src, found(q))
    <3>1. mask_index(m, p) \in Nat \ {0} /\ mask_index(m, p) - 1 = mask_index(m, q)
      BY <2>1
    <3>2. \A n \in Nat \ {0} :
             entry_offset(src, offset, n) = next_entry(src, entry_offset(src, offset, n - 1))
      BY EntryOffset
    <3>3. QED
      BY <3>1, <3>2
  <2>4. read_type(src, EntryAt(offset, f, m, q)) = f.pin_state[q]
    BY EntryRead
  <2>5. EntryAt(offset, f, m, p)
          = EntryAt(offset, f, m, q) + 3 + get_type_bits_nb(f.pin_state[q])
    <3> DEFINE S == {r \in m : r < q}
    <3>1. S \in SUBSET PinIds /\ q \in PinIds /\ q \notin S
      <4>1. q \in Nat
        BY DEF PinIds
      <4>2. ~(q < q)
        BY <4>1
      <4>3. QED
        BY <4>2
    <3>2. f.pin_state[q] # PIN_TYPE_DISABLED
      BY DEF EntriesSent
    <3>3. enabled_bits(f, S \cup {q}) = enabled_bits(f, S) + 3 + get_type_bits_nb(f.pin_state[q])
      BY <3>1, <3>2, EntryAdded
    <3>4. enabled_bits(f, S) \in Nat /\ get_type_bits_nb(f.pin_state[q]) \in Nat
      BY <3>1, FailsafeBitsType, WidthType
    <3>5. /\ EntryAt(offset, f, m, p) = offset + enabled_bits(f, S \cup {q})
          /\ EntryAt(offset, f, m, q) = offset + enabled_bits(f, S)
      BY <2>1 DEF EntryAt
    <3> HIDE DEF S
    <3>6. QED
      BY <3>3, <3>4, <3>5
  <2>6. QED
    BY <1>2, <2>2, <2>3, <2>4, <2>5 DEF next_entry, PIN_TYPE_BITS_NB
<1>5. QED
  BY <1>3, <1>4

\* A list of failsafe states none of which is disabled is read back, wherever the
\* reader's memory agrees with the writer's on its positions.
LEMMA FailsafeRead ==
    ASSUME NEW offset \in Nat, NEW f, NEW m \in SUBSET PinIds, EntriesSent(f, m),
           NEW src,
           SameOn(src, write_failsafe(offset, f, m), offset, offset + enabled_bits(f, m))
    PROVE  /\ read_failsafe_states(src, offset, m) = [p \in m |-> f.pin_state[p]]
           /\ read_failsafe_values(src, offset, m) = [p \in m |-> f.pin_value[p]]
<1>1. ASSUME NEW p \in m
      PROVE  /\ entry_offset(src, offset, mask_index(m, p)) = EntryAt(offset, f, m, p)
             /\ read_type(src, EntryAt(offset, f, m, p)) = f.pin_state[p]
             /\ read_bit_value(src, EntryAt(offset, f, m, p) + PIN_TYPE_BITS_NB,
                               get_type_bits_nb(f.pin_state[p])) = f.pin_value[p]
  <2>1. entry_offset(src, offset, mask_index(m, p)) = EntryAt(offset, f, m, p)
    BY EntryFound
  <2>2. /\ read_type(src, EntryAt(offset, f, m, p)) = f.pin_state[p]
        /\ read_bit_value(src, EntryAt(offset, f, m, p) + PIN_TYPE_BITS_NB,
                          get_type_bits_nb(f.pin_state[p])) = f.pin_value[p]
    BY EntryRead
  <2>3. QED
    BY <2>1, <2>2
<1>2. read_failsafe_states(src, offset, m) = [p \in m |-> f.pin_state[p]]
  BY <1>1 DEF read_failsafe_states
<1>3. read_failsafe_values(src, offset, m) = [p \in m |-> f.pin_value[p]]
  BY <1>1 DEF read_failsafe_values
<1>4. QED
  BY <1>2, <1>3

\* Positions in front of the list are not written.
LEMMA FailsafeBehind ==
    ASSUME NEW offset \in Nat, NEW f, NEW m \in SUBSET PinIds, EntriesSent(f, m)
    PROVE  \A i \in write_failsafe(offset, f, m) : i \in Int /\ offset <= i
<1>1. ASSUME NEW p \in m, NEW i \in EntryBits(offset, f, m, p)
      PROVE  i \in Int /\ offset <= i
  <2>1. PICK at \in Nat : at = EntryAt(offset, f, m, p) /\ offset <= at
    BY EntryPlace
  <2>2. i \in Int /\ at <= i
    BY <1>1, <2>1, EntryRange
  <2>3. QED
    BY <2>1, <2>2
<1>2. QED
  BY <1>1, FailsafeWritten

=============================================================================
