--------------------------- MODULE BitUtilsProofs ---------------------------
(***************************************************************************)
(* What the bit-packing layer guarantees, for every buffer, offset, width  *)
(* and value.                                                              *)
(***************************************************************************)
EXTENDS BitUtils, TLAPS

\* The positions of the one-bits of val in a field of val_size bits at offset.
FieldBits(offset, val, val_size) == {offset + val_size - 1 - j : j \in val}

\* The byte and the bit an offset falls on.
LEMMA ByteAndBit ==
    ASSUME NEW offset \in Nat
    PROVE  /\ offset % 8 \in 0..7
           /\ offset \div 8 \in Nat
           /\ 8 * (offset \div 8) + (offset % 8) = offset
OBVIOUS

\* Writing at any offset adds positions of the buffer, never negative ones.
LEMMA WriteType ==
    ASSUME NEW dst \in SUBSET Nat, NEW offset \in Nat, NEW val,
           NEW val_size \in Nat
    PROVE  write_bit_value(dst, offset, val, val_size) \in SUBSET Nat
<1>1. 8 * (offset \div 8) \in Nat
  BY ByteAndBit
<1>2. 8 * (offset \div 8) .. offset + val_size - 1 \subseteq Nat
  BY <1>1
<1>3. QED
  BY <1>2 DEF write_bit_value

\* read_bit_value returns a 16-bit word.
LEMMA ReadType ==
    ASSUME NEW src, NEW offset, NEW val_size
    PROVE  read_bit_value(src, offset, val_size) \in Word
BY DEF read_bit_value, Word

\* A field that touches two bytes at most is read without a second shift.
LEMMA ReadTwoBytes ==
    ASSUME NEW src, NEW offset \in Nat, NEW val_size \in 0..16,
           (offset % 8) + val_size <= 16
    PROVE  read_bit_value(src, offset, val_size)
             = {j \in 0 .. val_size - 1 : offset + val_size - 1 - j \in src}
<1> DEFINE remaining == val_size - (8 - (offset % 8))
           again     == IF remaining > 8 THEN remaining - 8 ELSE 0
<1>1. again = 0
  BY ByteAndBit
<1>2. \A j \in 0..15 : j < val_size <=> j \in 0 .. val_size - 1
  OBVIOUS
<1>3. 0 .. val_size - 1 \subseteq 0..15
  OBVIOUS
<1> HIDE DEF again
<1>4. read_bit_value(src, offset, val_size)
        = {j \in 0..15 :
            \/ /\ j < val_size
               /\ again > 0 => j < remaining
               /\ offset + val_size - 1 - j \in src
            \/ /\ again > 0
               /\ remaining + again <= j /\ j < val_size + again
               /\ offset + val_size - 1 - (j - again) \in src}
  BY DEF read_bit_value, again
<1>5. QED
  BY <1>1, <1>2, <1>3, <1>4

\* What fits its field is written bit by bit at its place, and nowhere else.
LEMMA WriteTwoBytes ==
    ASSUME NEW dst \in SUBSET Nat, NEW offset \in Nat, NEW val_size \in 0..16,
           (offset % 8) + val_size <= 16,
           NEW val \in SUBSET (0 .. val_size - 1)
    PROVE  write_bit_value(dst, offset, val, val_size)
             = dst \cup FieldBits(offset, val, val_size)
<1> DEFINE first == 8 * (offset \div 8)
           last  == offset + val_size - 1
<1>1. first \in Nat /\ first <= offset /\ last - first <= 15 /\ last \in Int
  BY ByteAndBit
<1> HIDE DEF first
<1>2. ASSUME NEW p \in first .. last
      PROVE  PromotedBit(val, last - p) <=> last - p \in val
  BY <1>1 DEF PromotedBit
<1>3. {p \in first .. last : PromotedBit(val, last - p)} = {last - j : j \in val}
  <2>1. ASSUME NEW p \in first .. last, PromotedBit(val, last - p)
        PROVE  p \in {last - j : j \in val}
    <3>1. last - p \in val
      BY <1>2, <2>1
    <3>2. p = last - (last - p)
      BY <1>1
    <3>3. QED
      BY <3>1, <3>2
  <2>2. ASSUME NEW j \in val
        PROVE  last - j \in first .. last /\ PromotedBit(val, last - (last - j))
    <3>1. j \in 0 .. val_size - 1
      OBVIOUS
    <3>2. last - j \in first .. last
      BY <1>1, <3>1
    <3>3. last - (last - j) = j
      BY <1>1, <3>1
    <3>4. QED
      BY <1>2, <3>2, <3>3
  <2>3. QED
    BY <2>1, <2>2
<1>4. QED
  BY <1>3 DEF write_bit_value, first, FieldBits

(***************************************************************************)
(* A value written to a field that touches two bytes at most, and whose    *)
(* bits were 0, is read back, whatever the rest of the buffer holds.       *)
(***************************************************************************)
THEOREM RoundTrip ==
    ASSUME NEW dst \in SUBSET Nat, NEW offset \in Nat, NEW val_size \in 0..16,
           (offset % 8) + val_size <= 16,
           NEW val \in SUBSET (0 .. val_size - 1),
           dst \cap (offset .. offset + val_size - 1) = {}
    PROVE  read_bit_value(write_bit_value(dst, offset, val, val_size),
                          offset, val_size) = val
<1> DEFINE last == offset + val_size - 1
           buf  == dst \cup FieldBits(offset, val, val_size)
<1>1. write_bit_value(dst, offset, val, val_size) = buf
  BY WriteTwoBytes
<1>2. read_bit_value(buf, offset, val_size) = {j \in 0 .. val_size - 1 : last - j \in buf}
  BY ReadTwoBytes
<1>3. ASSUME NEW j \in 0 .. val_size - 1
      PROVE  last - j \in buf <=> j \in val
  <2>1. last - j \in offset .. last
    OBVIOUS
  <2>2. last - j \notin dst
    BY <2>1
  <2>3. ASSUME NEW i \in val, last - j = last - i
        PROVE  i = j
    <3>1. i \in Int
      OBVIOUS
    <3>2. QED
      BY <2>3, <3>1
  <2>4. QED
    BY <2>2, <2>3 DEF FieldBits
<1>4. QED
  BY <1>1, <1>2, <1>3

\* The fields around keep their bits: a write that fits adds none outside its field.
THEOREM NeighboursKept ==
    ASSUME NEW dst \in SUBSET Nat, NEW offset \in Nat, NEW val_size \in 0..16,
           (offset % 8) + val_size <= 16,
           NEW val \in SUBSET (0 .. val_size - 1)
    PROVE  \A p : p \notin offset .. offset + val_size - 1 =>
              (p \in write_bit_value(dst, offset, val, val_size) <=> p \in dst)
<1>1. write_bit_value(dst, offset, val, val_size)
        = dst \cup FieldBits(offset, val, val_size)
  BY ZenonT(60), WriteTwoBytes
<1>2. FieldBits(offset, val, val_size) \subseteq offset .. offset + val_size - 1
  <2>1. ASSUME NEW j \in 0 .. val_size - 1
        PROVE  offset + val_size - 1 - j \in offset .. offset + val_size - 1
    OBVIOUS
  <2>2. QED
    BY <2>1 DEF FieldBits
<1>3. QED
  BY <1>1, <1>2

\* A number read from eight bits.
LEMMA FromBitsType ==
    ASSUME NEW v
    PROVE  FromBits(v) \in UINT8
<1> DEFINE b(j) == IF j \in v THEN Weight(j) ELSE 0
<1>1. /\ b(0) \in {0, 1}  /\ b(1) \in {0, 2}  /\ b(2) \in {0, 4}  /\ b(3) \in {0, 8}
      /\ b(4) \in {0, 16} /\ b(5) \in {0, 32} /\ b(6) \in {0, 64} /\ b(7) \in {0, 128}
  BY DEF Weight
<1>2. FromBits(v) = b(0) + b(1) + b(2) + b(3) + b(4) + b(5) + b(6) + b(7)
  BY DEF FromBits
<1> HIDE DEF b
<1>3. QED
  BY <1>1, <1>2 DEF UINT8

-----------------------------------------------------------------------------
(* Fields that lie side by side in a packet.                               *)

\* A field brings a value back when it touches two bytes at most, or when the value
\* stays below 2^9.
Carries(offset, val, val_size) ==
    /\ offset \in Nat /\ val_size \in 0..16
    /\ val \in SUBSET (0 .. val_size - 1)
    /\ (offset % 8) + val_size <= 16 \/ val \subseteq 0..8

\* Such a value is written on its own field, whatever lies in front of it.
LEMMA WriteCarried ==
    ASSUME NEW dst, NEW offset, NEW val, NEW val_size, Carries(offset, val, val_size)
    PROVE  write_bit_value(dst, offset, val, val_size)
             = dst \cup FieldBits(offset, val, val_size)
<1> DEFINE first == 8 * (offset \div 8)
           last  == offset + val_size - 1
<1>1. /\ first \in Nat /\ first <= offset /\ offset - first <= 7 /\ last \in Int
      /\ offset \in Nat /\ val_size \in 0..16 /\ val \in SUBSET (0 .. val_size - 1)
      /\ first = offset \/ 15 \notin val
  <2>1. offset \in Nat /\ val_size \in 0..16 /\ val \in SUBSET (0 .. val_size - 1)
    BY DEF Carries
  <2>2. /\ offset % 8 \in 0..7 /\ offset \div 8 \in Nat
        /\ 8 * (offset \div 8) + (offset % 8) = offset
    BY <2>1, ByteAndBit
  <2>3. 15 \in val => val_size = 16 /\ ~(val \subseteq 0..8)
    BY <2>1
  <2>4. 15 \in val => offset % 8 = 0
    BY <2>2, <2>3 DEF Carries
  <2>5. QED
    BY <2>1, <2>2, <2>4
<1> HIDE DEF first
<1>2. ASSUME NEW p \in first .. last
      PROVE  PromotedBit(val, last - p) <=> last - p \in val
  <2>1. CASE last - p > 15
    <3>1. first # offset
      BY <1>1, <2>1
    <3>2. 15 \notin val /\ last - p \notin val
      BY <1>1, <2>1, <3>1
    <3>3. QED
      BY <2>1, <3>2 DEF PromotedBit
  <2>2. CASE ~(last - p > 15)
    BY <2>2 DEF PromotedBit
  <2>3. QED
    BY <2>1, <2>2
<1>3. {p \in first .. last : PromotedBit(val, last - p)} = {last - j : j \in val}
  <2>1. ASSUME NEW p \in first .. last, PromotedBit(val, last - p)
        PROVE  p \in {last - j : j \in val}
    <3>1. last - p \in val
      BY <1>2, <2>1
    <3>2. p = last - (last - p)
      BY <1>1
    <3>3. QED
      BY <3>1, <3>2
  <2>2. ASSUME NEW j \in val
        PROVE  last - j \in first .. last /\ PromotedBit(val, last - (last - j))
    <3>1. j \in 0 .. val_size - 1
      BY <1>1
    <3>2. last - j \in first .. last
      BY <1>1, <3>1
    <3>3. last - (last - j) = j
      BY <1>1, <3>1
    <3>4. QED
      BY <1>2, <3>2, <3>3
  <2>3. QED
    BY <2>1, <2>2
<1>4. write_bit_value(dst, offset, val, val_size)
        = dst \cup {p \in first .. last : PromotedBit(val, last - p)}
  <2>1. ASSUME NEW p \in first .. last
        PROVE  offset + val_size - 1 - p = last - p
    BY <1>1
  <2>2. {p \in first .. last : PromotedBit(val, offset + val_size - 1 - p)}
          = {p \in first .. last : PromotedBit(val, last - p)}
    BY <2>1
  <2>3. QED
    BY <2>2 DEF write_bit_value, first
<1>5. FieldBits(offset, val, val_size) = {last - j : j \in val}
  <2>1. ASSUME NEW j \in val
        PROVE  offset + val_size - 1 - j = last - j
    BY <1>1
  <2>2. {offset + val_size - 1 - j : j \in val} = {last - j : j \in val}
    BY <2>1
  <2>3. QED
    BY <2>2 DEF FieldBits
<1>6. QED
  BY <1>3, <1>4, <1>5

\* The field itself, from its first position to its last.
LEMMA FieldRange ==
    ASSUME NEW offset, NEW val, NEW val_size, Carries(offset, val, val_size)
    PROVE  /\ FieldBits(offset, val, val_size) \subseteq offset .. offset + val_size - 1
           /\ \A j \in 0 .. val_size - 1 :
                 /\ offset + val_size - 1 - j \in offset .. offset + val_size - 1
                 /\ offset + val_size - 1 - j \in FieldBits(offset, val, val_size) <=> j \in val
<1>1. offset \in Nat /\ val_size \in 0..16 /\ val \in SUBSET (0 .. val_size - 1)
  BY DEF Carries
<1>2. ASSUME NEW j \in 0 .. val_size - 1
      PROVE  offset + val_size - 1 - j \in offset .. offset + val_size - 1
  BY <1>1
<1>3. ASSUME NEW j \in 0 .. val_size - 1, NEW i \in val,
             offset + val_size - 1 - j = offset + val_size - 1 - i
      PROVE  i = j
  <2>1. i \in 0 .. val_size - 1
    BY <1>1
  <2>2. QED
    BY <1>1, <1>3, <2>1
<1>4. QED
  BY <1>1, <1>2, <1>3 DEF FieldBits

\* Whatever lies around it, and behind the packet, the field is read as it was written.
LEMMA ReadCarried ==
    ASSUME NEW src, NEW offset, NEW val, NEW val_size, Carries(offset, val, val_size),
           \A i \in offset .. offset + val_size - 1 :
              i \in src <=> i \in FieldBits(offset, val, val_size)
    PROVE  read_bit_value(src, offset, val_size) = val
<1>1. offset \in Nat /\ val_size \in 0..16 /\ val \in SUBSET (0 .. val_size - 1)
  BY DEF Carries
<1>2. \A j \in 0 .. val_size - 1 : offset + val_size - 1 - j \in src <=> j \in val
  BY FieldRange
<1>3. CASE (offset % 8) + val_size <= 16
  <2>1. read_bit_value(src, offset, val_size)
          = {j \in 0 .. val_size - 1 : offset + val_size - 1 - j \in src}
    BY <1>1, <1>3, ReadTwoBytes
  <2>2. QED
    BY <1>1, <1>2, <2>1
<1>4. CASE val \subseteq 0..8
  <2> DEFINE remaining == val_size - (8 - (offset % 8))
             again     == IF remaining > 8 THEN remaining - 8 ELSE 0
             end       == offset + val_size
  <2>1. offset % 8 \in 0..7
    BY <1>1, ByteAndBit
  <2>2. /\ remaining \in Int /\ again \in 0..7 /\ remaining <= val_size /\ end \in Nat
        /\ again > 0 => remaining > 8
        /\ remaining - 8 <= 7
    BY <1>1, <2>1
  <2>3. read_bit_value(src, offset, val_size)
          = {j \in 0..15 :
              \/ /\ j < val_size
                 /\ again > 0 => j < remaining
                 /\ end - 1 - j \in src
              \/ /\ again > 0
                 /\ remaining + again <= j /\ j < val_size + again
                 /\ end - 1 - (j - again) \in src}
    BY DEF read_bit_value
  <2> HIDE DEF remaining, again
  <2>4. \A j \in 0 .. val_size - 1 : end - 1 - j \in src <=> j \in val
    BY <1>1, <1>2
  <2> HIDE DEF end
  <2>5. ASSUME NEW j \in 0..15, again > 0, remaining + again <= j, j < val_size + again,
               end - 1 - (j - again) \in src
        PROVE  FALSE
    <3>1. j - again \in 0 .. val_size - 1 /\ j - again > 8
      BY <1>1, <2>2, <2>5
    <3>2. j - again \in val
      BY <2>4, <2>5, <3>1
    <3>3. QED
      BY <1>4, <3>1, <3>2
  <2>6. ASSUME NEW j \in 0..15, j < val_size, end - 1 - j \in src
        PROVE  j \in val
    BY <1>1, <2>4, <2>6
  <2>7. ASSUME NEW j \in val
        PROVE  /\ j \in 0..15 /\ j < val_size /\ end - 1 - j \in src
               /\ again > 0 => j < remaining
    <3>1. j \in 0 .. val_size - 1 /\ j \in 0..8
      BY <1>1, <1>4
    <3>2. end - 1 - j \in src
      BY <2>4, <3>1
    <3>3. QED
      BY <1>1, <2>2, <3>1, <3>2
  <2>8. QED
    BY <2>3, <2>5, <2>6, <2>7
<1>5. QED
  BY <1>3, <1>4 DEF Carries

\* A number below 256 comes back from its bits.
LEMMA NumberBack ==
    ASSUME NEW n \in UINT8
    PROVE  /\ ToBits(n) \in SUBSET (0..7)
           /\ FromBits(ToBits(n)) = n
<1> DEFINE b(j) == IF j \in ToBits(n) THEN Weight(j) ELSE 0
           d(j) == (n \div Weight(j)) % 2
<1>1. n \in Nat /\ n < 256
  BY DEF UINT8
<1>2. \A j \in 0..7 : j \in ToBits(n) <=> d(j) = 1
  BY DEF ToBits
<1>3. /\ d(0) = n % 2 /\ d(1) = (n \div 2) % 2 /\ d(2) = (n \div 4) % 2
      /\ d(3) = (n \div 8) % 2 /\ d(4) = (n \div 16) % 2 /\ d(5) = (n \div 32) % 2
      /\ d(6) = (n \div 64) % 2 /\ d(7) = (n \div 128) % 2
  BY <1>1 DEF Weight
<1>4. /\ n % 2 \in {0, 1} /\ (n \div 2) % 2 \in {0, 1} /\ (n \div 4) % 2 \in {0, 1}
      /\ (n \div 8) % 2 \in {0, 1} /\ (n \div 16) % 2 \in {0, 1}
      /\ (n \div 32) % 2 \in {0, 1} /\ (n \div 64) % 2 \in {0, 1}
      /\ (n \div 128) % 2 \in {0, 1}
  BY <1>1
<1>5. n = (n % 2) + 2 * ((n \div 2) % 2) + 4 * ((n \div 4) % 2) + 8 * ((n \div 8) % 2)
            + 16 * ((n \div 16) % 2) + 32 * ((n \div 32) % 2) + 64 * ((n \div 64) % 2)
            + 128 * ((n \div 128) % 2)
  BY <1>1
<1> HIDE DEF d
<1>6. /\ b(0) = d(0) /\ b(1) = 2 * d(1) /\ b(2) = 4 * d(2) /\ b(3) = 8 * d(3)
      /\ b(4) = 16 * d(4) /\ b(5) = 32 * d(5) /\ b(6) = 64 * d(6) /\ b(7) = 128 * d(7)
  BY <1>2, <1>3, <1>4 DEF Weight
<1>7. FromBits(ToBits(n)) = b(0) + b(1) + b(2) + b(3) + b(4) + b(5) + b(6) + b(7)
  BY DEF FromBits
<1> HIDE DEF b
<1>8. FromBits(ToBits(n)) = n
  BY <1>3, <1>5, <1>6, <1>7
<1>9. QED
  BY <1>8 DEF ToBits

\* byte(k, v) is v in the field of that byte.
LEMMA ByteField ==
    ASSUME NEW k \in Nat, NEW v \in SUBSET (0..7)
    PROVE  byte(k, v) = FieldBits(8 * k, v, 8) /\ Carries(8 * k, v, 8)
<1>1. \A j \in v : 8 * k + 7 - j = 8 * k + 8 - 1 - j
  OBVIOUS
<1>2. (8 * k) % 8 = 0 /\ 8 * k \in Nat
  OBVIOUS
<1>3. 0 .. 8 - 1 = 0..7
  OBVIOUS
<1>4. QED
  BY <1>1, <1>2, <1>3 DEF byte, FieldBits, Carries

\* So many bytes hold so many bits.
LEMMA BytesCover ==
    ASSUME NEW bits \in Nat
    PROVE  /\ bits <= 8 * BITS2BYTES(bits) /\ BITS2BYTES(bits) <= bits + 1
           /\ bits # 0 => BITS2BYTES_unsigned(bits) = BITS2BYTES(bits)
<1>1. CASE bits = 0
  BY <1>1 DEF BITS2BYTES
<1>2. CASE bits # 0
  <2>1. bits - 1 \in Nat
    BY <1>2
  <2>2. /\ (bits - 1) \div 8 \in Nat
        /\ bits - 1 <= 8 * ((bits - 1) \div 8) + 7 /\ (bits - 1) \div 8 <= bits - 1
    BY <2>1
  <2>3. QED
    BY <1>2, <2>2 DEF BITS2BYTES, BITS2BYTES_unsigned
<1>3. QED
  BY <1>1, <1>2

=============================================================================
