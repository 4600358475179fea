------------------------------ MODULE BitUtils ------------------------------
(***************************************************************************)
(* The bit-packing layer of src/src/bit_utils.c, shared by the driver and  *)
(* the firmware.                                                           *)
(*                                                                         *)
(* A buffer is the set of the positions of its one-bits, position 0 being  *)
(* the most significant bit of byte 0 (the order the C offsets use), and a *)
(* 16-bit value is the set of its one-bits, bit 0 being the least          *)
(* significant.  With both as sets, |= is union and a shift is a           *)
(* translation, so the two C loops have the closed forms below.  Module    *)
(* BitLoops runs the loops themselves and checks these forms against them. *)
(***************************************************************************)
EXTENDS Integers

\* The bits of a uint16_t or int16_t, and of a uint8_t.
Word  == SUBSET (0..15)
Octet == SUBSET (0..7)

\* uint8_t and uint16_t numbers.
UINT8  == {n \in Nat : n < 256}
UINT16 == {n \in Nat : n < 65536}

\* Weight of bit j of a byte.
Weight(j) == CASE j = 0 -> 1  [] j = 1 -> 2  [] j = 2 -> 4  [] j = 3 -> 8
               [] j = 4 -> 16 [] j = 5 -> 32 [] j = 6 -> 64 [] OTHER -> 128

\* The bits of a number below 256, and the number a set of bits stands for.
ToBits(n) == {j \in 0..7 : (n \div Weight(j)) % 2 = 1}
FromBits(v) ==
    LET b(j) == IF j \in v THEN Weight(j) ELSE 0
    IN  b(0) + b(1) + b(2) + b(3) + b(4) + b(5) + b(6) + b(7)

\* The conversion of a value to uint8_t.
to_uint8(v) == v \cap (0..7)

\* The word some memory holds, whatever surrounds it.
to_uint16(v) == v \cap (0..15)

\* buffer[k] = v on a byte that was 0, and the value of buffer[k].
byte(k, v) == {8 * k + 7 - j : j \in v}
byte_at(buffer, k) == {j \in 0..7 : 8 * k + 7 - j \in buffer}

\* Bit j of an int16_t once it is promoted to int: sign extended.
PromotedBit(val, j) == IF j > 15 THEN 15 \in val ELSE j \in val

(***************************************************************************)
(* write_bit_value(dst, offset, val, val_size).  Bit j of val lands on     *)
(* position offset + val_size - 1 - j.  The first byte is or-ed with the   *)
(* low byte of val >> shift, which is never masked to the width of the     *)
(* field: bits of val beyond val_size (and the sign) land on the positions *)
(* of that byte in front of the field.  The subtraction that follows the   *)
(* first chunk clears the high bits, so later bytes take exactly theirs.   *)
(***************************************************************************)
write_bit_value(dst, offset, val, val_size) ==
    dst \cup {p \in 8 * (offset \div 8) .. offset + val_size - 1 :
                 PromotedBit(val, offset + val_size - 1 - p)}

(***************************************************************************)
(* read_bit_value(src, offset, val_size).  Every pass of the loop shifts   *)
(* the whole value by the bits still to come, so a field that touches      *)
(* three bytes has its first chunk shifted twice: by all the bits that     *)
(* follow it, and again by the bits of the last byte.                      *)
(***************************************************************************)
read_bit_value(src, offset, val_size) ==
    LET available == 8 - (offset % 8)
        remaining == val_size - available
        again     == IF remaining > 8 THEN remaining - 8 ELSE 0
        end       == offset + val_size
    IN  {j \in 0..15 :
            \/ /\ j < val_size
               /\ again > 0 => j < remaining
               /\ end - 1 - j \in src
            \/ /\ again > 0
               /\ remaining + again <= j /\ j < val_size + again
               /\ end - 1 - (j - again) \in src}

\* BITS2BYTES(a) on an int: a - 1 is -1 for a = 0 and C divides towards zero.
BITS2BYTES(a) == IF a = 0 THEN 1 ELSE (a - 1) \div 8 + 1

\* BITS2BYTES(a) on an unsigned int: a - 1 is 2^32 - 1 for a = 0.
BITS2BYTES_unsigned(a) == IF a = 0 THEN 536870912 ELSE (a - 1) \div 8 + 1

=============================================================================
