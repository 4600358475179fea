------------------------------ MODULE BitLoops ------------------------------
(***************************************************************************)
(* The while loops of write_bit_value and read_bit_value, one pass per     *)
(* step, in the fixed-width integer arithmetic of the C code: one field is *)
(* written into a buffer that already holds other fields, then read back   *)
(* from the same place.  Only |= works on the set of a byte's bits.  The   *)
(* closed forms of module BitUtils, which every other module uses, are     *)
(* checked against these loops.                                            *)
(***************************************************************************)
EXTENDS BitUtils

\* int16_t numbers.
INT16 == {n \in Int : -32768 <= n /\ n < 32768}

CONSTANTS
    Offsets,   \* bit offsets a field is written at
    Sizes,     \* field widths, in bits
    Values,    \* the int16_t values written
    Bytes,     \* length of the buffer
    Contents   \* what the buffer may hold, as sets of positions

ASSUME BitLoopsAssumption ==
    /\ Bytes \in Nat \ {0}
    /\ Sizes \subseteq 0..16
    /\ Values \subseteq INT16
    /\ \A o \in Offsets : o \in Nat /\ o + 16 < 8 * Bytes
    /\ Contents \subseteq SUBSET (0 .. 8 * Bytes - 1)

VARIABLES
    pc,        \* "write", "read" or "done"
    field,     \* the arguments: [offset, val, size]
    before,    \* the buffer before the call, as a set of positions
    dst,       \* the buffer, byte by byte, each the set of its bits
    bit_no, offset, val, bits_remaining, available_bits    \* the C locals

vars == <<pc, field, before, dst,
          bit_no, offset, val, bits_remaining, available_bits>>

uchar(x) == x % 256
int16(x) == ((x + 32768) % 65536) - 32768

\* Views of the C data as sets of bits; a negative number has all the high ones.
Bit(x, n) == (x \div 2^n) % 2 = 1
WordOf(x) == {n \in 0..15 : Bit(x, n)}
Positions(buf) == UNION {byte(k, buf[k]) : k \in DOMAIN buf}

\* The locals at the head of either function.
Enter(f) ==
    /\ bit_no' = f.offset \div 8
    /\ offset' = f.offset % 8
    /\ bits_remaining' = f.size
    /\ available_bits' = 8 - (f.offset % 8)

\* The assignments that end a pass of either loop.
NextByte ==
    /\ bits_remaining' = bits_remaining - available_bits
    /\ available_bits' = 8
    /\ offset' = 0
    /\ bit_no' = bit_no + 1

\* "dst bits must be 0 where they will be written": every other bit is free.
Surroundings(f) == {c \ (f.offset .. f.offset + f.size - 1) : c \in Contents}

Init ==
    /\ field \in [offset : Offsets, val : Values, size : Sizes]
    /\ before \in Surroundings(field)
    /\ dst = [k \in 0 .. Bytes - 1 |-> byte_at(before, k)]
    /\ pc = "write"
    /\ bit_no = field.offset \div 8
    /\ offset = field.offset % 8
    /\ val = field.val
    /\ bits_remaining = field.size
    /\ available_bits = 8 - (field.offset % 8)

\* Mutant of WriteLoop: the byte is assigned instead of or-ed.
WriteLoopOverwrites ==
    LET shift    == bits_remaining - available_bits
        to_write == val \div 2^shift
    IN  /\ pc = "write" /\ bits_remaining > available_bits
        /\ val' = int16(val - to_write * 2^shift)
        /\ dst' = [dst EXCEPT ![bit_no] = ToBits(uchar(to_write))]
        /\ NextByte
        /\ UNCHANGED <<pc, field, before>>

WriteLoop ==
    LET shift    == bits_remaining - available_bits
        to_write == val \div 2^shift
    IN  /\ pc = "write" /\ bits_remaining > available_bits
        /\ val' = int16(val - to_write * 2^shift)
        /\ dst' = [dst EXCEPT ![bit_no] = @ \cup ToBits(uchar(to_write))]
        /\ NextByte
        /\ UNCHANGED <<pc, field, before>>

\* Mutant of WriteTail: the bits already in front of the field are not counted.
WriteTailIgnoresOffset ==
    LET shift == 8 - bits_remaining
    IN  /\ pc = "write" /\ bits_remaining <= available_bits
        /\ dst' = [dst EXCEPT ![bit_no] = @ \cup ToBits(uchar(val * 2^shift))]
        /\ pc' = "read"
        /\ val' = 0
        /\ Enter(field)
        /\ UNCHANGED <<field, before>>

\* The last byte of write_bit_value, then the entry of read_bit_value.
WriteTail ==
    LET shift == 8 - bits_remaining - offset
    IN  /\ pc = "write" /\ bits_remaining <= available_bits
        /\ dst' = [dst EXCEPT ![bit_no] = @ \cup ToBits(uchar(val * 2^shift))]
        /\ pc' = "read"
        /\ val' = 0
        /\ Enter(field)
        /\ UNCHANGED <<field, before>>

\* Mutant of ReadLoop: the bits in front of the field are not shifted out.
ReadLoopKeepsPrefix ==
    /\ pc = "read" /\ bits_remaining > available_bits
    /\ val' = int16(int16(val + FromBits(dst[bit_no])) * 2^(bits_remaining - available_bits))
    /\ NextByte
    /\ UNCHANGED <<pc, field, before, dst>>

ReadLoop ==
    LET read_value == uchar(FromBits(dst[bit_no]) * 2^offset) \div 2^offset
    IN  /\ pc = "read" /\ bits_remaining > available_bits
        /\ val' = int16(int16(val + read_value)
                          * 2^(bits_remaining - available_bits))
        /\ NextByte
        /\ UNCHANGED <<pc, field, before, dst>>

ReadTail ==
    LET read_value == FromBits(dst[bit_no]) \div 2^(8 - bits_remaining - offset)
        unwanted   == 8 - bits_remaining
    IN  /\ pc = "read" /\ bits_remaining <= available_bits
        /\ val' = int16(val + (uchar(read_value * 2^unwanted) \div 2^unwanted))
        /\ pc' = "done"
        /\ UNCHANGED <<field, before, dst, bit_no, offset,
                       bits_remaining, available_bits>>

Next == WriteLoop \/ WriteTail \/ ReadLoop \/ ReadTail

Spec == Init /\ [][Next]_vars

-----------------------------------------------------------------------------
\* The loop of write_bit_value leaves in the buffer what the closed form says,
\* for fields across one, two or three bytes, values wider than their field and
\* negative values, and whatever the neighbouring fields hold.
WriteClosedForm ==
    pc # "write" => Positions(dst) = write_bit_value(before, field.offset,
                                                     WordOf(field.val), field.size)

\* The loop of read_bit_value returns what the closed form says, for every
\* content of the field and of its neighbours.
ReadClosedForm ==
    pc = "done" => WordOf(val) = read_bit_value(Positions(dst), field.offset,
                                                field.size)

\* A field that lies in two bytes, holding a value of at most its width, is read
\* back as it was written and disturbs no bit of the fields around it.
FieldRoundTrip ==
    LET f == field
    IN  (/\ pc = "done"
         /\ WordOf(f.val) \subseteq 0 .. f.size - 1
         /\ (f.offset % 8) + f.size <= 16)
          => /\ WordOf(val) = WordOf(f.val)
             /\ Positions(dst) \ (f.offset .. f.offset + f.size - 1) = before

=============================================================================
