--------------------------- MODULE ChecksumProofs ---------------------------
(***************************************************************************)
(* What the checksum promises, for every packet the buffer holds and every *)
(* byte the line may change: a packet that arrives whole is accepted, one  *)
(* changed byte is found out unless it is one of the size.                 *)
(***************************************************************************)
EXTENDS Checksum, Integers, SequenceTheorems, WellFoundedInduction, TLAPS

Octets  == 0 .. 255
Packets == [header : Octets, size : Nat, data : Seq(Octets), checksum : Octets]

-----------------------------------------------------------------------------
(* Sums.                                                                   *)

\* The least-number principle, for sets: what every induction below rests on.
LEMMA Smallest ==
  ASSUME NEW T, T \subseteq Nat, T # {}
  PROVE  \E x \in T : \A y \in T : x <= y
<1>. DEFINE R == OpToRel(<, Nat)
<1>1. IsWellFoundedOn(R, Nat)
  BY NatLessThanWellFounded
<1>2. R = {ss \in Nat \X Nat : ss[1] < ss[2]}
  BY Zenon DEF OpToRel
<1>. HIDE DEF R
<1>3. PICK x \in T : \A y \in T : ~(<<y, x>> \in R)
  BY <1>1, WFMin
<1>4. ASSUME NEW y \in T  PROVE x <= y
  <2>1. <<y, x>> \in Nat \X Nat
    BY <1>3
  <2>2. ~(y < x)
    BY <1>2, <1>3, <2>1
  <2>. QED  BY <2>2
<1>. QED  BY <1>3, <1>4

LEMMA BytesAreNumbers ==
  ASSUME NEW d \in Seq(Octets)
  PROVE  Len(d) \in Nat /\ \A n \in 1 .. Len(d) : d[n] \in Octets /\ d[n] \in Nat
<1>1. Octets \subseteq Nat
  BY DEF Octets
<1>2. Len(d) \in Nat /\ \A n \in 1 .. Len(d) : d[n] \in Octets
  BY LenProperties, ElementOfSeq
<1>. QED  BY <1>1, <1>2

LEMMA OctetRange == \A b \in Octets : b \in Nat /\ b < 256
BY DEF Octets

\* s holds the sums of the first bytes of d, up to the n-th.
PartialSums(s, d, n) ==
    /\ s \in [0 .. n -> Nat]
    /\ s[0] = 0
    /\ \A m \in 1 .. n : s[m] = s[m - 1] + d[m]

LEMMA PartialSumsExist ==
  ASSUME NEW d \in Seq(Octets)
  PROVE  \A n \in 0 .. Len(d) : \E s : PartialSums(s, d, n)
<1>. DEFINE T == {n \in 0 .. Len(d) : ~ \E s : PartialSums(s, d, n)}
<1>. SUFFICES ASSUME T # {} PROVE FALSE
  OBVIOUS
<1>0. \A m : m \in 0 .. Len(d) /\ m \notin T => \E s : PartialSums(s, d, m)
  BY Zenon
<1>1. PICK n \in T : \A m \in T : n <= m
  <2>1. T \subseteq Nat
    OBVIOUS
  <2>. HIDE DEF T
  <2>. QED  BY <2>1, Smallest
<1>2. CASE n = 0
  <2>1. PartialSums([m \in 0 .. 0 |-> 0], d, 0)
    BY DEF PartialSums
  <2>. QED  BY <1>2, <2>1
<1>3. CASE n # 0
  <2>1. n \in 1 .. Len(d) /\ n - 1 \in 0 .. Len(d) /\ n - 1 \notin T
    BY <1>1, <1>3
  <2>2. PICK s : PartialSums(s, d, n - 1)
    BY <1>0, <2>1, Zenon
  <2>. DEFINE t == [m \in 0 .. n |-> IF m = n THEN s[n - 1] + d[n] ELSE s[m]]
  <2>3. d[n] \in Nat
    BY <2>1, BytesAreNumbers
  <2>4. PartialSums(t, d, n)
    BY SMTT(60), <2>1, <2>2, <2>3 DEF PartialSums
  <2>. QED  BY <2>4
<1>. QED  BY <1>2, <1>3

\* sum is the last of them.
LEMMA SumIsLast ==
  ASSUME NEW d \in Seq(Octets)
  PROVE  \E s : PartialSums(s, d, Len(d)) /\ sum(d) = s[Len(d)]
<1>. DEFINE P(s) == s = [n \in 0 .. Len(d) |-> IF n = 0 THEN 0 ELSE s[n - 1] + d[n]]
            t    == CHOOSE s : P(s)
<1>1. Len(d) \in Nat /\ \A n \in 1 .. Len(d) : d[n] \in Nat
  BY BytesAreNumbers
<1>2. PICK s : PartialSums(s, d, Len(d))
  BY <1>1, PartialSumsExist
<1>3. s = [n \in 0 .. Len(d) |-> IF n = 0 THEN 0 ELSE s[n - 1] + d[n]]
  <2>. DEFINE u == [n \in 0 .. Len(d) |-> IF n = 0 THEN 0 ELSE s[n - 1] + d[n]]
  <2>1. ASSUME NEW n \in 0 .. Len(d)  PROVE s[n] = u[n]
    BY <1>1, <1>2, <2>1 DEF PartialSums
  <2>. QED  BY <1>2, <2>1 DEF PartialSums
<1>4. P(t)
  BY <1>3, Zenon
<1>5. sum(d) = t[Len(d)]
  BY Zenon DEF sum
<1>. HIDE DEF t
<1>6. t[0] = 0 /\ \A n \in 1 .. Len(d) : t[n] = t[n - 1] + d[n]
  BY <1>1, <1>4
<1>7. \A n \in 0 .. Len(d) : t[n] = s[n]
  <2>. DEFINE T == {n \in 0 .. Len(d) : t[n] # s[n]}
  <2>. SUFFICES ASSUME T # {} PROVE FALSE
    OBVIOUS
  <2>1. PICK n \in T : \A m \in T : n <= m
    <3>1. T \subseteq Nat
      OBVIOUS
    <3>. HIDE DEF T
    <3>. QED  BY <3>1, Smallest
  <2>2. n # 0
    BY <1>2, <1>6 DEF PartialSums
  <2>3. n \in 1 .. Len(d) /\ n - 1 \in 0 .. Len(d) /\ n - 1 \notin T
    BY <2>1, <2>2
  <2>4. t[n - 1] = s[n - 1]
    BY <2>3
  <2>. QED  BY <1>2, <1>6, <2>1, <2>3, <2>4 DEF PartialSums
<1>. QED  BY <1>1, <1>2, <1>5, <1>7

\* A byte that changes changes the sum by the same.
LEMMA SumChanges ==
  ASSUME NEW d \in Seq(Octets), NEW k \in 1 .. Len(d), NEW b \in Octets
  PROVE  sum([d EXCEPT ![k] = b]) = sum(d) - d[k] + b /\ sum(d) \in Nat
<1>. DEFINE e == [d EXCEPT ![k] = b]
<1>1. e \in Seq(Octets) /\ Len(e) = Len(d) /\ Len(d) \in Nat
  BY ExceptSeq
<1>2. /\ \A n \in 1 .. Len(d) : d[n] \in Nat /\ e[n] = IF n = k THEN b ELSE d[n]
      /\ b \in Nat
  BY BytesAreNumbers, ExceptSeq DEF Octets
<1>3. PICK s : PartialSums(s, d, Len(d)) /\ sum(d) = s[Len(d)]
  BY SumIsLast
<1>. HIDE DEF e
<1>4. PICK t : PartialSums(t, e, Len(d)) /\ sum(e) = t[Len(d)]
  BY <1>1, SumIsLast
<1>5. \A n \in 0 .. Len(d) : t[n] = IF n < k THEN s[n] ELSE s[n] - d[k] + b
  <2>. DEFINE T == {n \in 0 .. Len(d) : t[n] # IF n < k THEN s[n] ELSE s[n] - d[k] + b}
  <2>. SUFFICES ASSUME T # {} PROVE FALSE
    OBVIOUS
  <2>1. PICK n \in T : \A m \in T : n <= m
    <3>1. T \subseteq Nat
      OBVIOUS
    <3>. HIDE DEF T
    <3>. QED  BY <3>1, Smallest
  <2>2. n # 0
    BY <1>3, <1>4 DEF PartialSums
  <2>3. n \in 1 .. Len(d) /\ n - 1 \in 0 .. Len(d) /\ n - 1 \notin T
    BY <1>1, <2>1, <2>2
  <2>4. t[n - 1] = IF n - 1 < k THEN s[n - 1] ELSE s[n - 1] - d[k] + b
    BY <2>3
  <2>5. /\ t[n] = t[n - 1] + e[n] /\ s[n] = s[n - 1] + d[n]
        /\ s[n] \in Nat /\ s[n - 1] \in Nat /\ d[n] \in Nat /\ d[k] \in Nat
    BY <1>2, <1>3, <1>4, <2>3 DEF PartialSums
  <2>6. t[n] = IF n < k THEN s[n] ELSE s[n] - d[k] + b
    <3>1. n < k => n - 1 < k /\ e[n] = d[n]
      BY <1>2, <2>3
    <3>2. n = k => n - 1 < k /\ e[n] = b /\ ~(n < k)
      BY <1>2, <2>3
    <3>3. n > k => ~(n - 1 < k) /\ e[n] = d[n] /\ ~(n < k)
      BY <1>2, <2>3
    <3>. QED  BY SMTT(60), <1>2, <2>3, <2>4, <2>5, <3>1, <3>2, <3>3
  <2>. QED  BY <2>6
<1>6. s[Len(d)] \in Nat
  BY <1>1, <1>3 DEF PartialSums
<1>7. sum(e) = sum(d) - d[k] + b
  BY <1>1, <1>3, <1>4, <1>5
<1>. QED  BY <1>3, <1>6, <1>7 DEF e

-----------------------------------------------------------------------------
(* The packet on the line.                                                 *)

LEMMA SumType ==
  ASSUME NEW d \in Seq(Octets)
  PROVE  sum(d) \in Nat
<1>1. PICK s : PartialSums(s, d, Len(d)) /\ sum(d) = s[Len(d)]
  BY SumIsLast
<1>. QED  BY <1>1, BytesAreNumbers DEF PartialSums

LEMMA PacketFields ==
  ASSUME NEW r \in Packets
  PROVE  /\ r.header \in Octets /\ r.size \in Nat /\ r.checksum \in Octets
         /\ r.header \in Nat /\ r.checksum \in Nat
         /\ r.data \in Seq(Octets) /\ Len(r.data) \in Nat
<1>1. /\ r.header \in Octets /\ r.size \in Nat /\ r.checksum \in Octets
      /\ r.data \in Seq(Octets)
  BY DEF Packets
<1>2. Octets \subseteq Nat
  BY DEF Octets
<1>. QED  BY <1>1, <1>2, LenProperties

\* What the checksum adds up.
total(r) == r.header + (r.size % 256) + (r.size \div 256) + sum(r.data)

LEMMA ChecksumType ==
  ASSUME NEW r \in Packets
  PROVE  /\ compute_checksum(r) = 255 - (total(r) % 256)
         /\ total(r) \in Nat /\ compute_checksum(r) \in Octets
<1>1. r.header \in Nat /\ r.size \in Nat /\ sum(r.data) \in Nat
  BY SumType, PacketFields
<1>2. total(r) \in Nat
  BY <1>1 DEF total
<1>3. compute_checksum(r) = 255 - (total(r) % 256)
  BY DEF compute_checksum, total
<1>. HIDE DEF total
<1>4. total(r) % 256 \in 0 .. 255
  BY <1>2
<1>. QED  BY <1>2, <1>3, <1>4 DEF Octets

\* Where packet_write puts the parts of a packet.
LEMMA PacketLayout ==
  ASSUME NEW r \in Packets, Len(r.data) = r.size
  PROVE  /\ packet_write(r) \in Seq(Nat) /\ Len(packet_write(r)) = r.size + 4
         /\ packet_write(r)[1] = r.header
         /\ packet_write(r)[2] = r.size \div 256
         /\ packet_write(r)[3] = r.size % 256
         /\ \A j \in 1 .. r.size : packet_write(r)[j + 3] = r.data[j]
         /\ packet_write(r)[r.size + 4] = r.checksum
<1>. DEFINE h == <<r.header, r.size \div 256, r.size % 256>>
            c == <<r.checksum>>
            d == r.data
<1>1. /\ r.header \in Nat /\ r.size \in Nat /\ r.checksum \in Nat
      /\ d \in Seq(Octets)
  BY PacketFields
<1>2. d \in Seq(Nat)
  <2>1. Octets \subseteq Nat
    BY DEF Octets
  <2>. QED  BY <1>1, <2>1, SeqMonotonic
<1>3. /\ h \in Seq(Nat) /\ Len(h) = 3
      /\ h[1] = r.header /\ h[2] = r.size \div 256 /\ h[3] = r.size % 256
  BY <1>1
<1>4. c \in Seq(Nat) /\ Len(c) = 1 /\ c[1] = r.checksum
  BY <1>1
<1>5. packet_write(r) = (h \o d) \o c /\ Len(d) = r.size
  BY DEF packet_write
<1>. HIDE DEF h, c, d
<1>6. /\ h \o d \in Seq(Nat) /\ Len(h \o d) = 3 + r.size
      /\ \A i \in 1 .. 3 + r.size : (h \o d)[i] = IF i <= 3 THEN h[i] ELSE d[i - 3]
  <2>1. Len(h) + Len(d) = 3 + r.size
    BY <1>3, <1>5
  <2>2. /\ h \o d \in Seq(Nat) /\ Len(h \o d) = Len(h) + Len(d)
        /\ \A i \in 1 .. Len(h) + Len(d) :
             (h \o d)[i] = IF i <= Len(h) THEN h[i] ELSE d[i - Len(h)]
    <3>1. h \in Seq(Nat) /\ d \in Seq(Nat)
      BY <1>2, <1>3
    <3>. QED  BY <3>1, ConcatProperties, Zenon
  <2>. QED  BY <1>3, <2>1, <2>2
<1>7. /\ packet_write(r) \in Seq(Nat) /\ Len(packet_write(r)) = r.size + 4
      /\ \A i \in 1 .. r.size + 4 :
           packet_write(r)[i] = IF i <= 3 + r.size THEN (h \o d)[i] ELSE c[i - (3 + r.size)]
  <2>. DEFINE f == h \o d
  <2>1. f \in Seq(Nat) /\ Len(f) = 3 + r.size /\ packet_write(r) = f \o c
    BY <1>5, <1>6
  <2>. HIDE DEF f
  <2>2. /\ f \o c \in Seq(Nat) /\ Len(f \o c) = Len(f) + Len(c)
        /\ \A i \in 1 .. Len(f) + Len(c) :
             (f \o c)[i] = IF i <= Len(f) THEN f[i] ELSE c[i - Len(f)]
    BY <1>4, <2>1, ConcatProperties
  <2>3. Len(f) + Len(c) = r.size + 4
    BY <1>1, <1>4, <2>1
  <2>4. /\ packet_write(r) \in Seq(Nat) /\ Len(packet_write(r)) = r.size + 4
        /\ \A i \in 1 .. r.size + 4 :
             packet_write(r)[i] = IF i <= 3 + r.size THEN f[i] ELSE c[i - (3 + r.size)]
    BY <2>1, <2>2, <2>3
  <2>. QED  BY <2>4 DEF f
<1>8. /\ packet_write(r)[1] = r.header
      /\ packet_write(r)[2] = r.size \div 256
      /\ packet_write(r)[3] = r.size % 256
  <2>1. ASSUME NEW i \in 1 .. 3  PROVE packet_write(r)[i] = h[i]
    <3>1. i \in 1 .. 3 + r.size /\ i \in 1 .. r.size + 4 /\ i <= 3 + r.size /\ i <= 3
      BY <1>1
    <3>2. packet_write(r)[i] = (h \o d)[i]
      BY <1>7, <3>1
    <3>. QED  BY <1>6, <3>1, <3>2
  <2>. QED  BY <1>3, <2>1
<1>9. packet_write(r)[r.size + 4] = r.checksum
  <2>1. r.size + 4 \in 1 .. r.size + 4 /\ ~(r.size + 4 <= 3 + r.size)
        /\ (r.size + 4) - (3 + r.size) = 1
    BY <1>1
  <2>. QED  BY <1>4, <1>7, <2>1
<1>10. ASSUME NEW j \in 1 .. r.size  PROVE packet_write(r)[j + 3] = r.data[j]
  <2>1. /\ j + 3 \in 1 .. r.size + 4 /\ j + 3 <= 3 + r.size /\ j + 3 \in 1 .. 3 + r.size
        /\ ~(j + 3 <= 3) /\ (j + 3) - 3 = j
    BY <1>1
  <2>. QED  BY <1>6, <1>7, <2>1 DEF d
<1>. QED  BY <1>7, <1>8, <1>9, <1>10

-----------------------------------------------------------------------------
(* From the sender to the check.                                           *)

ChecksumTypeOK ==
    /\ p \in Packets /\ Len(p.data) = p.size /\ p.size + 4 <= BUFF_SIZE
    /\ valid \in {"unknown", "valid", "invalid"}
    /\ wire = << >> => corrupted = {} /\ valid = "unknown"

\* The wire holds the packet as packet_write laid it out, or differs from it in a byte.
OnTheLine ==
    wire # << >> =>
      /\ p.checksum = compute_checksum(p)
      /\ \/ corrupted = {} /\ wire = packet_write(p)
         \/ \E n \in 1 .. p.size + 4, b \in Octets :
              /\ corrupted = {n} /\ b # packet_write(p)[n]
              /\ wire = [packet_write(p) EXCEPT ![n] = b]

\* What packet_read finds in a buffer that holds these parts.
LEMMA ReadAs ==
  ASSUME ChecksumTypeOK,
         NEW h, NEW d \in Seq(Octets), NEW c, Len(d) = p.size,
         buffer[1] = h, read_data_size = p.size, buffer[p.size + 4] = c,
         \A j \in 1 .. p.size : buffer[j + 3] = d[j]
  PROVE  packet_read = [header |-> h, size |-> p.size, data |-> d, checksum |-> c]
<1>1. p.size \in Nat
  BY PacketFields DEF ChecksumTypeOK
<1>2. SubSeq(buffer, 4, 3 + p.size) = d
  <2>1. \A j \in 4 .. 3 + p.size : buffer[j] \in Octets
    <3>1. ASSUME NEW j \in 4 .. 3 + p.size  PROVE buffer[j] \in Octets
      <4>1. j - 3 \in 1 .. p.size /\ (j - 3) + 3 = j
        BY <1>1
      <4>2. buffer[j] = d[j - 3] /\ d[j - 3] \in Octets
        BY <4>1, BytesAreNumbers
      <4>. QED  BY <4>2
    <3>. QED  BY <3>1
  <2>. DEFINE u == SubSeq(buffer, 4, 3 + p.size)
  <2>2. /\ u \in Seq(Octets)
        /\ Len(u) = IF 4 <= 3 + p.size THEN (3 + p.size) - 4 + 1 ELSE 0
        /\ \A j \in 1 .. (3 + p.size) - 4 + 1 : u[j] = buffer[4 + j - 1]
    <3>. DEFINE lo == 4
                hi == 3 + p.size
                B  == buffer
    <3>1. lo \in Int /\ hi \in Int /\ \A j \in lo .. hi : B[j] \in Octets
      BY <1>1, <2>1
    <3>. HIDE DEF lo, hi, B
    <3>2. /\ SubSeq(B, lo, hi) \in Seq(Octets)
          /\ Len(SubSeq(B, lo, hi)) = IF lo <= hi THEN hi - lo + 1 ELSE 0
          /\ \A j \in 1 .. hi - lo + 1 : SubSeq(B, lo, hi)[j] = B[lo + j - 1]
      BY <3>1, SubSeqProperties
    <3>. QED  BY <3>2 DEF lo, hi, B
  <2>. HIDE DEF u
  <2>3. Len(u) = p.size
    BY <1>1, <2>2
  <2>4. ASSUME NEW j \in 1 .. p.size  PROVE u[j] = d[j]
    <3>1. j \in 1 .. (3 + p.size) - 4 + 1 /\ 4 + j - 1 = j + 3
      BY <1>1
    <3>. QED  BY <2>2, <3>1
  <2>5. u = d
    BY <2>2, <2>3, <2>4, SeqEqual
  <2>. QED  BY <2>5 DEF u
<1>3. 4 + p.size = p.size + 4
  BY <1>1
<1>. QED  BY <1>2, <1>3 DEF packet_read

\* Sums that differ by one byte have different checksums.
LEMMA OneByteApart ==
  ASSUME NEW x \in Nat, NEW y \in Nat, NEW a \in Nat, NEW b \in Nat,
         a < 256, b < 256, a # b, y = x - a + b
  PROVE  255 - (x % 256) # 255 - (y % 256)
OBVIOUS

\* The size that is read is the one that was sent unless one of its two bytes changed.
LEMMA SizeRead ==
  ASSUME NEW s \in Nat
  PROVE  /\ (s \div 256) * 256 + (s % 256) = s
         /\ \A b \in Nat : b # s \div 256 => b * 256 + (s % 256) # s
         /\ \A b \in Nat : b # s % 256 => (s \div 256) * 256 + b # s
<1>. DEFINE hi == s \div 256
            lo == s % 256
<1>1. hi \in Nat /\ lo \in Nat /\ 256 * hi + lo = s
  OBVIOUS
<1>. HIDE DEF hi, lo
<1>2. hi * 256 + lo = s
  BY <1>1
<1>3. \A b \in Nat : b # hi => b * 256 + lo # s
  BY <1>1
<1>4. \A b \in Nat : b # lo => hi * 256 + b # s
  BY <1>1
<1>. QED  BY <1>2, <1>3, <1>4, Zenon DEF hi, lo

LEMMA BufferHoldsWire ==
  ASSUME ChecksumTypeOK, wire \in Seq(Nat), Len(wire) = p.size + 4
  PROVE  /\ \A n \in 1 .. p.size + 4 : buffer[n] = wire[n]
         /\ 1 \in 1 .. p.size + 4 /\ 2 \in 1 .. p.size + 4 /\ 3 \in 1 .. p.size + 4
         /\ p.size + 4 \in 1 .. p.size + 4
<1>1. p.size \in Nat /\ p.size + 4 <= BUFF_SIZE /\ BUFF_SIZE \in Nat
  BY PacketFields, ChecksumAssumption DEF ChecksumTypeOK
<1>. QED  BY <1>1 DEF buffer

\* What is read of a wire that was left alone is what was sent.
LEMMA ReadIntact ==
  ASSUME ChecksumTypeOK, wire = packet_write(p), p.checksum = compute_checksum(p)
  PROVE  read_data_size = p.size /\ packet_read = p /\ packet_valid(p)
<1>1. p \in Packets /\ Len(p.data) = p.size
  BY DEF ChecksumTypeOK
<1>2. /\ wire \in Seq(Nat) /\ Len(wire) = p.size + 4
      /\ wire[1] = p.header /\ wire[2] = p.size \div 256 /\ wire[3] = p.size % 256
      /\ \A j \in 1 .. p.size : wire[j + 3] = p.data[j]
      /\ wire[p.size + 4] = p.checksum
  BY SMTT(60), <1>1, PacketLayout
<1>3. read_data_size = p.size
  <2>1. buffer[2] = p.size \div 256 /\ buffer[3] = p.size % 256
    BY <1>2, BufferHoldsWire
  <2>. QED  BY <1>1, <2>1, SizeRead, PacketFields DEF read_data_size
<1>4. \A j \in 1 .. p.size : buffer[j + 3] = p.data[j]
  <2>1. \A j \in 1 .. p.size : j + 3 \in 1 .. p.size + 4
    BY <1>1, PacketFields
  <2>. QED  BY <1>2, <2>1, BufferHoldsWire
<1>5. packet_read = [header |-> p.header, size |-> p.size, data |-> p.data,
                     checksum |-> p.checksum]
  <2>1. buffer[1] = p.header /\ buffer[p.size + 4] = p.checksum
    BY <1>2, BufferHoldsWire
  <2>2. p.data \in Seq(Octets)
    BY <1>1, PacketFields
  <2>. QED  BY <1>1, <1>3, <1>4, <2>1, <2>2, ReadAs, Zenon
<1>6. p = [header |-> p.header, size |-> p.size, data |-> p.data, checksum |-> p.checksum]
  BY <1>1 DEF Packets
<1>. QED  BY <1>3, <1>5, <1>6 DEF packet_valid

\* A changed byte of the size gives another size, and any other one a wrong checksum.
LEMMA ReadCorrupted ==
  ASSUME ChecksumTypeOK, p.checksum = compute_checksum(p),
         NEW n \in 1 .. p.size + 4, NEW b \in Octets,
         b # packet_write(p)[n], wire = [packet_write(p) EXCEPT ![n] = b]
  PROVE  \/ n \in {2, 3} /\ read_data_size # p.size
         \/ read_data_size = p.size /\ ~packet_valid(packet_read)
<1>. DEFINE w == packet_write(p)
<1>1. p \in Packets /\ Len(p.data) = p.size /\ p.size \in Nat
  BY PacketFields DEF ChecksumTypeOK
<1>2. /\ w \in Seq(Nat) /\ Len(w) = p.size + 4
      /\ w[1] = p.header /\ w[2] = p.size \div 256 /\ w[3] = p.size % 256
      /\ \A j \in 1 .. p.size : w[j + 3] = p.data[j]
      /\ w[p.size + 4] = p.checksum
  BY SMTT(60), <1>1, PacketLayout
<1>3. b \in Nat /\ b < 256
  BY OctetRange
<1>. HIDE DEF w
<1>4. wire = [w EXCEPT ![n] = b] /\ b # w[n]
  BY DEF w
<1>5. /\ wire \in Seq(Nat) /\ Len(wire) = p.size + 4 /\ wire[n] = b
      /\ \A j \in 1 .. p.size + 4 : j # n => wire[j] = w[j]
  <2>1. n \in 1 .. Len(w)
    BY <1>2
  <2>2. /\ [w EXCEPT ![n] = b] \in Seq(Nat) /\ Len([w EXCEPT ![n] = b]) = Len(w)
        /\ \A j \in 1 .. Len(w) : [w EXCEPT ![n] = b][j] = IF j = n THEN b ELSE w[j]
    <3>. DEFINE N == Nat
                L == Len(w)
    <3>1. w \in Seq(N) /\ n \in 1 .. L /\ b \in N
      BY <1>2, <1>3, <2>1
    <3>. QED  BY <3>1, ExceptSeq
  <2>. QED  BY ZenonT(60), <1>2, <1>4, <2>2
<1>6. /\ buffer[n] = b
      /\ \A j \in 1 .. p.size + 4 : j # n => buffer[j] = w[j]
      /\ 1 \in 1 .. p.size + 4 /\ 2 \in 1 .. p.size + 4 /\ 3 \in 1 .. p.size + 4
      /\ p.size + 4 \in 1 .. p.size + 4
  BY <1>5, BufferHoldsWire
<1>7. \A j \in 1 .. p.size : j + 3 # n => buffer[j + 3] = p.data[j]
  <2>1. \A j \in 1 .. p.size : j + 3 \in 1 .. p.size + 4
    BY <1>1
  <2>. QED  BY <1>2, <1>6, <2>1
<1>8. CASE n = 2
  <2>1. buffer[2] = b /\ buffer[3] = p.size % 256 /\ b # p.size \div 256
    BY <1>2, <1>4, <1>6, <1>8
  <2>. QED  BY <1>1, <1>3, <1>8, <2>1, SizeRead DEF read_data_size
<1>9. CASE n = 3
  <2>1. buffer[2] = p.size \div 256 /\ buffer[3] = b /\ b # p.size % 256
    BY <1>2, <1>4, <1>6, <1>9
  <2>. QED  BY SMTT(60), <1>1, <1>3, <1>9, <2>1, SizeRead DEF read_data_size
<1>10. CASE n \notin {2, 3}
  <2>1. read_data_size = p.size
    <3>1. buffer[2] = p.size \div 256 /\ buffer[3] = p.size % 256
      BY <1>2, <1>6, <1>10
    <3>. QED  BY <1>1, <3>1, SizeRead DEF read_data_size
  <2>2. p.header \in Octets /\ p.checksum \in Octets /\ p.data \in Seq(Octets)
    BY <1>1, PacketFields
  <2>3. p.header \in Nat /\ p.header < 256
    BY <2>2, OctetRange
  <2>4. total(p) \in Nat /\ p.checksum = 255 - (total(p) % 256)
    BY <1>1, ChecksumType
  <2>5. sum(p.data) \in Nat
    BY <2>2, SumType
  \* A packet whose total is that of p but for a byte has another checksum.
  <2>6. ASSUME NEW r \in Packets, NEW a \in Nat, a < 256, a # b,
               total(r) = total(p) - a + b, packet_read = r, r.checksum = p.checksum
        PROVE  ~packet_valid(packet_read)
    <3>1. total(r) \in Nat /\ compute_checksum(r) = 255 - (total(r) % 256)
      BY ChecksumType
    <3>2. 255 - (total(p) % 256) # 255 - (total(r) % 256)
      BY <1>3, <2>4, <2>6, <3>1, OneByteApart
    <3>. QED  BY <2>4, <2>6, <3>1, <3>2 DEF packet_valid
  <2>7. CASE n = 1
    <3>. DEFINE r == [header |-> b, size |-> p.size, data |-> p.data,
                      checksum |-> p.checksum]
    <3>1. p.size + 4 # 1
      BY <1>1
    <3>2. buffer[1] = b /\ buffer[p.size + 4] = p.checksum /\ b # p.header
      BY <1>2, <1>4, <1>6, <2>7, <3>1
    <3>3. \A j \in 1 .. p.size : buffer[j + 3] = p.data[j]
      BY <1>1, <1>7, <2>7
    <3>4. packet_read = r
      BY <1>1, <2>1, <2>2, <3>2, <3>3, ReadAs
    <3>5. r \in Packets
      BY <1>1, <2>2 DEF Packets
    <3>6. total(r) = total(p) - p.header + b
      <4>1. total(r) = b + (p.size % 256) + (p.size \div 256) + sum(p.data)
        BY DEF total
      <4>2. p.size % 256 \in Nat /\ p.size \div 256 \in Nat
        BY <1>1
      <4>. QED  BY <1>3, <2>3, <2>5, <4>1, <4>2 DEF total
    <3>7. r.checksum = p.checksum
      OBVIOUS
    <3>. HIDE DEF r
    <3>. QED  BY <2>1, <2>3, <2>6, <3>2, <3>4, <3>5, <3>6, <3>7
  <2>8. CASE n = p.size + 4
    <3>. DEFINE r == [header |-> p.header, size |-> p.size, data |-> p.data,
                      checksum |-> b]
    <3>1. p.size + 4 # 1
      BY <1>1
    <3>2. buffer[1] = p.header /\ buffer[p.size + 4] = b /\ b # p.checksum
      BY <1>2, <1>4, <1>6, <2>8, <3>1
    <3>3. \A j \in 1 .. p.size : buffer[j + 3] = p.data[j]
      BY <1>1, <1>7, <2>8
    <3>4. packet_read = r
      BY <1>1, <2>1, <2>2, <3>2, <3>3, ReadAs
    <3>5. compute_checksum(r) = compute_checksum(p) /\ r.checksum = b
      BY DEF compute_checksum
    <3>. HIDE DEF r
    <3>. QED  BY <2>1, <3>2, <3>4, <3>5 DEF packet_valid
  <2>9. CASE n \in 4 .. p.size + 3
    <3>. DEFINE k == n - 3
                e == [p.data EXCEPT ![k] = b]
                r == [header |-> p.header, size |-> p.size, data |-> e,
                      checksum |-> p.checksum]
    <3>1. k \in 1 .. p.size /\ k + 3 = n /\ k \in 1 .. Len(p.data)
      BY <1>1, <2>9
    <3>2. n # 1 /\ n # p.size + 4
      BY <1>1, <2>9
    <3>3. buffer[1] = p.header /\ buffer[p.size + 4] = p.checksum
      BY <1>2, <1>6, <3>2
    <3>4. b # p.data[k]
      BY <1>2, <1>4, <3>1
    <3>. HIDE DEF k
    <3>5. /\ e \in Seq(Octets) /\ Len(e) = p.size /\ e[k] = b
          /\ \A j \in 1 .. p.size : j # k => e[j] = p.data[j]
      BY <1>1, <2>2, <3>1, ExceptSeq
    <3>6. sum(e) = sum(p.data) - p.data[k] + b
      BY <2>2, <3>1, SumChanges
    <3>7. p.data[k] \in Nat /\ p.data[k] < 256
      BY <2>2, <3>1, BytesAreNumbers, OctetRange
    <3>. HIDE DEF e
    <3>8. \A j \in 1 .. p.size : buffer[j + 3] = e[j]
      <4>1. ASSUME NEW j \in 1 .. p.size, j # k  PROVE j + 3 # n
        BY <1>1, <3>1, <4>1
      <4>. QED  BY <1>6, <1>7, <3>1, <3>5, <4>1
    <3>9. packet_read = r
      BY <1>1, <2>1, <3>3, <3>5, <3>8, ReadAs
    <3>10. r \in Packets
      BY <1>1, <2>2, <3>5 DEF Packets
    <3>11. total(r) = total(p) - p.data[k] + b
      <4>1. total(r) = p.header + (p.size % 256) + (p.size \div 256) + sum(e)
        BY DEF total
      <4>2. p.size % 256 \in Nat /\ p.size \div 256 \in Nat
        BY <1>1
      <4>. QED  BY <1>3, <2>3, <2>5, <3>6, <3>7, <4>1, <4>2 DEF total
    <3>12. r.checksum = p.checksum
      OBVIOUS
    <3>. HIDE DEF r
    <3>. QED  BY <2>1, <2>6, <3>4, <3>7, <3>9, <3>10, <3>11, <3>12
  <2>10. n = 1 \/ n = p.size + 4 \/ n \in 4 .. p.size + 3
    BY <1>1, <1>10
  <2>. QED  BY <2>7, <2>8, <2>9, <2>10
<1>. QED  BY <1>8, <1>9, <1>10

-----------------------------------------------------------------------------
ChecksumInv == ChecksumTypeOK /\ OnTheLine /\ Intact /\ OneByteDetected

LEMMA ChecksumInit == Init => ChecksumInv
<1>. SUFFICES ASSUME Init PROVE ChecksumInv
  OBVIOUS
<1>1. wire = << >> /\ corrupted = {} /\ valid = "unknown"
  BY DEF Init
<1>2. PICK h \in Bytes, n \in DataSizes : \E d \in [1 .. n -> Bytes] :
         p = [header |-> h, size |-> n, data |-> d, checksum |-> 0]
  BY DEF Init
<1>3. PICK d \in [1 .. n -> Bytes] :
         p = [header |-> h, size |-> n, data |-> d, checksum |-> 0]
  BY <1>2
<1>4. Bytes \subseteq Octets /\ n \in Nat /\ n + 4 <= BUFF_SIZE /\ 0 \in Octets
  BY ChecksumAssumption DEF Octets
<1>5. d \in Seq(Octets) /\ Len(d) = n
  BY <1>4
<1>6. p \in Packets /\ Len(p.data) = p.size /\ p.size + 4 <= BUFF_SIZE
  BY <1>3, <1>4, <1>5 DEF Packets
<1>. QED  BY <1>1, <1>6 DEF ChecksumInv, ChecksumTypeOK, OnTheLine, Intact, OneByteDetected

\* The packet that send_packet puts on the wire.
LEMMA SendStep == ChecksumInv /\ send_packet => ChecksumInv'
<1>. SUFFICES ASSUME ChecksumInv, send_packet PROVE ChecksumInv'
  OBVIOUS
<1>1. /\ p \in Packets /\ Len(p.data) = p.size /\ p.size + 4 <= BUFF_SIZE
      /\ corrupted = {} /\ valid = "unknown"
  BY DEF ChecksumInv, ChecksumTypeOK, send_packet
<1>2. /\ p' = [p EXCEPT !.checksum = compute_checksum(p)] /\ wire' = packet_write(p')
      /\ corrupted' = {} /\ valid' = "unknown"
  BY <1>1 DEF send_packet
<1>3. compute_checksum(p) \in Octets
  BY <1>1, ChecksumType
<1>4. /\ p' \in Packets /\ p'.header = p.header /\ p'.size = p.size /\ p'.data = p.data
      /\ p'.checksum = compute_checksum(p)
  BY <1>1, <1>2, <1>3 DEF Packets
<1>5. compute_checksum(p)' = compute_checksum(p)
  BY <1>4 DEF compute_checksum
<1>6. Len(packet_write(p')) = p'.size + 4 /\ p'.size \in Nat
  BY <1>1, <1>4, PacketLayout, PacketFields
<1>7. wire' # << >>
  BY <1>2, <1>6
<1>8. ChecksumTypeOK'
  BY <1>1, <1>2, <1>4, <1>7 DEF ChecksumTypeOK
<1>9. OnTheLine'
  BY <1>2, <1>4, <1>5 DEF OnTheLine
<1>. QED  BY <1>2, <1>8, <1>9 DEF ChecksumInv, Intact, OneByteDetected

LEMMA CorruptStep == ChecksumInv /\ corrupt => ChecksumInv'
<1>. SUFFICES ASSUME ChecksumInv, corrupt PROVE ChecksumInv'
  OBVIOUS
<1>1. valid = "unknown" /\ corrupted = {} /\ UNCHANGED <<p, q, valid>>
  BY DEF corrupt
<1>2. PICK n \in DOMAIN wire, b \in Bytes : /\ b # wire[n] /\ corrupted' = {n}
                                            /\ wire' = [wire EXCEPT ![n] = b]
  BY DEF corrupt
<1>3. wire # << >>
  BY <1>2
<1>4. p.checksum = compute_checksum(p) /\ wire = packet_write(p)
  BY <1>1, <1>3 DEF ChecksumInv, OnTheLine
<1>5. /\ p \in Packets /\ Len(p.data) = p.size
      /\ wire \in Seq(Nat) /\ Len(wire) = p.size + 4
  BY <1>4, PacketLayout DEF ChecksumInv, ChecksumTypeOK
<1>6. n \in 1 .. p.size + 4 /\ b \in Octets
  BY <1>2, <1>5, ChecksumAssumption, LenProperties DEF Octets
<1>7. wire' # << >>
  <2>1. DOMAIN wire' = DOMAIN wire
    BY <1>2
  <2>. QED  BY <1>2, <2>1
<1>8. ChecksumTypeOK'
  BY <1>1, <1>7 DEF ChecksumInv, ChecksumTypeOK
<1>9. OnTheLine'
  <2>1. packet_write(p)' = packet_write(p) /\ compute_checksum(p)' = compute_checksum(p)
    BY <1>1 DEF packet_write, compute_checksum
  <2>. QED  BY <1>1, <1>2, <1>4, <1>6, <2>1 DEF OnTheLine
<1>. QED  BY <1>1, <1>8, <1>9 DEF ChecksumInv, Intact, OneByteDetected

\* What is read of an intact wire is what was sent; of a corrupted one it is found out.
LEMMA ReadStep == ChecksumInv /\ connection_read => ChecksumInv'
<1>. SUFFICES ASSUME ChecksumInv, connection_read PROVE ChecksumInv'
  OBVIOUS
<1>1. valid = "unknown" /\ wire # << >> /\ UNCHANGED <<p, wire, corrupted>>
  BY DEF connection_read
<1>2. ChecksumTypeOK /\ p \in Packets /\ p.size \in Nat /\ p.size + 4 <= BUFF_SIZE
  BY PacketFields DEF ChecksumInv, ChecksumTypeOK
<1>3. \/ /\ 4 + read_data_size <= BUFF_SIZE
         /\ q' = packet_read
         /\ valid' = IF packet_valid(q') THEN "valid" ELSE "invalid"
      \/ /\ 4 + read_data_size > BUFF_SIZE
         /\ q'.size = read_data_size /\ valid' \in {"valid", "invalid"}
  BY DEF connection_read, Empty
<1>4. valid' \in {"unknown", "valid", "invalid"}
  BY <1>3
<1>5. ChecksumTypeOK' /\ OnTheLine'
  <2>1. ChecksumTypeOK'
    BY <1>1, <1>2, <1>4 DEF ChecksumTypeOK
  <2>2. packet_write(p)' = packet_write(p) /\ compute_checksum(p)' = compute_checksum(p)
    BY <1>1 DEF packet_write, compute_checksum
  <2>. QED  BY <1>1, <2>1, <2>2 DEF ChecksumInv, OnTheLine
<1>6. CASE corrupted = {} /\ wire = packet_write(p) /\ p.checksum = compute_checksum(p)
  <2>1. read_data_size = p.size /\ packet_read = p /\ packet_valid(p)
    BY <1>2, <1>6, ReadIntact
  <2>2. valid' = "valid" /\ q' = p
    <3>1. ~(4 + read_data_size > BUFF_SIZE)
      BY <1>2, <2>1, ChecksumAssumption
    <3>2. q' = packet_read /\ valid' = IF packet_valid(q') THEN "valid" ELSE "invalid"
      BY <1>3, <3>1, Zenon
    <3>. QED  BY <2>1, <3>2
  <2>. QED  BY <1>1, <1>5, <1>6, <2>2 DEF ChecksumInv, Intact, OneByteDetected
<1>7. ASSUME NEW n \in 1 .. p.size + 4, NEW b \in Octets, corrupted = {n},
             b # packet_write(p)[n], wire = [packet_write(p) EXCEPT ![n] = b],
             p.checksum = compute_checksum(p)
      PROVE  ChecksumInv'
  <2>1. \/ n \in {2, 3} /\ read_data_size # p.size
        \/ read_data_size = p.size /\ ~packet_valid(packet_read)
    BY <1>2, <1>7, ReadCorrupted
  <2>2. CASE n \in {2, 3} /\ read_data_size # p.size
    <3>1. q'.size = read_data_size
      BY <1>3 DEF packet_read
    <3>. QED  BY <1>1, <1>5, <1>7, <2>2, <3>1 DEF ChecksumInv, Intact, OneByteDetected
  <2>3. CASE read_data_size = p.size /\ ~packet_valid(packet_read)
    <3>1. q' = packet_read /\ valid' = IF packet_valid(q') THEN "valid" ELSE "invalid"
      <4>1. ~(4 + read_data_size > BUFF_SIZE)
        BY <1>2, <2>3, ChecksumAssumption
      <4>. QED  BY <1>3, <4>1, Zenon
    <3>2. valid' = "invalid"
      BY <2>3, <3>1
    <3>. QED  BY <1>1, <1>5, <1>7, <3>2 DEF ChecksumInv, Intact, OneByteDetected
  <2>. QED  BY <2>1, <2>2, <2>3
<1>. QED  BY <1>1, <1>6, <1>7 DEF ChecksumInv, OnTheLine

LEMMA ChecksumInvHolds == Spec => []ChecksumInv
<1>1. ChecksumInv /\ UNCHANGED vars => ChecksumInv'
  <2>. SUFFICES ASSUME ChecksumInv, UNCHANGED vars PROVE ChecksumInv'
    OBVIOUS
  <2>1. UNCHANGED <<p, wire, corrupted, q, valid>>
    BY DEF vars
  <2>2. packet_write(p)' = packet_write(p) /\ compute_checksum(p)' = compute_checksum(p)
    BY <2>1 DEF packet_write, compute_checksum
  <2>3. ChecksumTypeOK' /\ OnTheLine'
    BY <2>1, <2>2 DEF ChecksumInv, ChecksumTypeOK, OnTheLine
  <2>4. Intact' /\ OneByteDetected'
    BY <2>1 DEF ChecksumInv, Intact, OneByteDetected
  <2>. QED  BY <2>3, <2>4 DEF ChecksumInv
<1>2. ChecksumInv /\ [Next]_vars => ChecksumInv'
  BY <1>1, SendStep, CorruptStep, ReadStep DEF Next
<1>. QED  BY <1>2, ChecksumInit, PTL DEF Spec

\* A packet that arrives whole is read back as it was sent, and accepted.
THEOREM ChecksumIntact == Spec => []Intact
<1>1. ChecksumInv => Intact
  BY DEF ChecksumInv
<1>. QED  BY <1>1, ChecksumInvHolds, PTL

\* One changed byte of header, data or checksum is found out, whatever the packet holds.
THEOREM ChecksumDetectsOneByte == Spec => []OneByteDetected
<1>1. ChecksumInv => OneByteDetected
  BY DEF ChecksumInv
<1>. QED  BY <1>1, ChecksumInvHolds, PTL

=============================================================================
