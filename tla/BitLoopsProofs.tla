--------------------------- MODULE BitLoopsProofs ---------------------------
(***************************************************************************)
(* The loops of bit_utils.c compute the closed forms of module BitUtils,   *)
(* for every offset, width, value and content of the buffer.  The loops    *)
(* are arithmetic and the closed forms sets of bits: the first lemmas say  *)
(* what the arithmetic does to each bit.                                   *)
(***************************************************************************)
EXTENDS BitLoops, BitUtilsProofs

-----------------------------------------------------------------------------
(* Powers of two.                                                          *)

LEMMA Powers ==
    /\ 2^0 = 1 /\ 2^1 = 2 /\ 2^2 = 4 /\ 2^3 = 8 /\ 2^4 = 16 /\ 2^5 = 32 /\ 2^6 = 64
    /\ 2^7 = 128 /\ 2^8 = 256 /\ 2^9 = 512 /\ 2^10 = 1024 /\ 2^11 = 2048 /\ 2^12 = 4096
    /\ 2^13 = 8192 /\ 2^14 = 16384 /\ 2^15 = 32768 /\ 2^16 = 65536
OBVIOUS

\* 2^n, one step at a time, as far as shifts and bits of promoted values go.
LEMMA PowerStep ==
    ASSUME NEW n \in 0..23
    PROVE  2^n \in Nat \ {0} /\ 2^(n + 1) = 2 * 2^n
<1>0. CASE n = 0  BY <1>0
<1>1. CASE n = 1  BY <1>1
<1>2. CASE n = 2  BY <1>2
<1>3. CASE n = 3  BY <1>3
<1>4. CASE n = 4  BY <1>4
<1>5. CASE n = 5  BY <1>5
<1>6. CASE n = 6  BY <1>6
<1>7. CASE n = 7  BY <1>7
<1>8. CASE n = 8  BY <1>8
<1>9. CASE n = 9  BY <1>9
<1>10. CASE n = 10  BY <1>10
<1>11. CASE n = 11  BY <1>11
<1>12. CASE n = 12  BY <1>12
<1>13. CASE n = 13  BY <1>13
<1>14. CASE n = 14  BY <1>14
<1>15. CASE n = 15  BY <1>15
<1>16. CASE n = 16  BY <1>16
<1>17. CASE n = 17  BY <1>17
<1>18. CASE n = 18  BY <1>18
<1>19. CASE n = 19  BY <1>19
<1>20. CASE n = 20  BY <1>20
<1>21. CASE n = 21  BY <1>21
<1>22. CASE n = 22  BY <1>22
<1>23. CASE n = 23  BY <1>23
<1>24. QED
  BY <1>0, <1>1, <1>2, <1>3, <1>4, <1>5, <1>6, <1>7, <1>8, <1>9, <1>10, <1>11, <1>12,
     <1>13, <1>14, <1>15, <1>16, <1>17, <1>18, <1>19, <1>20, <1>21, <1>22, <1>23

\* The product of two powers.
LEMMA PowerSum ==
    ASSUME NEW a \in 0..23, NEW b \in 0..16, a + b <= 24
    PROVE  2^(a + b) = 2^a * 2^b
<1> DEFINE P(n) == 2^n
<1>0. P(a) \in Nat /\ \A n \in 0..23 : P(n + 1) = 2 * P(n)
  BY PowerStep
<1> HIDE DEF P
<1>1. a + 1 <= 24 => P(a + 1) = 2 * P(a)
  BY <1>0
<1>2. a + 2 <= 24 => P(a + 2) = 4 * P(a)
  BY <1>0, <1>1
<1>3. a + 3 <= 24 => P(a + 3) = 8 * P(a)
  BY <1>0, <1>2
<1>4. a + 4 <= 24 => P(a + 4) = 16 * P(a)
  BY <1>0, <1>3
<1>5. a + 5 <= 24 => P(a + 5) = 32 * P(a)
  BY <1>0, <1>4
<1>6. a + 6 <= 24 => P(a + 6) = 64 * P(a)
  BY <1>0, <1>5
<1>7. a + 7 <= 24 => P(a + 7) = 128 * P(a)
  BY <1>0, <1>6
<1>8. a + 8 <= 24 => P(a + 8) = 256 * P(a)
  BY <1>0, <1>7
<1>9. a + 9 <= 24 => P(a + 9) = 512 * P(a)
  BY <1>0, <1>8
<1>10. a + 10 <= 24 => P(a + 10) = 1024 * P(a)
  BY <1>0, <1>9
<1>11. a + 11 <= 24 => P(a + 11) = 2048 * P(a)
  BY <1>0, <1>10
<1>12. a + 12 <= 24 => P(a + 12) = 4096 * P(a)
  BY <1>0, <1>11
<1>13. a + 13 <= 24 => P(a + 13) = 8192 * P(a)
  BY <1>0, <1>12
<1>14. a + 14 <= 24 => P(a + 14) = 16384 * P(a)
  BY <1>0, <1>13
<1>15. a + 15 <= 24 => P(a + 15) = 32768 * P(a)
  BY <1>0, <1>14
<1>16. a + 16 <= 24 => P(a + 16) = 65536 * P(a)
  BY <1>0, <1>15
<1>17. P(a + b) = P(a) * P(b)
  <2>0. CASE b = 0
    <3>1. P(0) = 1
      BY Powers DEF P
    <3>2. QED
      BY <1>0, <2>0, <3>1
  <2>1. CASE b = 1
    <3>1. P(1) = 2
      BY Powers DEF P
    <3>2. QED
      BY <1>0, <1>1, <2>1, <3>1
  <2>2. CASE b = 2
    <3>1. P(2) = 4
      BY Powers DEF P
    <3>2. QED
      BY <1>0, <1>2, <2>2, <3>1
  <2>3. CASE b = 3
    <3>1. P(3) = 8
      BY Powers DEF P
    <3>2. QED
      BY <1>0, <1>3, <2>3, <3>1
  <2>4. CASE b = 4
    <3>1. P(4) = 16
      BY Powers DEF P
    <3>2. QED
      BY <1>0, <1>4, <2>4, <3>1
  <2>5. CASE b = 5
    <3>1. P(5) = 32
      BY Powers DEF P
    <3>2. QED
      BY <1>0, <1>5, <2>5, <3>1
  <2>6. CASE b = 6
    <3>1. P(6) = 64
      BY Powers DEF P
    <3>2. QED
      BY <1>0, <1>6, <2>6, <3>1
  <2>7. CASE b = 7
    <3>1. P(7) = 128
      BY Powers DEF P
    <3>2. QED
      BY <1>0, <1>7, <2>7, <3>1
  <2>8. CASE b = 8
    <3>1. P(8) = 256
      BY Powers DEF P
    <3>2. QED
      BY <1>0, <1>8, <2>8, <3>1
  <2>9. CASE b = 9
    <3>1. P(9) = 512
      BY Powers DEF P
    <3>2. QED
      BY <1>0, <1>9, <2>9, <3>1
  <2>10. CASE b = 10
    <3>1. P(10) = 1024
      BY Powers DEF P
    <3>2. QED
      BY <1>0, <1>10, <2>10, <3>1
  <2>11. CASE b = 11
    <3>1. P(11) = 2048
      BY Powers DEF P
    <3>2. QED
      BY <1>0, <1>11, <2>11, <3>1
  <2>12. CASE b = 12
    <3>1. P(12) = 4096
      BY Powers DEF P
    <3>2. QED
      BY <1>0, <1>12, <2>12, <3>1
  <2>13. CASE b = 13
    <3>1. P(13) = 8192
      BY Powers DEF P
    <3>2. QED
      BY <1>0, <1>13, <2>13, <3>1
  <2>14. CASE b = 14
    <3>1. P(14) = 16384
      BY Powers DEF P
    <3>2. QED
      BY <1>0, <1>14, <2>14, <3>1
  <2>15. CASE b = 15
    <3>1. P(15) = 32768
      BY Powers DEF P
    <3>2. QED
      BY <1>0, <1>15, <2>15, <3>1
  <2>16. CASE b = 16
    <3>1. P(16) = 65536
      BY Powers DEF P
    <3>2. QED
      BY <1>0, <1>16, <2>16, <3>1
  <2>17. QED
    BY <2>0, <2>1, <2>2, <2>3, <2>4, <2>5, <2>6, <2>7, <2>8,
       <2>9, <2>10, <2>11, <2>12, <2>13, <2>14, <2>15, <2>16
<1>18. QED
  BY <1>17 DEF P

-----------------------------------------------------------------------------
(* 2^n behind a name the provers do not open.                              *)

Two(n) == 2^n

LEMMA TwoType ==
    \A n \in 0..23 : Two(n) \in Nat /\ Two(n) >= 1
<1> SUFFICES ASSUME NEW n \in 0..23
             PROVE  Two(n) \in Nat /\ Two(n) >= 1
  OBVIOUS
<1>1. 2^n \in Nat \ {0}
  BY PowerStep
<1>2. PICK a \in Nat \ {0} : a = 2^n
  BY <1>1
<1>3. QED
  BY <1>2 DEF Two

LEMMA TwoSum ==
    \A a \in 0..23, b \in 0..16 : a + b <= 24 => Two(a + b) = Two(a) * Two(b)
BY PowerSum DEF Two

LEMMA TwoAt ==
    /\ Two(0) = 1 /\ Two(1) = 2 /\ Two(2) = 4 /\ Two(3) = 8 /\ Two(4) = 16
    /\ Two(5) = 32 /\ Two(6) = 64 /\ Two(7) = 128 /\ Two(8) = 256 /\ Two(15) = 32768
    /\ Two(16) = 65536
BY Powers DEF Two

LEMMA BitTwo ==
    \A x, n : Bit(x, n) <=> (x \div Two(n)) % 2 = 1
BY DEF Bit, Two

-----------------------------------------------------------------------------
(* What arithmetic does to bits.                                           *)

LEMMA DivIs ==
    ASSUME NEW k \in Nat, k >= 1, NEW p \in Int, NEW s \in 0 .. k - 1,
           NEW x \in Int, x = p * k + s
    PROVE  x \div k = p
<1>1. PICK q \in Int : q = x \div k
  OBVIOUS
<1>2. PICK r \in 0 .. k - 1 : x = q * k + r
  BY <1>1
<1>3. (q - p) * k = s - r
  BY <1>2
<1>4. CASE q - p >= 1
  <2>1. (q - p) * k >= k
    BY <1>4
  <2>2. QED
    BY <2>1, <1>3
<1>5. CASE q - p <= -1
  <2>1. (q - p) * k <= -k
    BY <1>5
  <2>2. QED
    BY <2>1, <1>3
<1>6. QED
  BY <1>1, <1>4, <1>5

LEMMA Remainder ==
    ASSUME NEW x \in Int, NEW m \in Nat, m >= 1
    PROVE  /\ x \div m \in Int
           /\ \E r \in 0 .. m - 1 : x = (x \div m) * m + r
<1>1. PICK q \in Int : q = x \div m
  OBVIOUS
<1>2. \E r \in 0 .. m - 1 : x = q * m + r
  BY <1>1
<1>3. QED
  BY <1>1, <1>2

LEMMA NegativeProduct ==
    ASSUME NEW r \in Int, r <= -1, NEW m \in Nat
    PROVE  r * m <= -m
<1>1. PICK z \in Nat : z = -1 - r
  OBVIOUS
<1>2. z * m >= 0
  OBVIOUS
<1>3. r * m = -m - z * m
  BY <1>1
<1>4. QED
  BY <1>2, <1>3

LEMMA DivDiv ==
    ASSUME NEW x \in Int, NEW m \in Nat, m >= 1, NEW n \in Nat, n >= 1
    PROVE  (x \div m) \div n = x \div (m * n)
<1>1. PICK q \in Int : q = x \div m
  OBVIOUS
<1>2. PICK r \in 0 .. m - 1 : x = q * m + r
  BY <1>1
<1>3. PICK p \in Int : p = q \div n
  OBVIOUS
<1>4. PICK t \in 0 .. n - 1 : q = p * n + t
  BY <1>3
<1>5. PICK k \in Nat : k = m * n /\ k >= 1
  <2>1. m * n \in Nat /\ m * n >= 1
    OBVIOUS
  <2>2. QED
    BY <2>1
<1>6. PICK s \in Int : s = t * m + r
  OBVIOUS
<1>7. x = p * k + s
  BY <1>2, <1>4, <1>5, <1>6
<1>8. s \in 0 .. k - 1
  <2>1. t * m >= 0 /\ t * m <= (n - 1) * m
    OBVIOUS
  <2>2. (n - 1) * m = k - m
    BY <1>5
  <2>3. QED
    BY <1>5, <1>6, <2>1, <2>2
<1>9. x \div k = p
  BY <1>5, <1>7, <1>8, DivIs
<1>10. QED
  BY <1>1, <1>3, <1>5, <1>9

LEMMA DivAdd ==
    ASSUME NEW x \in Int, NEW q \in Int, NEW m \in Nat, m >= 1
    PROVE  (x + q * m) \div m = (x \div m) + q
<1>1. PICK d \in Int, r \in 0 .. m - 1 : d = x \div m /\ x = d * m + r
  OBVIOUS
<1>2. PICK y \in Int : y = x + q * m
  OBVIOUS
<1>3. PICK p \in Int : p = d + q
  OBVIOUS
<1>4. y = p * m + r
  BY <1>1, <1>2, <1>3
<1>5. y \div m = p
  BY <1>4, DivIs
<1>6. QED
  BY <1>1, <1>2, <1>3, <1>5

\* Shifting to the right, as far as the bits are looked at.
LEMMA BitShiftRight ==
    ASSUME NEW x \in Int, NEW s \in 0..16, NEW n \in 0..23, n + s <= 23
    PROVE  Bit(x \div Two(s), n) <=> Bit(x, n + s)
<1>1. PICK a \in Nat, b \in Nat : a = Two(s) /\ b = Two(n) /\ a >= 1 /\ b >= 1
  BY TwoType
<1>2. Two(n + s) = b * a
  <2>1. n \in 0..23 /\ s \in 0..16 /\ n + s <= 24
    OBVIOUS
  <2>2. Two(n + s) = Two(n) * Two(s)
    BY <2>1, TwoSum
  <2>3. QED
    BY <1>1, <2>2
<1>3. (x \div a) \div b = x \div (a * b)
  BY <1>1, DivDiv
<1>4. a * b = b * a
  OBVIOUS
<1>5. (x \div Two(s)) \div Two(n) = x \div Two(n + s)
  BY <1>1, <1>2, <1>3, <1>4
<1>6. QED
  BY <1>5, BitTwo

LEMMA ZeroBits ==
    ASSUME NEW n \in 0..23
    PROVE  ~Bit(0, n)
<1>1. PICK b \in Nat : b = Two(n) /\ b >= 1
  BY TwoType
<1>2. 0 \div b = 0
  BY <1>1, DivIs
<1>3. QED
  BY <1>1, <1>2, BitTwo

\* Adding a multiple of 2^s leaves the bits below s alone.
LEMMA BitSame ==
    ASSUME NEW x \in Int, NEW k \in Int, NEW s \in 0..16, NEW n \in 0..16, n < s
    PROVE  Bit(x + k * Two(s), n) <=> Bit(x, n)
<1>1. PICK m \in 0..15 : m = s - n - 1
  OBVIOUS
<1>2. PICK a \in Nat, b \in Nat, c \in Nat :
         a = Two(s) /\ b = Two(n) /\ c = Two(m) /\ b >= 1
  <2>1. s \in 0..23 /\ n \in 0..23 /\ m \in 0..23
    OBVIOUS
  <2>2. QED
    BY ONLY <2>1, TwoType
<1>3. a = (2 * c) * b
  <2>1. Two(m + 1) = Two(m) * Two(1)
    BY TwoSum
  <2>2. Two((m + 1) + n) = Two(m + 1) * Two(n)
    BY TwoSum, <1>1
  <2>3. (m + 1) + n = s
    BY <1>1
  <2>4. Two(m + 1) = 2 * c
    BY <1>2, <2>1, TwoAt
  <2>5. QED
    BY <1>2, <2>2, <2>3, <2>4
<1>4. PICK q \in Int : q = k * c
  OBVIOUS
<1>5. k * a = (2 * q) * b
  BY <1>3, <1>4
<1>6. PICK q2 \in Int : q2 = 2 * q
  OBVIOUS
<1>7. (x + q2 * b) \div b = (x \div b) + q2
  BY <1>2, DivAdd
<1>8. PICK d \in Int : d = x \div b
  BY <1>2
<1>9. (d + q2) % 2 = d % 2
  BY <1>6
<1>10. ((x + k * a) \div b) % 2 = (x \div b) % 2
  BY <1>5, <1>6, <1>7, <1>8, <1>9
<1>11. QED
  BY <1>2, <1>10, BitTwo

\* Shifting to the left.
LEMMA BitShiftLeft ==
    ASSUME NEW x \in Int, NEW s \in 0..16, NEW n \in 0..23
    PROVE  Bit(x * Two(s), n) <=> n >= s /\ Bit(x, n - s)
<1>1. PICK a \in Nat : a = Two(s) /\ a >= 1
  BY TwoType
<1>2. PICK y \in Int : y = x * a
  OBVIOUS
<1>3. CASE n < s
  <2>1. Bit(0 + x * Two(s), n) <=> Bit(0, n)
    <3>1. n \in 0..16 /\ 0 \in Int /\ x \in Int /\ s \in 0..16 /\ n < s
      BY <1>3
    <3>2. QED
      BY ONLY <3>1, BitSame
  <2>2. ~Bit(0, n)
    BY ZeroBits
  <2>3. 0 + x * Two(s) = y /\ x * Two(s) = y
    BY <1>1, <1>2
  <2>4. QED
    BY <1>3, <2>1, <2>2, <2>3
<1>4. CASE n >= s
  <2>1. PICK m \in 0..23 : m = n - s
    BY <1>4
  <2>2. y \div a = x
    <3>1. y = x * a + 0 /\ 0 \in 0 .. a - 1
      BY <1>1, <1>2
    <3>2. QED
      BY <1>1, <3>1, DivIs
  <2>3. m + s = n /\ m + s <= 23
    BY <2>1
  <2>4. Bit(y \div Two(s), m) <=> Bit(y, m + s)
    BY <2>3, BitShiftRight
  <2>5. QED
    BY <1>1, <1>2, <1>4, <2>1, <2>2, <2>3, <2>4
<1>5. QED
  BY <1>3, <1>4

\* A number below 2^s has no bits from s on.
LEMMA BitHigh ==
    ASSUME NEW s \in 0..16, NEW x \in Nat, x < Two(s), NEW n \in 0..23, n >= s
    PROVE  ~Bit(x, n)
<1>1. PICK a \in Nat : a = Two(s) /\ a >= 1
  BY TwoType
<1>2. PICK m \in 0..23 : m = n - s
  OBVIOUS
<1>3. x \div a = 0
  <2>1. x = 0 * a + x /\ x \in 0 .. a - 1
    BY <1>1
  <2>2. QED
    BY <1>1, <2>1, DivIs
<1>4. m + s = n /\ m + s <= 23
  BY <1>2
<1>5. Bit(x \div Two(s), m) <=> Bit(x, m + s)
  BY <1>4, BitShiftRight
<1>6. ~Bit(0, m)
  BY ZeroBits
<1>7. QED
  BY <1>1, <1>3, <1>4, <1>5, <1>6

\* Adding a number below 2^s to a multiple of 2^s.
LEMMA BitSum ==
    ASSUME NEW s \in 0..16, NEW q \in Int, NEW y \in Nat, y < Two(s), NEW n \in 0..23
    PROVE  Bit(q * Two(s) + y, n) <=> IF n < s THEN Bit(y, n) ELSE Bit(q * Two(s), n)
<1>1. PICK a \in Nat : a = Two(s) /\ a >= 1
  BY TwoType
<1>2. PICK x \in Int : x = q * a
  OBVIOUS
<1>3. CASE n < s
  <2>1. Bit(y + q * Two(s), n) <=> Bit(y, n)
    <3>1. n \in 0..16 /\ y \in Int /\ q \in Int /\ s \in 0..16 /\ n < s
      BY <1>3
    <3>2. QED
      BY ONLY <3>1, BitSame
  <2>2. y + q * Two(s) = q * Two(s) + y
    BY <1>1, <1>2
  <2>3. QED
    BY <1>3, <2>1, <2>2
<1>4. CASE n >= s
  <2>1. PICK m \in 0..23 : m = n - s
    BY <1>4
  <2>2. m + s = n /\ m + s <= 23
    BY <2>1
  <2>3. (x + y) \div a = q
    <3>1. x + y = q * a + y /\ y \in 0 .. a - 1
      BY <1>1, <1>2
    <3>2. QED
      BY <1>1, <1>2, <3>1, DivIs
  <2>4. x \div a = q
    <3>1. x = q * a + 0 /\ 0 \in 0 .. a - 1
      BY <1>1, <1>2
    <3>2. QED
      BY <1>1, <1>2, <3>1, DivIs
  <2>5. Bit((x + y) \div Two(s), m) <=> Bit(x + y, m + s)
    BY <2>2, BitShiftRight
  <2>6. Bit(x \div Two(s), m) <=> Bit(x, m + s)
    BY <2>2, BitShiftRight
  <2>7. Bit(x + y, n) <=> Bit(x, n)
    BY <1>1, <2>2, <2>3, <2>4, <2>5, <2>6
  <2>8. QED
    BY <1>1, <1>2, <1>4, <2>7
<1>5. QED
  BY <1>3, <1>4

-----------------------------------------------------------------------------
(* What the conversions of the C code do to bits.                          *)

\* Promotion to int extends the sign.
LEMMA BitsOfWord ==
    ASSUME NEW x \in INT16, NEW n \in 0..23
    PROVE  Bit(x, n) <=> PromotedBit(WordOf(x), n)
<1>1. CASE n <= 15
  <2>1. n \in 0..15 /\ ~(n > 15)
    BY <1>1
  <2>2. QED
    BY <2>1 DEF PromotedBit, WordOf
<1>2. CASE n > 15
  <2>1. PICK b \in Nat : b = Two(n)
    BY TwoType
  <2>2. b >= 65536
    <3>1. PICK m \in 0..7 : m = n - 16
      BY <1>2
    <3>2. PICK c \in Nat : c = Two(m) /\ c >= 1
      BY TwoType
    <3>3. Two(m + 16) = Two(m) * Two(16)
      BY TwoSum
    <3>4. m + 16 = n
      BY <3>1
    <3>5. b = c * 65536
      BY <2>1, <3>2, <3>3, <3>4, TwoAt
    <3>6. QED
      BY <3>2, <3>5
  <2>3. Bit(x, 15) <=> (x \div 32768) % 2 = 1
    BY BitTwo, TwoAt
  <2>4. Bit(x, n) <=> (x \div b) % 2 = 1
    BY <2>1, BitTwo
  <2>5. PromotedBit(WordOf(x), n) <=> Bit(x, 15)
    BY <1>2 DEF PromotedBit, WordOf
  <2>6. CASE x >= 0
    <3>1. x = 0 * b + x /\ x \in 0 .. b - 1
      BY <2>2, <2>6 DEF INT16
    <3>2. x \div b = 0
      BY <2>2, <3>1, DivIs
    <3>3. x \div 32768 = 0
      BY <2>6 DEF INT16
    <3>4. QED
      BY <2>3, <2>4, <2>5, <3>2, <3>3
  <2>7. CASE x < 0
    <3>1. x = (-1) * b + (x + b) /\ x + b \in 0 .. b - 1
      BY <2>2, <2>7 DEF INT16
    <3>2. x \div b = -1
      BY <2>2, <3>1, DivIs
    <3>3. x \div 32768 = -1
      BY <2>7 DEF INT16
    <3>4. QED
      BY <2>3, <2>4, <2>5, <3>2, <3>3
  <2>8. QED
    BY <2>6, <2>7 DEF INT16
<1>3. QED
  BY <1>1, <1>2

\* The bits of a number below 256.
LEMMA BitsOfByte ==
    ASSUME NEW y \in Int, NEW j \in 0..7
    PROVE  j \in ToBits(y) <=> Bit(y, j)
<1>1. Weight(j) = Two(j)
  <2>0. CASE j = 0  BY <2>0, TwoAt DEF Weight
  <2>1. CASE j = 1  BY <2>1, TwoAt DEF Weight
  <2>2. CASE j = 2  BY <2>2, TwoAt DEF Weight
  <2>3. CASE j = 3  BY <2>3, TwoAt DEF Weight
  <2>4. CASE j = 4  BY <2>4, TwoAt DEF Weight
  <2>5. CASE j = 5  BY <2>5, TwoAt DEF Weight
  <2>6. CASE j = 6  BY <2>6, TwoAt DEF Weight
  <2>7. CASE j = 7  BY <2>7, TwoAt DEF Weight
  <2>8. QED
    BY <2>0, <2>1, <2>2, <2>3, <2>4, <2>5, <2>6, <2>7
<1>2. j \in ToBits(y) <=> (y \div Weight(j)) % 2 = 1
  BY DEF ToBits
<1>3. QED
  BY <1>1, <1>2, BitTwo

\* The conversion to unsigned char keeps the eight low bits and no other.
LEMMA BitsOfUchar ==
    ASSUME NEW y \in Int, NEW n \in 0..23
    PROVE  Bit(uchar(y), n) <=> n < 8 /\ Bit(y, n)
<1>1. PICK q \in Int, r \in 0..255 : y = q * 256 + r /\ r = uchar(y)
  <2>1. y = (y \div 256) * 256 + (y % 256) /\ y \div 256 \in Int /\ y % 256 \in 0..255
    OBVIOUS
  <2>2. QED
    BY <2>1 DEF uchar
<1>2. y = q * Two(8) + r /\ r < Two(8)
  BY <1>1, TwoAt
<1>3. Bit(q * Two(8) + r, n) <=> IF n < 8 THEN Bit(r, n) ELSE Bit(q * Two(8), n)
  <2>1. 8 \in 0..16 /\ r \in Nat
    OBVIOUS
  <2>2. QED
    BY ONLY <1>2, <2>1, q \in Int, n \in 0..23, BitSum
<1>4. n >= 8 => ~Bit(r, n)
  BY <1>2, BitHigh
<1>5. QED
  BY <1>1, <1>2, <1>3, <1>4

\* The conversion to int16_t keeps the sixteen low bits.
LEMMA BitsOfInt16 ==
    ASSUME NEW x \in Int
    PROVE  /\ int16(x) \in INT16
           /\ \A n \in 0..15 : Bit(int16(x), n) <=> Bit(x, n)
           /\ x \in INT16 => int16(x) = x
           /\ \E k \in Int : int16(x) = x + k * 65536
<1>1. /\ int16(x) \in INT16
      /\ x \in INT16 => int16(x) = x
  BY DEF int16, INT16
<1>2. PICK k \in Int : int16(x) = x + k * 65536
  <2>1. PICK z \in Int : z = x + 32768
    OBVIOUS
  <2>2. PICK d \in Int : d = z \div 65536
    OBVIOUS
  <2>3. z % 65536 = z - d * 65536
    BY <2>2
  <2>4. int16(x) = x + (-d) * 65536
    BY <2>1, <2>3 DEF int16
  <2>5. QED
    BY <2>4
<1>3. ASSUME NEW n \in 0..15
      PROVE  Bit(int16(x), n) <=> Bit(x, n)
  <2>1. Bit(x + k * Two(16), n) <=> Bit(x, n)
    BY BitSame
  <2>2. QED
    BY <1>2, <2>1, TwoAt
<1>4. QED
  BY <1>1, <1>2, <1>3

\* The number a byte of the buffer stands for.
LEMMA BitsOfOctet ==
    ASSUME NEW v \in SUBSET (0..7), NEW n \in 0..23
    PROVE  FromBits(v) \in 0..255 /\ (Bit(FromBits(v), n) <=> n \in v)
<1> DEFINE b(j) == IF j \in v THEN Weight(j) ELSE 0
<1>1. /\ b(0) \in {0, 1}  /\ b(1) \in {0, 2}  /\ b(2) \in {0, 4}  /\ b(3) \in {0, 8}
      /\ b(4) \in {0, 16} /\ b(5) \in {0, 32} /\ b(6) \in {0, 64} /\ b(7) \in {0, 128}
  BY DEF Weight
<1>2. /\ (b(0) = 1 <=> 0 \in v)  /\ (b(1) = 2 <=> 1 \in v)
      /\ (b(2) = 4 <=> 2 \in v)  /\ (b(3) = 8 <=> 3 \in v)
      /\ (b(4) = 16 <=> 4 \in v) /\ (b(5) = 32 <=> 5 \in v)
      /\ (b(6) = 64 <=> 6 \in v) /\ (b(7) = 128 <=> 7 \in v)
  BY DEF Weight
<1>3. FromBits(v) = b(0) + b(1) + b(2) + b(3) + b(4) + b(5) + b(6) + b(7)
  BY DEF FromBits
<1> HIDE DEF b
<1>4. FromBits(v) \in 0..255
  BY <1>1, <1>3
<1>5. CASE n >= 8
  <2>1. PICK s \in Nat : s = FromBits(v) /\ s < 256
    BY <1>4
  <2>2. s < Two(8)
    BY <2>1, TwoAt
  <2>3. ~Bit(s, n)
    BY <1>5, <2>2, BitHigh
  <2>4. QED
    BY <1>4, <1>5, <2>1, <2>3
<1>6. CASE n < 8
  <2>1. PICK s \in 0..255 : s = FromBits(v)
    BY <1>4
  <2>2. s = b(0) + b(1) + b(2) + b(3) + b(4) + b(5) + b(6) + b(7)
    BY <1>3, <2>1
  <2>10. CASE n = 0
    <3>1. s % 2 = 1 <=> b(0) = 1
      BY <1>1, <2>2
    <3>2. Bit(s, 0) <=> s % 2 = 1
      BY BitTwo, TwoAt
    <3>3. QED
      BY <1>2, <1>4, <2>1, <2>10, <3>1, <3>2
  <2>11. CASE n = 1
    <3>1. (s \div 2) % 2 = 1 <=> b(1) = 2
      BY <1>1, <2>2
    <3>2. Bit(s, 1) <=> (s \div 2) % 2 = 1
      BY BitTwo, TwoAt
    <3>3. QED
      BY <1>2, <1>4, <2>1, <2>11, <3>1, <3>2
  <2>12. CASE n = 2
    <3>1. (s \div 4) % 2 = 1 <=> b(2) = 4
      BY <1>1, <2>2
    <3>2. Bit(s, 2) <=> (s \div 4) % 2 = 1
      BY BitTwo, TwoAt
    <3>3. QED
      BY <1>2, <1>4, <2>1, <2>12, <3>1, <3>2
  <2>13. CASE n = 3
    <3>1. (s \div 8) % 2 = 1 <=> b(3) = 8
      BY <1>1, <2>2
    <3>2. Bit(s, 3) <=> (s \div 8) % 2 = 1
      BY BitTwo, TwoAt
    <3>3. QED
      BY <1>2, <1>4, <2>1, <2>13, <3>1, <3>2
  <2>14. CASE n = 4
    <3>1. (s \div 16) % 2 = 1 <=> b(4) = 16
      BY <1>1, <2>2
    <3>2. Bit(s, 4) <=> (s \div 16) % 2 = 1
      BY BitTwo, TwoAt
    <3>3. QED
      BY <1>2, <1>4, <2>1, <2>14, <3>1, <3>2
  <2>15. CASE n = 5
    <3>1. (s \div 32) % 2 = 1 <=> b(5) = 32
      BY <1>1, <2>2
    <3>2. Bit(s, 5) <=> (s \div 32) % 2 = 1
      BY BitTwo, TwoAt
    <3>3. QED
      BY <1>2, <1>4, <2>1, <2>15, <3>1, <3>2
  <2>16. CASE n = 6
    <3>1. (s \div 64) % 2 = 1 <=> b(6) = 64
      BY <1>1, <2>2
    <3>2. Bit(s, 6) <=> (s \div 64) % 2 = 1
      BY BitTwo, TwoAt
    <3>3. QED
      BY <1>2, <1>4, <2>1, <2>16, <3>1, <3>2
  <2>17. CASE n = 7
    <3>1. (s \div 128) % 2 = 1 <=> b(7) = 128
      BY <1>1, <2>2
    <3>2. Bit(s, 7) <=> (s \div 128) % 2 = 1
      BY BitTwo, TwoAt
    <3>3. QED
      BY <1>2, <1>4, <2>1, <2>17, <3>1, <3>2
  <2>20. QED
    BY <1>6, <2>10, <2>11, <2>12, <2>13, <2>14, <2>15, <2>16, <2>17
<1>7. QED
  BY <1>5, <1>6

\* What the first loop takes away from the value: its bits from s on.
LEMMA BitsCut ==
    ASSUME NEW x \in INT16, NEW s \in 1..15
    PROVE  /\ x \div Two(s) \in Int
           /\ int16(x - (x \div Two(s)) * Two(s)) \in INT16
           /\ \A n \in 0 .. s - 1 :
                 Bit(int16(x - (x \div Two(s)) * Two(s)), n) <=> Bit(x, n)
<1>1. x \in Int
  BY DEF INT16
<1>2. PICK m \in Nat : m = Two(s) /\ m >= 1
  BY TwoType
<1>3. PICK d \in Int : d = x \div m
  BY <1>1, <1>2
<1>4. PICK k \in Int : k = -d
  OBVIOUS
<1>5. PICK y \in Int : y = x + k * m
  BY <1>1
<1>6. x - d * m = y
  BY <1>1, <1>4, <1>5
<1>7. /\ int16(y) \in INT16
      /\ \A n \in 0..15 : Bit(int16(y), n) <=> Bit(y, n)
  BY BitsOfInt16
<1>8. ASSUME NEW n \in 0 .. s - 1
      PROVE  Bit(y, n) <=> Bit(x, n)
  <2>1. Bit(x + k * Two(s), n) <=> Bit(x, n)
    <3>1. n \in 0..16 /\ n < s /\ s \in 0..16
      OBVIOUS
    <3>2. QED
      BY ONLY <1>1, <3>1, k \in Int, BitSame
  <2>2. QED
    BY <1>2, <1>5, <2>1
<1>9. QED
  BY <1>2, <1>3, <1>6, <1>7, <1>8

-----------------------------------------------------------------------------
(* The buffer as bytes and as positions.                                   *)

Buffer == [0 .. Bytes - 1 -> SUBSET (0..7)]

\* A bit of a byte is a position of the buffer.
LEMMA PositionOf ==
    ASSUME NEW buf \in Buffer, NEW k \in 0 .. Bytes - 1, NEW j \in 0..7
    PROVE  8 * k + 7 - j \in Positions(buf) <=> j \in buf[k]
<1>1. ASSUME NEW h \in 0 .. Bytes - 1, 8 * k + 7 - j \in byte(h, buf[h])
      PROVE  j \in buf[k]
  <2>1. PICK i \in buf[h] : 8 * k + 7 - j = 8 * h + 7 - i
    BY <1>1 DEF byte
  <2>2. i \in 0..7
    BY DEF Buffer
  <2>3. h = k /\ i = j
    BY <2>1, <2>2, BitLoopsAssumption DEF BitLoopsAssumption
  <2>4. QED
    BY <2>1, <2>3
<1>2. ASSUME j \in buf[k]
      PROVE  8 * k + 7 - j \in byte(k, buf[k])
  BY <1>2 DEF byte
<1>3. DOMAIN buf = 0 .. Bytes - 1
  BY DEF Buffer
<1>4. QED
  BY <1>1, <1>2, <1>3 DEF Positions

\* |= on one byte adds the positions of the bits it sets.
LEMMA OrByte ==
    ASSUME NEW buf \in Buffer, NEW k \in 0 .. Bytes - 1, NEW v \in SUBSET (0..7)
    PROVE  /\ [buf EXCEPT ![k] = @ \cup v] \in Buffer
           /\ Positions([buf EXCEPT ![k] = @ \cup v]) = Positions(buf) \cup byte(k, v)
<1>1. PICK new : new = [buf EXCEPT ![k] = @ \cup v]
  OBVIOUS
<1>2. /\ new \in Buffer
      /\ DOMAIN new = 0 .. Bytes - 1 /\ DOMAIN buf = 0 .. Bytes - 1
      /\ \A h \in 0 .. Bytes - 1 : new[h] = IF h = k THEN buf[k] \cup v ELSE buf[h]
  BY <1>1 DEF Buffer
<1>3. byte(k, buf[k] \cup v) = byte(k, buf[k]) \cup byte(k, v)
  BY DEF byte
<1>4. \A h \in 0 .. Bytes - 1 :
         byte(h, new[h]) = IF h = k THEN byte(k, buf[k]) \cup byte(k, v) ELSE byte(h, buf[h])
  BY <1>2, <1>3
<1>5. \A p : p \in Positions(new) <=> \E h \in 0 .. Bytes - 1 : p \in byte(h, new[h])
  BY <1>2 DEF Positions
<1>6. \A p : p \in Positions(buf) <=> \E h \in 0 .. Bytes - 1 : p \in byte(h, buf[h])
  BY <1>2 DEF Positions
<1>7. ASSUME NEW p
      PROVE  p \in Positions(new) <=> p \in Positions(buf) \cup byte(k, v)
  BY <1>4, <1>5, <1>6
<1>8. QED
  BY <1>1, <1>2, <1>7

-----------------------------------------------------------------------------
(* The invariant.                                                          *)

First == field.offset \div 8
End   == field.offset + field.size
InField == field.offset .. field.offset + field.size - 1

\* Bit n of the value the caller passed, once promoted.
ValueBit(n) == PromotedBit(WordOf(field.val), n)

\* Arguments and buffer.
BufferInv ==
    /\ field.offset \in Offsets /\ field.val \in Values /\ field.size \in Sizes
    /\ before \subseteq 0 .. 8 * Bytes - 1
    /\ before \cap InField = {}
    /\ dst \in Buffer
    /\ pc \in {"write", "read", "done"}

\* The locals of both loops: the end of the field is bits_remaining bits ahead.
LocalsInv ==
    /\ bit_no \in Nat /\ offset \in 0..7 /\ bits_remaining \in 0..16
    /\ 8 * bit_no + offset + bits_remaining = End
    /\ available_bits = 8 - offset
    /\ bit_no >= First
    /\ bit_no = First => offset = field.offset % 8 /\ bits_remaining = field.size
    /\ bit_no # First => offset = 0
    /\ val \in INT16

\* What write_bit_value has written before byte k.
Written(k) == before \cup {p \in 8 * First .. 8 * k - 1 : ValueBit(End - 1 - p)}

\* The bits still to be written are those of the caller's value.
WriteInv ==
    /\ Positions(dst) = Written(bit_no)
    /\ \A n \in 0 .. offset + bits_remaining - 1 : Bit(val, n) <=> ValueBit(n)

\* The numbers the steps reason with.
LEMMA Frame ==
    ASSUME BufferInv
    PROVE  /\ field.offset \in Nat /\ field.size \in 0..16 /\ field.val \in INT16
           /\ First \in Nat /\ End \in Nat /\ End < 8 * Bytes /\ Bytes \in Nat
           /\ field.offset % 8 \in 0..7
           /\ 8 * First + (field.offset % 8) + field.size = End
<1>1. field.offset \in Nat /\ field.size \in 0..16 /\ field.val \in INT16
  BY BitLoopsAssumption DEF BufferInv, BitLoopsAssumption
<1>2. PICK o \in Nat : o = field.offset
  BY <1>1
<1>3. o + 16 < 8 * Bytes /\ Bytes \in Nat
  BY <1>2, BitLoopsAssumption DEF BufferInv, BitLoopsAssumption
<1>4. o % 8 \in 0..7 /\ o \div 8 \in Nat /\ 8 * (o \div 8) + (o % 8) = o
  BY ByteAndBit
<1>5. PICK s \in 0..16 : s = field.size
  BY <1>1
<1>6. PICK f \in Nat, r \in 0..7 : f = First /\ r = field.offset % 8 /\ 8 * f + r = o
  BY <1>2, <1>4 DEF First
<1>7. End = o + s
  BY <1>2, <1>5 DEF End
<1>8. 8 * f + r + s = o + s /\ o + s \in Nat /\ o + s < 8 * Bytes
  BY <1>3, <1>6
<1>9. QED
  BY <1>1, <1>2, <1>3, <1>5, <1>6, <1>7, <1>8

\* One pass of the first loop: the top bits of the value go to the byte.
LEMMA WriteLoopStep ==
    ASSUME BufferInv, LocalsInv, WriteInv, WriteLoop
    PROVE  BufferInv' /\ LocalsInv' /\ WriteInv' /\ pc' = "write"
<1>0. /\ field.offset \in Nat /\ field.size \in 0..16
      /\ First \in Nat /\ End \in Nat /\ End < 8 * Bytes /\ Bytes \in Nat
      /\ field.offset % 8 \in 0..7
  BY Frame
<1>1. PICK s \in Int : s = bits_remaining - available_bits
  BY DEF LocalsInv
<1>2. s \in 1..15 /\ s = offset + bits_remaining - 8
  BY <1>1 DEF LocalsInv, WriteLoop
<1>3. 2^s = Two(s)
  BY DEF Two
<1>4. PICK w \in Int : w = val \div Two(s)
  BY <1>2, BitsCut DEF LocalsInv
<1>5. /\ val' = int16(val - w * Two(s))
      /\ dst' = [dst EXCEPT ![bit_no] = @ \cup ToBits(uchar(w))]
      /\ UNCHANGED <<pc, field, before>>
      /\ bits_remaining' = s /\ available_bits' = 8 /\ offset' = 0
      /\ bit_no' = bit_no + 1
  BY <1>1, <1>3, <1>4 DEF WriteLoop, NextByte
<1>6. bit_no \in 0 .. Bytes - 1
  BY <1>0, <1>2 DEF LocalsInv
<1>7. ToBits(uchar(w)) \in SUBSET (0..7)
  BY DEF ToBits
<1>8. /\ dst' \in Buffer
      /\ Positions(dst') = Positions(dst) \cup byte(bit_no, ToBits(uchar(w)))
  BY <1>5, <1>6, <1>7, OrByte DEF BufferInv
<1>9. ASSUME NEW j \in 0..7
      PROVE  j \in ToBits(uchar(w)) <=> ValueBit(j + s)
  <2>1. uchar(w) \in Int
    BY DEF uchar
  <2>2. j \in ToBits(uchar(w)) <=> Bit(uchar(w), j)
    BY <2>1, BitsOfByte
  <2>3. Bit(uchar(w), j) <=> j < 8 /\ Bit(w, j)
    BY BitsOfUchar
  <2>4. Bit(val \div Two(s), j) <=> Bit(val, j + s)
    BY <1>2, BitShiftRight DEF LocalsInv, INT16
  <2>5. j + s \in 0 .. offset + bits_remaining - 1
    BY <1>2 DEF LocalsInv
  <2>6. Bit(val, j + s) <=> ValueBit(j + s)
    BY <2>5 DEF WriteInv
  <2>7. QED
    BY <1>4, <2>2, <2>3, <2>4, <2>6
<1>10. 8 * (bit_no + 1) + s = End
  BY <1>2 DEF LocalsInv
<1>11. byte(bit_no, ToBits(uchar(w)))
         = {p \in 8 * bit_no .. 8 * (bit_no + 1) - 1 : ValueBit(End - 1 - p)}
  <2>1. ASSUME NEW j \in ToBits(uchar(w))
        PROVE  /\ 8 * bit_no + 7 - j \in 8 * bit_no .. 8 * (bit_no + 1) - 1
               /\ ValueBit(End - 1 - (8 * bit_no + 7 - j))
    <3>1. j \in 0..7
      BY <1>7
    <3>2. End - 1 - (8 * bit_no + 7 - j) = j + s
      BY <1>2, <1>6, <1>10, <3>1
    <3>3. QED
      BY <1>6, <1>9, <3>1, <3>2
  <2>2. ASSUME NEW p \in 8 * bit_no .. 8 * (bit_no + 1) - 1, ValueBit(End - 1 - p)
        PROVE  \E j \in ToBits(uchar(w)) : p = 8 * bit_no + 7 - j
    <3>1. PICK j \in 0..7 : j = 8 * bit_no + 7 - p
      BY <1>6
    <3>2. End - 1 - p = j + s
      BY <1>2, <1>6, <1>10, <3>1
    <3>3. j \in ToBits(uchar(w))
      BY <1>9, <2>2, <3>2
    <3>4. p = 8 * bit_no + 7 - j
      BY <1>6, <3>1
    <3>5. QED
      BY <3>3, <3>4
  <2>3. QED
    BY <2>1, <2>2 DEF byte
<1>12. BufferInv'
  BY <1>5, <1>8 DEF BufferInv, InField
<1>13. First' = First /\ End' = End /\ \A n : ValueBit(n)' <=> ValueBit(n)
  BY <1>5 DEF First, End, ValueBit
<1>14. int16(val - w * Two(s)) \in INT16
  BY <1>2, <1>4, BitsCut DEF LocalsInv
<1>15. LocalsInv'
  BY <1>0, <1>2, <1>5, <1>10, <1>13, <1>14 DEF LocalsInv
<1>16. \A n \in 0 .. s - 1 : Bit(val', n) <=> ValueBit(n)
  <2>1. \A n \in 0 .. s - 1 : Bit(int16(val - w * Two(s)), n) <=> Bit(val, n)
    BY <1>2, <1>4, BitsCut DEF LocalsInv
  <2>2. \A n \in 0 .. s - 1 : n \in 0 .. offset + bits_remaining - 1
    BY <1>2 DEF LocalsInv
  <2>3. QED
    BY <1>5, <2>1, <2>2 DEF WriteInv
<1>17. Positions(dst') = Written(bit_no + 1)
  <2>1. 8 * First <= 8 * bit_no
    BY <1>0 DEF LocalsInv
  <2>2. \A p : p \in 8 * First .. 8 * (bit_no + 1) - 1
                 <=> \/ p \in 8 * First .. 8 * bit_no - 1
                     \/ p \in 8 * bit_no .. 8 * (bit_no + 1) - 1
    BY <1>0, <1>6, <2>1
  <2>3. QED
    BY <1>8, <1>11, <2>2 DEF WriteInv, Written
<1>18. WriteInv'
  <2>1. Written(bit_no)' = Written(bit_no + 1)
    BY <1>5, <1>13 DEF Written
  <2>2. Positions(dst)' = Positions(dst')
    BY DEF Positions
  <2>3. \A n \in (0 .. offset + bits_remaining - 1)' : Bit(val, n)' <=> ValueBit(n)'
    BY <1>2, <1>5, <1>13, <1>16 DEF Bit
  <2>4. QED
    BY <1>17, <2>1, <2>2, <2>3 DEF WriteInv
<1>19. QED
  BY <1>5, <1>12, <1>15, <1>18 DEF WriteLoop

\* The last byte: the rest of the value goes in front of what is free of it.
LEMMA WriteTailStep ==
    ASSUME BufferInv, LocalsInv, WriteInv, WriteTail
    PROVE  /\ Positions(dst') = write_bit_value(before, field.offset,
                                                WordOf(field.val), field.size)
           /\ dst' \in Buffer
<1>0. /\ field.offset \in Nat /\ field.size \in 0..16
      /\ First \in Nat /\ End \in Nat /\ End < 8 * Bytes /\ Bytes \in Nat
  BY Frame
<1>1. PICK s \in Int : s = 8 - bits_remaining - offset
  BY DEF LocalsInv
<1>2. s \in 0..8
  BY <1>1 DEF LocalsInv, WriteTail
<1>3. 2^s = Two(s)
  BY DEF Two
<1>4. PICK w \in Int : w = val * Two(s)
  BY <1>2, TwoType DEF LocalsInv, INT16
<1>5. dst' = [dst EXCEPT ![bit_no] = @ \cup ToBits(uchar(w))]
  BY <1>1, <1>3, <1>4 DEF WriteTail
<1>6. bit_no \in 0 .. Bytes - 1
  BY <1>0 DEF LocalsInv
<1>7. ToBits(uchar(w)) \in SUBSET (0..7)
  BY DEF ToBits
<1>8. /\ dst' \in Buffer
      /\ Positions(dst') = Positions(dst) \cup byte(bit_no, ToBits(uchar(w)))
  BY <1>5, <1>6, <1>7, OrByte DEF BufferInv
<1>9. ASSUME NEW j \in 0..7
      PROVE  j \in ToBits(uchar(w)) <=> j >= s /\ ValueBit(j - s)
  <2>1. uchar(w) \in Int
    BY DEF uchar
  <2>2. j \in ToBits(uchar(w)) <=> Bit(uchar(w), j)
    BY <2>1, BitsOfByte
  <2>3. Bit(uchar(w), j) <=> j < 8 /\ Bit(w, j)
    BY BitsOfUchar
  <2>4. Bit(val * Two(s), j) <=> j >= s /\ Bit(val, j - s)
    BY <1>2, BitShiftLeft DEF LocalsInv, INT16
  <2>5. j >= s => j - s \in 0 .. offset + bits_remaining - 1
    BY <1>1 DEF LocalsInv
  <2>6. j >= s => (Bit(val, j - s) <=> ValueBit(j - s))
    BY <2>5 DEF WriteInv
  <2>7. QED
    BY <1>4, <2>2, <2>3, <2>4, <2>6
<1>10. 8 * bit_no + 8 - s = End
  BY <1>1 DEF LocalsInv
<1>11. byte(bit_no, ToBits(uchar(w)))
         = {p \in 8 * bit_no .. End - 1 : ValueBit(End - 1 - p)}
  <2>1. ASSUME NEW j \in ToBits(uchar(w))
        PROVE  /\ 8 * bit_no + 7 - j \in 8 * bit_no .. End - 1
               /\ ValueBit(End - 1 - (8 * bit_no + 7 - j))
    <3>1. j \in 0..7 /\ j >= s
      BY <1>7, <1>9
    <3>2. End - 1 - (8 * bit_no + 7 - j) = j - s
      BY <1>2, <1>6, <1>10, <3>1
    <3>3. 8 * bit_no + 7 - j \in 8 * bit_no .. End - 1
      BY <1>0, <1>2, <1>6, <1>10, <3>1
    <3>4. QED
      BY <1>9, <3>1, <3>2, <3>3
  <2>2. ASSUME NEW p \in 8 * bit_no .. End - 1, ValueBit(End - 1 - p)
        PROVE  \E j \in ToBits(uchar(w)) : p = 8 * bit_no + 7 - j
    <3>1. PICK j \in 0..7 : j = 8 * bit_no + 7 - p
      BY <1>0, <1>2, <1>6, <1>10
    <3>2. End - 1 - p = j - s /\ j >= s
      BY <1>0, <1>2, <1>6, <1>10, <3>1
    <3>3. j \in ToBits(uchar(w))
      BY <1>9, <2>2, <3>2
    <3>4. p = 8 * bit_no + 7 - j
      BY <1>6, <3>1
    <3>5. QED
      BY <3>3, <3>4
  <2>3. QED
    BY <2>1, <2>2 DEF byte
<1>12. Positions(dst') = before \cup {p \in 8 * First .. End - 1 : ValueBit(End - 1 - p)}
  <2>1. 8 * First <= 8 * bit_no /\ 8 * bit_no - 1 <= End - 1
    BY <1>0 DEF LocalsInv
  <2>2. \A p : p \in 8 * First .. End - 1
                 <=> \/ p \in 8 * First .. 8 * bit_no - 1
                     \/ p \in 8 * bit_no .. End - 1
    BY <1>0, <1>6, <2>1
  <2>3. QED
    BY <1>8, <1>11, <2>2 DEF WriteInv, Written
<1>13. write_bit_value(before, field.offset, WordOf(field.val), field.size)
         = before \cup {p \in 8 * First .. End - 1 : ValueBit(End - 1 - p)}
  <2>1. 8 * (field.offset \div 8) = 8 * First /\ field.offset + field.size - 1 = End - 1
    BY <1>0 DEF First, End
  <2>2. \A p \in Int : PromotedBit(WordOf(field.val), field.offset + field.size - 1 - p)
                 <=> ValueBit(End - 1 - p)
    <3>1. field.offset + field.size - 1 = End - 1
      BY <2>1
    <3>2. \A p \in Int : field.offset + field.size - 1 - p = End - 1 - p
      BY <1>0 DEF End
    <3>3. QED
      BY <3>2 DEF ValueBit
  <2>3. 8 * First .. End - 1 \subseteq Int
    BY <1>0
  <2>4. QED
    BY <2>1, <2>2, <2>3 DEF write_bit_value
<1>14. QED
  BY <1>8, <1>12, <1>13

-----------------------------------------------------------------------------
(* The loop of read_bit_value.                                             *)

\* Bit n of the field, counted from its end, as the buffer holds it.
DataBit(n) == End - 1 - n \in Positions(dst)

\* A value whose b low bits are still free.
Multiple(x, b) == \E q \in Int : x = q * Two(b)

Closed == read_bit_value(Positions(dst), field.offset, field.size)

\* Nothing read; the first chunk in place; a first and a whole second byte, the
\* first one shifted a second time.
ReadInv ==
    /\ Multiple(val, bits_remaining)
    /\ \/ bit_no = First /\ val = 0
       \/ /\ bit_no = First + 1 /\ bits_remaining >= 1
          /\ \A n \in 0..15 : Bit(val, n)
                <=> n >= bits_remaining /\ n < field.size /\ DataBit(n)
       \/ /\ bit_no = First + 2 /\ bits_remaining >= 1
          /\ \A n \in 0..15 : Bit(val, n) <=> n >= bits_remaining /\ n \in Closed

\* The chunk a pass of the loop takes from a byte.
LEMMA Chunk ==
    ASSUME NEW v \in SUBSET (0..7), NEW o \in 0..7
    PROVE  /\ FromBits(v) \in 0..255
           /\ uchar(FromBits(v) * Two(o)) \div Two(o) \in Nat
           /\ uchar(FromBits(v) * Two(o)) \div Two(o) < Two(8 - o)
           /\ \A n \in 0..15 : Bit(uchar(FromBits(v) * Two(o)) \div Two(o), n)
                                 <=> n < 8 - o /\ n \in v
<1>1. PICK f \in 0..255 : f = FromBits(v)
  BY BitsOfOctet
<1>2. PICK m \in Nat, c \in Nat : m = Two(o) /\ m >= 1 /\ c = Two(8 - o) /\ c >= 1
  <2>1. 8 - o \in 0..23
    OBVIOUS
  <2>2. QED
    BY <2>1, TwoType
<1>3. c * m = 256
  <2>1. Two((8 - o) + o) = Two(8 - o) * Two(o)
    BY TwoSum
  <2>2. (8 - o) + o = 8
    OBVIOUS
  <2>3. QED
    BY <1>2, <2>1, <2>2, TwoAt
<1>4. PICK g \in Int : g = f * m
  OBVIOUS
<1>5. PICK y \in 0..255 : y = uchar(g)
  BY DEF uchar
<1>6. PICK r \in Int : r = y \div m
  BY <1>2
<1>7. PICK t \in 0 .. m - 1 : y = r * m + t
  <2>1. \E t \in 0 .. m - 1 : y = (y \div m) * m + t
    <3>1. y \in Int /\ m \in Nat /\ m >= 1
      BY <1>2
    <3>2. QED
      BY ONLY <3>1, Remainder
  <2>2. QED
    BY <1>6, <2>1
<1>8. r >= 0
  <2>1. CASE r <= -1
    <3>1. r * m <= -m
      BY <2>1, NegativeProduct
    <3>2. QED
      BY <1>5, <1>7, <3>1
  <2>2. QED
    BY <2>1
<1>9. r < c
  <2>1. CASE r >= c
    <3>1. r * m >= c * m
      BY <1>2, <2>1
    <3>2. QED
      BY <1>3, <1>5, <1>7, <3>1
  <2>2. QED
    BY <2>1
<1>10. ASSUME NEW n \in 0..15
       PROVE  Bit(r, n) <=> n < 8 - o /\ n \in v
  <2>1. Bit(y \div Two(o), n) <=> Bit(y, n + o)
    <3>1. y \in Int /\ o \in 0..16 /\ n \in 0..23 /\ n + o <= 23
      OBVIOUS
    <3>2. QED
      BY ONLY <3>1, BitShiftRight
  <2>2. Bit(uchar(g), n + o) <=> n + o < 8 /\ Bit(g, n + o)
    BY BitsOfUchar
  <2>3. Bit(f * Two(o), n + o) <=> n + o >= o /\ Bit(f, (n + o) - o)
    BY BitShiftLeft
  <2>4. (n + o) - o = n /\ n + o >= o
    OBVIOUS
  <2>5. Bit(f, n) <=> n \in v
    BY <1>1, BitsOfOctet
  <2>6. QED
    BY <1>2, <1>4, <1>5, <1>6, <2>1, <2>2, <2>3, <2>4, <2>5
<1>11. QED
  BY <1>1, <1>2, <1>4, <1>5, <1>6, <1>8, <1>9, <1>10

\* A chunk joins the value read so far, whose low bits are free for it.
LEMMA Joined ==
    ASSUME NEW x \in INT16, NEW b \in 0..16, NEW q \in Int, x = q * Two(b),
           NEW y \in Nat, y < Two(b)
    PROVE  /\ x + y \in Int
           /\ \A n \in 0..15 : Bit(x + y, n) <=> IF n < b THEN Bit(y, n) ELSE Bit(x, n)
<1>1. x \in Int /\ x + y \in Int
  BY DEF INT16
<1>2. ASSUME NEW n \in 0..15
      PROVE  Bit(x + y, n) <=> IF n < b THEN Bit(y, n) ELSE Bit(x, n)
  <2>1. Bit(q * Two(b) + y, n) <=> IF n < b THEN Bit(y, n) ELSE Bit(q * Two(b), n)
    <3>1. n \in 0..23 /\ b \in 0..16 /\ q \in Int /\ y \in Nat /\ y < Two(b)
      OBVIOUS
    <3>2. QED
      BY ONLY <3>1, BitSum
  <2>2. QED
    BY <2>1
<1>3. QED
  BY <1>1, <1>2

\* What a pass of the loop, and the last one, make of the value x read so far and
\* of the byte v: o bits of it are not of the field, s or b bits are still to come.
Pass(x, o, s, v) ==
    int16(int16(x + (uchar(FromBits(v) * Two(o)) \div Two(o))) * Two(s))
Last(x, o, b, v) ==
    int16(x + (uchar((FromBits(v) \div Two(8 - b - o)) * Two(8 - b)) \div Two(8 - b)))

\* A pass of the loop on a value with b bits to come, s of them after the byte.
LEMMA ReadPass ==
    ASSUME NEW x \in INT16, NEW o \in 0..7, NEW b \in 1..16, NEW s \in 1..15, b = s + 8 - o,
           Multiple(x, b), NEW v \in SUBSET (0..7)
    PROVE  /\ Pass(x, o, s, v) \in INT16
           /\ Multiple(Pass(x, o, s, v), s)
           /\ \A n \in 0..15 : Bit(Pass(x, o, s, v), n) <=> /\ n >= s
                                             /\ IF n - s < b
                                                THEN n - s < 8 - o /\ n - s \in v
                                                ELSE Bit(x, n - s)
<1>0. PICK z : z = Pass(x, o, s, v)
  OBVIOUS
<1>1. PICK y \in Nat : y = uchar(FromBits(v) * Two(o)) \div Two(o)
  BY Chunk
<1>2. /\ y < Two(8 - o)
      /\ \A n \in 0..15 : Bit(y, n) <=> n < 8 - o /\ n \in v
  BY <1>1, Chunk
<1>3. y < Two(b)
  <2>1. PICK c \in Nat, m \in Nat : c = Two(8 - o) /\ m = Two(s) /\ c >= 1 /\ m >= 1
    <3>1. 8 - o \in 0..23 /\ s \in 0..23
      OBVIOUS
    <3>2. QED
      BY <3>1, TwoType
  <2>2. Two((8 - o) + s) = Two(8 - o) * Two(s)
    BY TwoSum
  <2>3. (8 - o) + s = b
    OBVIOUS
  <2>4. Two(b) = c * m
    BY <2>1, <2>2, <2>3
  <2>5. c * m >= c
    BY <2>1
  <2>6. QED
    BY <1>2, <2>1, <2>4, <2>5
<1>4. /\ x + y \in Int
      /\ \A n \in 0..15 : Bit(x + y, n) <=> IF n < b THEN Bit(y, n) ELSE Bit(x, n)
  <2>1. PICK q \in Int : x = q * Two(b)
    BY DEF Multiple
  <2>2. QED
    BY <1>3, <2>1, Joined
<1>5. PICK g \in INT16 : g = int16(x + y)
  BY <1>4, BitsOfInt16
<1>6. \A n \in 0..15 : Bit(g, n) <=> Bit(x + y, n)
  BY <1>4, <1>5, BitsOfInt16
<1>7. g \in Int
  BY DEF INT16
<1>8. PICK m \in Nat : m = Two(s) /\ m >= 1
  BY TwoType
<1>9. PICK h \in Int : h = g * m
  BY <1>7
<1>10. z = int16(h)
  BY <1>0, <1>1, <1>5, <1>8, <1>9 DEF Pass
<1>11. \A n \in 0..15 : Bit(h, n) <=> n >= s /\ Bit(g, n - s)
  <2>1. \A n \in 0..15 : Bit(g * Two(s), n) <=> n >= s /\ Bit(g, n - s)
    BY <1>7, BitShiftLeft
  <2>2. QED
    BY <1>8, <1>9, <2>1
<1>12. z \in INT16 /\ \A n \in 0..15 : Bit(z, n) <=> Bit(h, n)
  BY <1>10, BitsOfInt16
<1>13. \E k \in Int : z = k * Two(s)
  <2>1. PICK k \in Int : z = h + k * 65536
    BY <1>10, BitsOfInt16
  <2>2. PICK r \in 1..15 : r = 16 - s
    OBVIOUS
  <2>3. PICK c \in Nat : c = Two(r)
    BY TwoType
  <2>4. r + s = 16
    BY <2>2
  <2>5. Two(r + s) = Two(r) * Two(s)
    <3>1. r \in 0..23 /\ s \in 0..16 /\ r + s <= 24
      BY <2>4
    <3>2. QED
      BY ONLY <3>1, TwoSum
  <2>6. 65536 = c * m
    BY <1>8, <2>3, <2>4, <2>5, TwoAt
  <2>7. PICK e \in Int : e = k * c
    OBVIOUS
  <2>8. k * 65536 = e * m
    BY <2>6, <2>7
  <2>9. z = (g + e) * m
    BY <1>7, <1>9, <2>1, <2>8
  <2>10. QED
    BY <1>7, <1>8, <2>9
<1>14. ASSUME NEW n \in 0..15, n >= s
       PROVE  Bit(g, n - s) <=> IF n - s < b THEN n - s < 8 - o /\ n - s \in v
                                             ELSE Bit(x, n - s)
  <2>1. PICK i \in 0..15 : i = n - s
    BY <1>14
  <2>2. QED
    BY <1>2, <1>4, <1>6, <2>1
<1>15. QED
  BY <1>0, <1>11, <1>12, <1>13, <1>14 DEF Multiple

\* The last pass: b bits of the byte, the ones in front of its free end.
LEMMA ReadLast ==
    ASSUME NEW x \in INT16, NEW o \in 0..7, NEW b \in 0..8, b + o <= 8,
           Multiple(x, b), NEW v \in SUBSET (0..7)
    PROVE  /\ Last(x, o, b, v) \in INT16
           /\ \A n \in 0..15 : Bit(Last(x, o, b, v), n) <=> IF n < b THEN n + 8 - b - o \in v
                                                      ELSE Bit(x, n)
<1>0. PICK z : z = Last(x, o, b, v)
  OBVIOUS
<1>1. PICK s \in 0..8, u \in 0..8 : s = 8 - b - o /\ u = 8 - b
  OBVIOUS
<1>2. PICK f \in 0..255 : f = FromBits(v)
  BY BitsOfOctet
<1>3. PICK r \in Int : r = f \div Two(s)
  <2>1. PICK m \in Nat : m = Two(s) /\ m >= 1
    BY TwoType
  <2>2. f \div m \in Int
    BY <2>1
  <2>3. QED
    BY <2>1, <2>2
<1>4. PICK m \in Nat, c \in Nat : m = Two(u) /\ m >= 1 /\ c = Two(b) /\ c >= 1
  BY TwoType
<1>5. c * m = 256
  <2>1. Two(b + u) = Two(b) * Two(u)
    BY TwoSum
  <2>2. b + u = 8
    BY <1>1
  <2>3. QED
    BY <1>4, <2>1, <2>2, TwoAt
<1>6. PICK g \in Int : g = r * m
  OBVIOUS
<1>7. PICK y \in 0..255 : y = uchar(g)
  BY DEF uchar
<1>8. PICK w \in Int : w = y \div m
  BY <1>4
<1>9. \E t \in 0 .. m - 1 : y = (y \div m) * m + t
  <2>1. y \in Int /\ m \in Nat /\ m >= 1
    BY <1>4
  <2>2. QED
    BY ONLY <2>1, Remainder
<1>10. PICK t \in 0 .. m - 1 : y = w * m + t
  BY <1>8, <1>9
<1>11. w >= 0
  <2>1. CASE w <= -1
    <3>1. w * m <= -m
      BY <2>1, NegativeProduct
    <3>2. QED
      BY <1>7, <1>10, <3>1
  <2>2. QED
    BY <2>1
<1>12. w < c
  <2>1. CASE w >= c
    <3>1. w * m >= c * m
      BY <1>4, <2>1
    <3>2. QED
      BY <1>5, <1>7, <1>10, <3>1
  <2>2. QED
    BY <2>1
<1>13. /\ x + w \in Int
       /\ \A n \in 0..15 : Bit(x + w, n) <=> IF n < b THEN Bit(w, n) ELSE Bit(x, n)
  <2>1. w \in Nat /\ w < Two(b) /\ b \in 0..16
    BY <1>4, <1>11, <1>12
  <2>2. PICK q \in Int : x = q * Two(b)
    BY DEF Multiple
  <2>3. QED
    BY <2>1, <2>2, Joined
<1>14. z = int16(x + w)
  BY <1>0, <1>1, <1>2, <1>3, <1>4, <1>6, <1>7, <1>8 DEF Last
<1>15. z \in INT16 /\ \A n \in 0..15 : Bit(z, n) <=> Bit(x + w, n)
  BY <1>13, <1>14, BitsOfInt16
<1>16. ASSUME NEW n \in 0..15, n < b
       PROVE  Bit(w, n) <=> n + 8 - b - o \in v
  <2>1. Bit(y \div Two(u), n) <=> Bit(y, n + u)
    <3>1. y \in Int /\ u \in 0..16 /\ n \in 0..23 /\ n + u <= 23
      OBVIOUS
    <3>2. QED
      BY ONLY <3>1, BitShiftRight
  <2>2. n + u < 8 /\ n + u \in 0..23
    BY <1>1, <1>16
  <2>3. Bit(uchar(g), n + u) <=> n + u < 8 /\ Bit(g, n + u)
    BY <2>2, BitsOfUchar
  <2>4. Bit(r * Two(u), n + u) <=> n + u >= u /\ Bit(r, (n + u) - u)
    BY <2>2, BitShiftLeft
  <2>5. (n + u) - u = n /\ n + u >= u
    OBVIOUS
  <2>6. Bit(f \div Two(s), n) <=> Bit(f, n + s)
    <3>1. f \in Int /\ s \in 0..16 /\ n \in 0..23 /\ n + s <= 23
      OBVIOUS
    <3>2. QED
      BY ONLY <3>1, BitShiftRight
  <2>7. Bit(f, n + s) <=> n + s \in v
    BY <1>2, BitsOfOctet
  <2>8. n + s = n + 8 - b - o
    BY <1>1
  <2>9. QED
    BY <1>3, <1>4, <1>6, <1>7, <1>8, <2>1, <2>2, <2>3, <2>4, <2>5, <2>6, <2>7, <2>8
<1>17. QED
  BY <1>0, <1>13, <1>15, <1>16

\* A bit of the byte the loop is at, as a bit of the field.
LEMMA ByteData ==
    ASSUME BufferInv, LocalsInv, NEW j \in 0..7, NEW n \in Int, 8 * bit_no + 7 - j = End - 1 - n,
           bit_no < Bytes
    PROVE  j \in dst[bit_no] <=> DataBit(n)
<1>1. bit_no \in 0 .. Bytes - 1
  BY Frame DEF LocalsInv
<1>2. 8 * bit_no + 7 - j \in Positions(dst) <=> j \in dst[bit_no]
  BY <1>1, PositionOf DEF BufferInv
<1>3. QED
  BY <1>2 DEF DataBit

\* The closed form, in the terms of the loop.
LEMMA ClosedBits ==
    ASSUME BufferInv, NEW r \in Int, r = field.size - (8 - (field.offset % 8))
    PROVE  /\ Closed \subseteq 0..15
           /\ r <= 8 => \A n \in 0..15 : n \in Closed <=> n < field.size /\ DataBit(n)
           /\ r > 8 => \A n \in 0..15 : n \in Closed <=>
                 \/ n < field.size /\ n < r /\ DataBit(n)
                 \/ /\ r + (r - 8) <= n /\ n < field.size + (r - 8)
                    /\ DataBit(n - (r - 8))
<1>1. field.offset \in Nat /\ field.size \in 0..16 /\ End \in Nat
      /\ field.offset + field.size = End /\ field.offset % 8 \in 0..7
  BY Frame DEF End
<1> DEFINE again == IF r > 8 THEN r - 8 ELSE 0
<1>2. \A n : n \in Closed <=>
        /\ n \in 0..15
        /\ \/ /\ n < field.size
              /\ again > 0 => n < r
              /\ End - 1 - n \in Positions(dst)
           \/ /\ again > 0
              /\ r + again <= n /\ n < field.size + again
              /\ End - 1 - (n - again) \in Positions(dst)
  BY <1>1 DEF Closed, read_bit_value
<1>3. Closed \subseteq 0..15
  BY <1>2
<1>4. CASE r <= 8
  <2>1. again = 0
    BY <1>4
  <2>2. \A n \in 0..15 : n \in Closed <=> n < field.size /\ End - 1 - n \in Positions(dst)
    BY <1>2, <2>1
  <2>3. QED
    BY <1>3, <1>4, <2>2 DEF DataBit
<1>5. CASE r > 8
  <2>1. again = r - 8 /\ again > 0
    BY <1>5
  <2>2. \A n \in 0..15 : n \in Closed <=>
           \/ n < field.size /\ n < r /\ End - 1 - n \in Positions(dst)
           \/ /\ r + (r - 8) <= n /\ n < field.size + (r - 8)
              /\ End - 1 - (n - (r - 8)) \in Positions(dst)
    BY <1>2, <2>1
  <2>3. QED
    BY <1>3, <1>5, <2>2 DEF DataBit
<1>6. QED
  BY <1>4, <1>5

LEMMA ReadLoopStep ==
    ASSUME BufferInv, LocalsInv, ReadInv, ReadLoop
    PROVE  BufferInv' /\ LocalsInv' /\ ReadInv' /\ pc' = "read"
<1>0. /\ field.offset \in Nat /\ field.size \in 0..16
      /\ First \in Nat /\ End \in Nat /\ End < 8 * Bytes /\ Bytes \in Nat
      /\ field.offset % 8 \in 0..7
      /\ 8 * First + (field.offset % 8) + field.size = End
  BY Frame
<1>1. PICK s \in Int : s = bits_remaining - available_bits
  BY DEF LocalsInv
<1>2. s \in 1..15 /\ bits_remaining = s + 8 - offset /\ bits_remaining \in 1..16
  BY <1>1 DEF LocalsInv, ReadLoop
<1>3. 2^s = Two(s) /\ 2^offset = Two(offset)
  BY DEF Two
<1>4. bit_no \in 0 .. Bytes - 1
  BY <1>0, <1>2 DEF LocalsInv
<1>5. PICK v \in SUBSET (0..7) : v = dst[bit_no]
  BY <1>4 DEF BufferInv, Buffer
<1>6. /\ val' = int16(int16(val + (uchar(FromBits(v) * Two(offset)) \div Two(offset))) * Two(s))
      /\ UNCHANGED <<pc, field, before, dst>>
      /\ bits_remaining' = s /\ available_bits' = 8 /\ offset' = 0
      /\ bit_no' = bit_no + 1
  BY <1>1, <1>3, <1>5 DEF ReadLoop, NextByte
<1>7. Multiple(val, bits_remaining)
  BY DEF ReadInv
<1>8. val \in INT16 /\ offset \in 0..7
  BY DEF LocalsInv
<1>9. /\ val' \in INT16
      /\ Multiple(val', s)
      /\ \A n \in 0..15 : Bit(val', n) <=> /\ n >= s
                                           /\ IF n - s < bits_remaining
                                              THEN n - s < 8 - offset /\ n - s \in v
                                              ELSE Bit(val, n - s)
  <2>1. PICK z : z = val'
    OBVIOUS
  <2>2. PICK b \in 1..16 : b = bits_remaining /\ b = s + 8 - offset /\ Multiple(val, b)
    BY <1>2, <1>7
  <2>3. PICK x \in INT16, o \in 0..7 : x = val /\ o = offset
    BY <1>8
  <2>4. /\ z = Pass(x, o, s, v)
        /\ s \in 1..15 /\ b = s + 8 - o /\ Multiple(x, b)
    BY <1>2, <1>6, <2>1, <2>2, <2>3 DEF Pass
  <2>5. /\ z \in INT16
        /\ Multiple(z, s)
        /\ \A n \in 0..15 : Bit(z, n) <=> /\ n >= s
                                          /\ IF n - s < b
                                             THEN n - s < 8 - o /\ n - s \in v
                                             ELSE Bit(x, n - s)
    BY <2>4, ReadPass
  <2>6. QED
    BY <2>1, <2>2, <2>3, <2>5
<1>10. /\ First' = First /\ End' = End /\ Closed' = Closed
       /\ \A n : DataBit(n)' <=> DataBit(n)
  BY <1>6 DEF First, End, Closed, DataBit, Positions
<1>11. BufferInv'
  BY <1>6 DEF BufferInv, InField
<1>12. 8 * (bit_no + 1) + s = End
  BY <1>2 DEF LocalsInv
<1>13. LocalsInv'
  BY <1>0, <1>2, <1>6, <1>9, <1>10, <1>12 DEF LocalsInv
<1>14. ASSUME NEW n \in 0..15, n >= s, n - s < 8 - offset
       PROVE  n - s \in v <=> DataBit(n)
  <2>1. PICK j \in 0..7 : j = n - s
    BY <1>8, <1>14
  <2>2. 8 * bit_no + 7 - j = End - 1 - n
    BY <1>0, <1>2, <1>4, <1>12, <2>1
  <2>3. j \in dst[bit_no] <=> DataBit(n)
    <3>1. n \in Int /\ bit_no < Bytes
      BY <1>0, <1>4
    <3>2. QED
      BY <2>2, <3>1, ByteData
  <2>4. QED
    BY <1>5, <2>1, <2>3
<1>15. CASE bit_no = First /\ val = 0
  <2>1. bits_remaining = field.size /\ offset = field.offset % 8
    BY <1>15 DEF LocalsInv
  <2>2. ASSUME NEW n \in 0..15
        PROVE  Bit(val', n) <=> n >= s /\ n < field.size /\ DataBit(n)
    <3>1. CASE n < s
      BY <1>9, <3>1
    <3>2. CASE n >= s /\ n - s < 8 - offset
      <4>1. n < field.size /\ n - s < bits_remaining
        BY <1>2, <1>8, <2>1, <3>2
      <4>2. QED
        BY <1>9, <1>14, <3>2, <4>1
    <3>3. CASE n >= s /\ n - s >= 8 - offset
      <4>1. ~(n < field.size)
        BY <1>2, <1>8, <2>1, <3>3
      <4>2. ~Bit(val, n - s)
        <5>1. n - s \in 0..23
          BY <1>2, <3>3
        <5>2. QED
          BY <1>15, <5>1, ZeroBits
      <4>3. QED
        BY <1>2, <1>8, <1>9, <3>3, <4>1, <4>2
    <3>4. QED
      BY <1>2, <1>8, <3>1, <3>2, <3>3
  <2>3. bit_no' = First' + 1 /\ bits_remaining' >= 1
    BY <1>2, <1>6, <1>10, <1>15
  <2>4. \A n \in 0..15 : Bit(val, n)' <=> n >= bits_remaining' /\ n < field.size' /\ DataBit(n)'
    BY <1>6, <1>10, <2>2 DEF Bit
  <2>5. Multiple(val', bits_remaining')
    BY <1>6, <1>9
  <2>6. ReadInv'
    BY <2>3, <2>4, <2>5 DEF ReadInv, Multiple, Two
  <2>7. QED
    BY <1>6, <1>11, <1>13, <2>6 DEF ReadLoop
<1>16. CASE /\ bit_no = First + 1 /\ bits_remaining >= 1
            /\ \A n \in 0..15 : Bit(val, n)
                  <=> n >= bits_remaining /\ n < field.size /\ DataBit(n)
  <2>1. offset = 0 /\ bits_remaining = field.size - (8 - (field.offset % 8))
    BY <1>0, <1>16 DEF LocalsInv
  <2>2. s = bits_remaining - 8 /\ bits_remaining > 8 /\ bits_remaining <= field.size
    BY <1>0, <1>2, <2>1
  <2>3. \A n \in 0..15 : n \in Closed <=>
                 \/ n < field.size /\ n < bits_remaining /\ DataBit(n)
                 \/ /\ bits_remaining + s <= n /\ n < field.size + s
                    /\ DataBit(n - s)
    BY <1>2, <2>1, <2>2, ClosedBits
  <2>4. ASSUME NEW n \in 0..15
        PROVE  Bit(val', n) <=> n >= s /\ n \in Closed
    <3>1. CASE n < s
      BY <1>9, <3>1
    <3>2. CASE n >= s /\ n - s < 8
      <4>1. n < field.size /\ n < bits_remaining /\ n - s < bits_remaining
            /\ ~(bits_remaining + s <= n)
        BY <1>0, <1>2, <2>2, <3>2
      <4>2. Bit(val', n) <=> n - s \in v
        BY <1>9, <2>1, <3>2, <4>1
      <4>3. n - s \in v <=> DataBit(n)
        BY <1>14, <2>1, <3>2
      <4>4. QED
        BY <2>3, <3>2, <4>1, <4>2, <4>3
    <3>3. CASE n >= s /\ n - s >= 8
      <4>1. ~(n < bits_remaining)
        BY <1>2, <2>2, <3>3
      <4>2. PICK i \in 0..15 : i = n - s
        BY <1>2, <3>3
      <4>3. bits_remaining + s <= n <=> i >= bits_remaining
        BY <1>2, <4>2
      <4>4. n < field.size + s <=> i < field.size
        BY <1>0, <1>2, <4>2
      <4>5. Bit(val, i) <=> i >= bits_remaining /\ i < field.size /\ DataBit(i)
        BY <1>16
      <4>6. Bit(val', n) <=> i >= bits_remaining /\ Bit(val, i)
        BY <1>2, <1>9, <2>1, <3>3, <4>2
      <4>7. QED
        BY <2>3, <3>3, <4>1, <4>2, <4>3, <4>4, <4>5, <4>6
    <3>4. QED
      BY <1>2, <3>1, <3>2, <3>3
  <2>5. bit_no' = First' + 2 /\ bits_remaining' >= 1
    BY <1>0, <1>2, <1>6, <1>10, <1>16
  <2>6. \A n \in 0..15 : Bit(val, n)' <=> n >= bits_remaining' /\ n \in Closed'
    BY <1>6, <1>10, <2>4 DEF Bit
  <2>7. Multiple(val', bits_remaining')
    BY <1>6, <1>9
  <2>8. ReadInv'
    BY <2>5, <2>6, <2>7 DEF ReadInv, Multiple, Two
  <2>9. QED
    BY <1>6, <1>11, <1>13, <2>8 DEF ReadLoop
<1>17. CASE bit_no = First + 2
  <2>1. offset = 0 /\ bits_remaining <= 8
    BY <1>0, <1>17 DEF LocalsInv
  <2>2. QED
    BY <1>2, <2>1
<1>18. QED
  BY <1>15, <1>16, <1>17 DEF ReadInv

\* The last pass returns the closed form.
LEMMA ReadTailStep ==
    ASSUME BufferInv, LocalsInv, ReadInv, ReadTail
    PROVE  WordOf(val') = Closed /\ BufferInv' /\ Closed' = Closed
<1>0. /\ field.offset \in Nat /\ field.size \in 0..16
      /\ First \in Nat /\ End \in Nat /\ End < 8 * Bytes /\ Bytes \in Nat
      /\ field.offset % 8 \in 0..7
      /\ 8 * First + (field.offset % 8) + field.size = End
  BY Frame
<1>1. PICK b \in 0..8, o \in 0..7, x \in INT16 :
         b = bits_remaining /\ o = offset /\ x = val /\ b + o <= 8
  BY DEF LocalsInv, ReadTail
<1>2. 2^(8 - b - o) = Two(8 - b - o) /\ 2^(8 - b) = Two(8 - b)
  BY DEF Two
<1>3. bit_no \in 0 .. Bytes - 1
  BY <1>0, <1>1 DEF LocalsInv
<1>4. PICK v \in SUBSET (0..7) : v = dst[bit_no]
  BY <1>3 DEF BufferInv, Buffer
<1>5. val' = Last(x, o, b, v) /\ UNCHANGED <<field, before, dst>> /\ pc' = "done"
  BY <1>1, <1>2, <1>4 DEF ReadTail, Last
<1>6. Multiple(x, b)
  BY <1>1 DEF ReadInv
<1>7. /\ Last(x, o, b, v) \in INT16
      /\ \A n \in 0..15 : Bit(Last(x, o, b, v), n) <=> IF n < b THEN n + 8 - b - o \in v
                                                                ELSE Bit(x, n)
  BY <1>1, <1>6, ReadLast
<1>8. 8 * bit_no + o + b = End
  BY <1>1 DEF LocalsInv
<1>9. ASSUME NEW n \in 0..15, n < b
      PROVE  n + 8 - b - o \in v <=> DataBit(n)
  <2>1. PICK j \in 0..7 : j = n + 8 - b - o
    BY <1>1, <1>9
  <2>2. 8 * bit_no + 7 - j = End - 1 - n
    BY <1>0, <1>3, <1>8, <2>1
  <2>3. n \in Int /\ bit_no < Bytes
    BY <1>0, <1>3
  <2>4. j \in dst[bit_no] <=> DataBit(n)
    BY <2>2, <2>3, ByteData
  <2>5. QED
    BY <1>4, <2>1, <2>4
<1>10. ASSUME NEW n \in 0..15
       PROVE  n \in Closed <=> IF n < b THEN DataBit(n) ELSE Bit(x, n)
  <2>1. PICK r \in Int : r = field.size - (8 - (field.offset % 8))
    <3>1. field.size \in Int /\ field.offset % 8 \in Int
      BY <1>0
    <3>2. QED
      BY ONLY <3>1
  <2>2. /\ r <= 8 => (n \in Closed <=> n < field.size /\ DataBit(n))
        /\ r > 8 => (n \in Closed <=>
                 \/ n < field.size /\ n < r /\ DataBit(n)
                 \/ /\ r + (r - 8) <= n /\ n < field.size + (r - 8)
                    /\ DataBit(n - (r - 8)))
    BY <2>1, ClosedBits
  <2>3. CASE bit_no = First /\ val = 0
    <3>1. b = field.size /\ o = field.offset % 8
      BY <1>1, <2>3 DEF LocalsInv
    <3>2. r <= 8
      BY <1>1, <2>1, <3>1
    <3>3. ~Bit(x, n)
      BY <1>1, <2>3, ZeroBits
    <3>4. QED
      BY <2>2, <3>1, <3>2, <3>3
  <2>4. CASE /\ bit_no = First + 1 /\ bits_remaining >= 1
             /\ \A i \in 0..15 : Bit(val, i)
                   <=> i >= bits_remaining /\ i < field.size /\ DataBit(i)
    <3>1. o = 0 /\ b = r /\ b <= field.size
      BY <1>0, <1>1, <1>8, <2>1, <2>4 DEF LocalsInv
    <3>2. Bit(x, n) <=> n >= b /\ n < field.size /\ DataBit(n)
      BY <1>1, <2>4
    <3>3. QED
      BY <1>0, <1>1, <2>2, <3>1, <3>2
  <2>5. CASE /\ bit_no = First + 2 /\ bits_remaining >= 1
             /\ \A i \in 0..15 : Bit(val, i) <=> i >= bits_remaining /\ i \in Closed
    <3>0. o = 0
      BY <1>0, <1>1, <2>5 DEF LocalsInv
    <3>1. o = 0 /\ b = r - 8 /\ b >= 1 /\ b < field.size
      BY <1>0, <1>1, <1>8, <2>1, <2>5, <3>0
    <3>2. Bit(x, n) <=> n >= b /\ n \in Closed
      BY <1>1, <2>5
    <3>3. n < b => (n \in Closed <=> DataBit(n))
      BY <1>0, <1>1, <2>2, <3>1
    <3>4. QED
      BY <1>1, <3>2, <3>3
  <2>6. QED
    BY <2>3, <2>4, <2>5 DEF ReadInv
<1>11. Closed \subseteq 0..15
  <2>1. PICK r \in Int : r = field.size - (8 - (field.offset % 8))
    <3>1. field.size \in Int /\ field.offset % 8 \in Int
      BY <1>0
    <3>2. QED
      BY ONLY <3>1
  <2>2. QED
    BY <2>1, ClosedBits
<1>12. \A n \in 0..15 : Bit(val', n) <=> n \in Closed
  BY <1>5, <1>7, <1>9, <1>10
<1>13. WordOf(val') = Closed
  BY <1>11, <1>12 DEF WordOf
<1>14. BufferInv' /\ Closed' = Closed
  BY <1>5 DEF BufferInv, InField, Closed, Positions
<1>15. QED
  BY <1>13, <1>14

-----------------------------------------------------------------------------
(* The theorems.                                                           *)

WriteEnd == Positions(dst) = write_bit_value(before, field.offset,
                                             WordOf(field.val), field.size)

LoopInv ==
    /\ BufferInv
    /\ pc = "write" => LocalsInv /\ WriteInv
    /\ pc # "write" => WriteEnd
    /\ pc = "read" => LocalsInv /\ ReadInv
    /\ pc = "done" => WordOf(val) = Closed

LEMMA InitLoop == Init => LoopInv
<1> SUFFICES ASSUME Init PROVE LoopInv
  OBVIOUS
<1>1. field.offset \in Offsets /\ field.val \in Values /\ field.size \in Sizes
  BY DEF Init
<1>2. PICK c \in Contents : before = c \ (field.offset .. field.offset + field.size - 1)
  BY DEF Init, Surroundings
<1>3. before \subseteq 0 .. 8 * Bytes - 1 /\ before \cap InField = {}
  BY <1>2, BitLoopsAssumption DEF BitLoopsAssumption, InField
<1>4. dst = [k \in 0 .. Bytes - 1 |-> byte_at(before, k)]
  BY DEF Init
<1>5. dst \in Buffer
  BY <1>4 DEF Buffer, byte_at
<1>6. BufferInv
  BY <1>1, <1>3, <1>5 DEF BufferInv, Init
<1>7. /\ field.offset \in Nat /\ field.size \in 0..16 /\ field.val \in INT16
      /\ First \in Nat /\ End \in Nat /\ Bytes \in Nat
      /\ field.offset % 8 \in 0..7
      /\ 8 * First + (field.offset % 8) + field.size = End
  BY <1>6, Frame
<1>8. LocalsInv
  BY <1>7 DEF Init, LocalsInv, First
<1>9. Positions(dst) = before
  <2>1. ASSUME NEW p \in Positions(dst)
        PROVE  p \in before
    <3>1. PICK k \in 0 .. Bytes - 1 : p \in byte(k, dst[k])
      BY <1>5 DEF Positions, Buffer
    <3>2. PICK j \in dst[k] : p = 8 * k + 7 - j
      BY <3>1 DEF byte
    <3>3. QED
      BY <1>4, <3>2 DEF byte_at
  <2>2. ASSUME NEW p \in before
        PROVE  p \in Positions(dst)
    <3>1. PICK n \in Nat : n = p /\ n < 8 * Bytes
      BY <1>3, <1>7
    <3>2. PICK k \in Nat, m \in 0..7 : n = 8 * k + m
      <4>1. n = 8 * (n \div 8) + (n % 8) /\ n \div 8 \in Nat /\ n % 8 \in 0..7
        OBVIOUS
      <4>2. QED
        BY <4>1
    <3>3. PICK j \in 0..7 : j = 7 - m
      OBVIOUS
    <3>4. k \in 0 .. Bytes - 1 /\ 8 * k + 7 - j = n
      BY <1>7, <3>1, <3>2, <3>3
    <3>5. j \in dst[k]
      BY <1>4, <2>2, <3>1, <3>4 DEF byte_at
    <3>6. 8 * k + 7 - j \in Positions(dst)
      BY <1>5, <3>4, <3>5, PositionOf
    <3>7. QED
      BY <3>1, <3>4, <3>6
  <2>3. QED
    BY <2>1, <2>2
<1>10. bit_no = First /\ val = field.val /\ offset = field.offset % 8
       /\ bits_remaining = field.size /\ pc = "write"
  BY DEF Init, First
<1>11. WriteInv
  <2>1. 8 * First .. 8 * bit_no - 1 = {}
    BY <1>7, <1>10
  <2>2. Positions(dst) = Written(bit_no)
    BY <1>9, <2>1 DEF Written
  <2>3. ASSUME NEW n \in 0 .. offset + bits_remaining - 1
        PROVE  Bit(val, n) <=> ValueBit(n)
    <3>1. n \in 0..23
      BY <1>7, <1>10
    <3>2. Bit(field.val, n) <=> PromotedBit(WordOf(field.val), n)
      BY <1>7, <3>1, BitsOfWord
    <3>3. QED
      BY <1>10, <3>2 DEF ValueBit
  <2>4. QED
    BY <2>2, <2>3 DEF WriteInv
<1>12. QED
  BY <1>6, <1>8, <1>10, <1>11 DEF LoopInv

LEMMA StepLoop == LoopInv /\ [Next]_vars => LoopInv'
<1> SUFFICES ASSUME LoopInv, [Next]_vars PROVE LoopInv'
  OBVIOUS
<1>1. CASE WriteLoop
  <2>1. pc = "write"
    BY <1>1 DEF WriteLoop
  <2>2. BufferInv' /\ LocalsInv' /\ WriteInv' /\ pc' = "write"
    BY <1>1, <2>1, WriteLoopStep DEF LoopInv
  <2>3. QED
    BY <2>2 DEF LoopInv
<1>2. CASE WriteTail
  <2>1. pc = "write" /\ pc' = "read" /\ UNCHANGED <<field, before>> /\ val' = 0
        /\ bit_no' = field.offset \div 8 /\ offset' = field.offset % 8
        /\ bits_remaining' = field.size /\ available_bits' = 8 - (field.offset % 8)
    BY <1>2 DEF WriteTail, Enter
  <2>2. BufferInv /\ LocalsInv /\ WriteInv
    BY <2>1 DEF LoopInv
  <2>3. /\ Positions(dst') = write_bit_value(before, field.offset,
                                             WordOf(field.val), field.size)
        /\ dst' \in Buffer
    BY <1>2, <2>2, WriteTailStep
  <2>4. BufferInv'
    BY <2>1, <2>2, <2>3 DEF BufferInv, InField
  <2>5. /\ field.offset \in Nat /\ field.size \in 0..16
        /\ First \in Nat /\ End \in Nat
        /\ field.offset % 8 \in 0..7
        /\ 8 * First + (field.offset % 8) + field.size = End
    BY <2>2, Frame
  <2>6. First' = First /\ End' = End
    BY <2>1 DEF First, End
  <2>7. LocalsInv'
    BY <2>1, <2>5, <2>6 DEF LocalsInv, First, INT16
  <2>8. Multiple(0, field.size)
    <3>1. PICK m \in Nat : m = Two(field.size)
      BY <2>5, TwoType
    <3>2. 0 = 0 * m
      OBVIOUS
    <3>3. QED
      BY <3>1, <3>2 DEF Multiple
  <2>9. ReadInv'
    <3>1. Multiple(val, bits_remaining)'
      BY <2>1, <2>8 DEF Multiple, Two
    <3>2. (bit_no = First /\ val = 0)'
      BY <2>1, <2>6 DEF First
    <3>3. QED
      BY <3>1, <3>2 DEF ReadInv
  <2>10. WriteEnd'
    BY <2>1, <2>3 DEF WriteEnd, Positions, WordOf, Bit
  <2>11. QED
    BY <2>1, <2>4, <2>7, <2>9, <2>10 DEF LoopInv
<1>3. CASE ReadLoop
  <2>1. pc = "read" /\ UNCHANGED <<field, before, dst>>
    BY <1>3 DEF ReadLoop
  <2>2. BufferInv' /\ LocalsInv' /\ ReadInv' /\ pc' = "read"
    BY <1>3, <2>1, ReadLoopStep DEF LoopInv
  <2>3. WriteEnd'
    BY <2>1 DEF LoopInv, WriteEnd, Positions
  <2>4. QED
    BY <2>2, <2>3 DEF LoopInv
<1>4. CASE ReadTail
  <2>1. pc = "read" /\ pc' = "done" /\ UNCHANGED <<field, before, dst>>
    BY <1>4 DEF ReadTail
  <2>2. WordOf(val') = Closed /\ BufferInv' /\ Closed' = Closed
    BY <1>4, <2>1, ReadTailStep DEF LoopInv
  <2>3. WriteEnd'
    BY <2>1 DEF LoopInv, WriteEnd, Positions
  <2>4. WordOf(val)' = WordOf(val')
    BY DEF WordOf, Bit
  <2>5. QED
    BY <2>1, <2>2, <2>3, <2>4 DEF LoopInv
<1>5. CASE UNCHANGED vars
  BY <1>5 DEF vars, LoopInv, BufferInv, InField, LocalsInv, WriteInv, WriteEnd, ReadInv,
              Closed, First, End, Written, ValueBit, DataBit, Multiple, Positions,
              WordOf, Bit, Two
<1>6. QED
  BY <1>1, <1>2, <1>3, <1>4, <1>5 DEF Next

LEMMA LoopInvHolds == Spec => []LoopInv
BY InitLoop, StepLoop, PTL DEF Spec

\* For every offset, width, value and content of the buffer, the loop of
\* write_bit_value sets the bits of the closed form: a field in up to three bytes,
\* a value wider than its field and a negative one included.
THEOREM WriteClosedFormHolds == Spec => []WriteClosedForm
<1>1. LoopInv => WriteClosedForm
  BY DEF LoopInv, WriteEnd, WriteClosedForm
<1>2. QED
  BY <1>1, LoopInvHolds, PTL

\* For every content of the field and of its neighbours, the loop of
\* read_bit_value returns the closed form.
THEOREM ReadClosedFormHolds == Spec => []ReadClosedForm
<1>1. LoopInv => ReadClosedForm
  BY DEF LoopInv, Closed, ReadClosedForm
<1>2. QED
  BY <1>1, LoopInvHolds, PTL

\* What the loops write they read back, and they leave the neighbours alone, for
\* every field of at most two bytes that holds a value of its width.
THEOREM FieldRoundTripHolds == Spec => []FieldRoundTrip
<1>1. ASSUME LoopInv, pc = "done",
             WordOf(field.val) \subseteq 0 .. field.size - 1,
             (field.offset % 8) + field.size <= 16
      PROVE  /\ WordOf(val) = WordOf(field.val)
             /\ Positions(dst) \ (field.offset .. field.offset + field.size - 1) = before
  <2>1. /\ field.offset \in Nat /\ field.size \in 0..16
        /\ before \in SUBSET Nat /\ before \cap InField = {}
    <3>1. BufferInv
      BY <1>1 DEF LoopInv
    <3>2. QED
      BY <3>1, Frame DEF BufferInv
  <2>2. WordOf(field.val) \in SUBSET (0 .. field.size - 1)
    BY <1>1
  <2>3. PICK w : w = WordOf(field.val)
    OBVIOUS
  <2>4. PICK buf : buf = write_bit_value(before, field.offset, w, field.size)
    OBVIOUS
  <2>5. Positions(dst) = buf
    BY <1>1, <2>3, <2>4 DEF LoopInv, WriteEnd
  <2>6. read_bit_value(buf, field.offset, field.size) = w
    BY <1>1, <2>1, <2>2, <2>3, <2>4, RoundTrip DEF InField
  <2>7. \A p : p \notin field.offset .. field.offset + field.size - 1
                 => (p \in buf <=> p \in before)
    BY <1>1, <2>1, <2>2, <2>3, <2>4, NeighboursKept
  <2>8. WordOf(val) = w
    BY <1>1, <2>5, <2>6 DEF LoopInv, Closed
  <2>9. QED
    BY <2>1, <2>3, <2>5, <2>7, <2>8 DEF InField
<1>2. LoopInv => FieldRoundTrip
  BY <1>1 DEF FieldRoundTrip
<1>3. QED
  BY <1>2, LoopInvHolds, PTL

=============================================================================
