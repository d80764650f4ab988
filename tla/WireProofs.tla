----------------------------- MODULE WireProofs -----------------------------
(***************************************************************************)
(* Proofs about what is on the wire: numbers, routes, frames and their     *)
(* parsers, for every value, every payload and every way to cut it into    *)
(* pieces; and what of Wire, BlockPlan and Calls rests on them.            *)
(***************************************************************************)
EXTENDS Calls, SequenceTheorems, TLAPS

(***************************************************************************)
(* Digits and octets.                                                      *)
(***************************************************************************)

\* A hexadecimal digit is read as the number it was written for.
LEMMA DigitOf ==
    ASSUME NEW k \in 0 .. 15
    PROVE  /\ HexDigits[k + 1] \in HexDigit
           /\ DigitValue[HexDigits[k + 1]] = k
<1>1. HexDigits[k + 1] \in HexDigit
  BY DEF HexDigit
<1>2. \A v \in 0 .. 15 : HexDigits[v + 1] = HexDigits[k + 1] => v = k
  BY DEF HexDigits
<1>3. DigitValue[HexDigits[k + 1]] = CHOOSE v \in 0 .. 15 : HexDigits[v + 1] = HexDigits[k + 1]
  BY <1>1 DEF DigitValue
<1> QED
  BY <1>1, <1>2, <1>3

\* The powers a number of one or two octets, or of two or four digits, is made of.
LEMMA Places ==
    /\ 256 ^ (1 - 1) = 1 /\ 256 ^ (2 - 1) = 256
    /\ 16 ^ (2 - 1) = 16 /\ 16 ^ (2 - 2) = 1
    /\ 16 ^ (4 - 1) = 4096 /\ 16 ^ (4 - 2) = 256 /\ 16 ^ (4 - 3) = 16 /\ 16 ^ (4 - 4) = 1
OBVIOUS

\* A number is its octets ...
LEMMA ByOctet ==
    ASSUME NEW v \in Nat
    PROVE  /\ v \div 256 \in Nat /\ v % 256 \in 0 .. 255
           /\ v = 256 * (v \div 256) + (v % 256)
<1>1. v \div 256 \in Int
  OBVIOUS
<1>2. v % 256 \in 0 .. 255
  OBVIOUS
<1>3. v = 256 * (v \div 256) + (v % 256)
  OBVIOUS
<1> DEFINE q == v \div 256
           r == v % 256
<1> HIDE DEF q, r
<1> QED
  BY <1>1, <1>2, <1>3 DEF q, r

\* ... and its nibbles.
LEMMA ByNibble ==
    ASSUME NEW v \in Nat
    PROVE  /\ v \div 16 \in Nat /\ v % 16 \in 0 .. 15
           /\ v = 16 * (v \div 16) + (v % 16)
<1>1. v \div 16 \in Int
  OBVIOUS
<1>2. v % 16 \in 0 .. 15
  OBVIOUS
<1>3. v = 16 * (v \div 16) + (v % 16)
  OBVIOUS
<1> DEFINE q == v \div 16
           r == v % 16
<1>4. q \in Int /\ r \in 0 .. 15 /\ v = 16 * q + r
  BY <1>1, <1>2, <1>3
<1> HIDE DEF q, r
<1>5. q \in Nat
  BY <1>4
<1> QED
  BY <1>4, <1>5 DEF q, r

\* The lowest place.
LEMMA One == ASSUME NEW v \in Nat PROVE v \div 1 = v
OBVIOUS

\* What is already within a place.
LEMMA Small ==
   ASSUME NEW v \in Nat
   PROVE (v <= 255 => v % 256 = v) /\ (v <= 15 => v % 16 = v)
OBVIOUS

\* Places within places.
LEMMA Nests ==
   ASSUME NEW v \in Nat
   PROVE v \div 256 = (v \div 16) \div 16 /\ v \div 4096 = (v \div 256) \div 16
OBVIOUS

\* A word is its two octets.
LEMMA TwoOctets ==
    ASSUME NEW v \in Nat, v < 65536
    PROVE  /\ v % 256 \in 0 .. 255 /\ v \div 256 \in 0 .. 255
           /\ (v \div 1) % 256 = v % 256 /\ (v \div 256) % 256 = v \div 256
           /\ (v \div 256) * 256 + (v % 256) = v
<1> DEFINE q == v \div 256
           r == v % 256
<1>1. q \in Nat /\ r \in 0 .. 255 /\ v = 256 * q + r
  BY ByOctet
<1>2. v \div 1 = v
  BY One
<1> HIDE DEF q, r
<1>3. q \in 0 .. 255 /\ q * 256 + r = v
  BY <1>1
<1>4. q % 256 = q
  BY <1>3, Small
<1> QED
  BY <1>1, <1>2, <1>3, <1>4 DEF q, r

\* An octet is its two nibbles.
LEMMA Nibbles2 ==
    ASSUME NEW v \in Nat, v < 256
    PROVE  /\ v % 16 \in 0 .. 15 /\ v \div 16 \in 0 .. 15
           /\ v \div 1 = v /\ (v \div 16) % 16 = v \div 16
           /\ (v \div 16) * 16 + (v % 16) = v
<1> DEFINE q == v \div 16
           r == v % 16
<1>1. q \in Nat /\ r \in 0 .. 15 /\ v = 16 * q + r
  BY ByNibble
<1>2. v \div 1 = v
  BY One
<1> HIDE DEF q, r
<1>3. q \in 0 .. 15 /\ q * 16 + r = v
  BY <1>1
<1>4. q % 16 = q
  BY <1>3, Small
<1> QED
  BY <1>1, <1>2, <1>3, <1>4 DEF q, r

\* A word is its four nibbles.
LEMMA Nibbles4 ==
    ASSUME NEW v \in Nat, v < 65536
    PROVE  /\ v % 16 \in 0 .. 15 /\ (v \div 16) % 16 \in 0 .. 15
           /\ (v \div 256) % 16 \in 0 .. 15 /\ v \div 4096 \in 0 .. 15
           /\ v \div 1 = v /\ (v \div 4096) % 16 = v \div 4096
           /\ (((v \div 4096) * 16 + ((v \div 256) % 16)) * 16 + ((v \div 16) % 16)) * 16
                + (v % 16) = v
<1> DEFINE a == v \div 16
           b == v \div 256
           d == v \div 4096
           r0 == v % 16
           r1 == a % 16
           r2 == b % 16
<1>1. v \div 1 = v /\ b = a \div 16 /\ d = b \div 16
  BY One, Nests
<1>2. a \in Nat /\ r0 \in 0 .. 15 /\ v = 16 * a + r0
  BY ByNibble
<1>3. b \in Nat /\ r1 \in 0 .. 15 /\ a = 16 * b + r1
  BY <1>1, <1>2, ByNibble
<1>4. d \in Nat /\ r2 \in 0 .. 15 /\ b = 16 * d + r2
  BY <1>1, <1>3, ByNibble
<1> HIDE DEF a, b, d, r0, r1, r2
<1>5. d \in 0 .. 15 /\ ((d * 16 + r2) * 16 + r1) * 16 + r0 = v
  BY <1>2, <1>3, <1>4
<1>6. d % 16 = d
  BY <1>5, Small
<1> QED
  BY <1>1, <1>2, <1>3, <1>4, <1>5, <1>6 DEF a, b, d, r0, r1, r2

\* BinaryCodec.number of a word ...
LEMMA LittleEndian2 ==
    ASSUME NEW v \in Nat, v < 65536
    PROVE  LittleEndian(v, 2) = <<v % 256, v \div 256>>
<1> DEFINE e == LittleEndian(v, 2)
<1>1. e[1] = (v \div 1) % 256 /\ e[2] = (v \div 256) % 256
  BY Places DEF LittleEndian
<1>2. (v \div 1) % 256 = v % 256 /\ (v \div 256) % 256 = v \div 256
  BY TwoOctets
<1>3. e = [i \in 1 .. 2 |-> e[i]]
  BY DEF LittleEndian
<1> HIDE DEF e
<1> QED
  BY <1>1, <1>2, <1>3 DEF e

\* ... and BinaryCodec.read_number of one.
LEMMA FromLittleEndian2 ==
    ASSUME NEW raw, raw = <<raw[1], raw[2]>>, raw[1] \in Int, raw[2] \in Int
    PROVE  FromLittleEndian(raw) = raw[2] * 256 + raw[1]
<1> DEFINE Unrolls(g) == g = [i \in 1 .. Len(raw) + 1 |->
                            IF i > Len(raw) THEN 0 ELSE g[i + 1] * 256 + raw[i]]
           from == CHOOSE g : Unrolls(g)
           w == [i \in 1 .. 3 |-> IF i = 1 THEN raw[2] * 256 + raw[1]
                                  ELSE IF i = 2 THEN raw[2] ELSE 0]
<1>1. Len(raw) = 2
  OBVIOUS
<1>2. Unrolls(w)
  BY <1>1
<1>3. Unrolls(from)
  BY <1>2
<1>4. FromLittleEndian(raw) = from[1]
  BY DEF FromLittleEndian
<1> HIDE DEF from
<1>5. \A i \in 1 .. 3 : from[i] = IF i > 2 THEN 0 ELSE from[i + 1] * 256 + raw[i]
  BY <1>1, <1>3
<1>6. from[3] = 0 /\ from[2] = from[2 + 1] * 256 + raw[2] /\ from[1] = from[1 + 1] * 256 + raw[1]
  BY <1>5
<1> QED
  BY <1>4, <1>6

\* An octet is its own coding.
LEMMA LittleEndian1 ==
    ASSUME NEW v \in Nat, v < 256
    PROVE  LittleEndian(v, 1) = <<v>> /\ FromLittleEndian(<<v>>) = v
<1> DEFINE raw == <<v>>
           Unrolls(g) == g = [i \in 1 .. Len(raw) + 1 |->
                            IF i > Len(raw) THEN 0 ELSE g[i + 1] * 256 + raw[i]]
           from == CHOOSE g : Unrolls(g)
           w == [i \in 1 .. 2 |-> IF i = 1 THEN v ELSE 0]
<1>1. LittleEndian(v, 1) = <<v>>
  <2> DEFINE e == LittleEndian(v, 1)
  <2>1. e[1] = (v \div 1) % 256
    BY Places DEF LittleEndian
  <2>2. (v \div 1) % 256 = v
    OBVIOUS
  <2>3. e = [i \in 1 .. 1 |-> e[i]]
    BY DEF LittleEndian
  <2> HIDE DEF e
  <2> QED
    BY <2>1, <2>2, <2>3 DEF e
<1>2. Len(raw) = 1 /\ raw[1] = v
  OBVIOUS
<1>3. Unrolls(w)
  BY <1>2
<1>4. Unrolls(from)
  BY <1>3
<1>5. FromLittleEndian(raw) = from[1]
  BY DEF FromLittleEndian
<1> HIDE DEF from, raw
<1>6. \A i \in 1 .. 2 : from[i] = IF i > 1 THEN 0 ELSE from[i + 1] * 256 + raw[i]
  BY <1>2, <1>4
<1>7. from[2] = 0 /\ from[1] = from[1 + 1] * 256 + raw[1]
  BY <1>6
<1> QED
  BY <1>1, <1>2, <1>5, <1>7 DEF raw

\* AsciiCodec.number of an octet ...
LEMMA Digits2 ==
    ASSUME NEW v \in Nat, v < 256
    PROVE  Digits(v, 2, 16) = <<HexDigits[1 + (v \div 16)], HexDigits[1 + (v % 16)]>>
<1> DEFINE e == Digits(v, 2, 16)
<1>1. e[1] = HexDigits[1 + ((v \div 16) % 16)] /\ e[2] = HexDigits[1 + ((v \div 1) % 16)]
  BY Places DEF Digits
<1>2. (v \div 16) % 16 = v \div 16 /\ v \div 1 = v
  BY Nibbles2
<1>3. e = [i \in 1 .. 2 |-> e[i]]
  BY DEF Digits
<1> HIDE DEF e
<1> QED
  BY <1>1, <1>2, <1>3 DEF e

\* ... and of a word.
LEMMA Digits4 ==
    ASSUME NEW v \in Nat, v < 65536
    PROVE  Digits(v, 4, 16) = <<HexDigits[1 + (v \div 4096)], HexDigits[1 + ((v \div 256) % 16)],
                                HexDigits[1 + ((v \div 16) % 16)], HexDigits[1 + (v % 16)]>>
<1> DEFINE e == Digits(v, 4, 16)
<1>1. /\ e[1] = HexDigits[1 + ((v \div 4096) % 16)] /\ e[2] = HexDigits[1 + ((v \div 256) % 16)]
      /\ e[3] = HexDigits[1 + ((v \div 16) % 16)] /\ e[4] = HexDigits[1 + ((v \div 1) % 16)]
  BY Places DEF Digits
<1>2. (v \div 4096) % 16 = v \div 4096 /\ v \div 1 = v
  BY Nibbles4
<1>3. e = [i \in 1 .. 4 |-> e[i]]
  BY DEF Digits
<1> HIDE DEF e
<1> QED
  BY <1>1, <1>2, <1>3 DEF e

\* AsciiCodec.read_number of two digits ...
LEMMA FromDigits2 ==
    ASSUME NEW raw, raw = <<raw[1], raw[2]>>,
           DigitValue[raw[1]] \in Int, DigitValue[raw[2]] \in Int
    PROVE  FromDigits(raw, 16) = DigitValue[raw[1]] * 16 + DigitValue[raw[2]]
<1> DEFINE d(i) == DigitValue[raw[i]]
           Unrolls(g) == g = [i \in 0 .. Len(raw) |-> IF i = 0 THEN 0 ELSE g[i - 1] * 16 + d(i)]
           upto == CHOOSE g : Unrolls(g)
           w == [i \in 0 .. 2 |-> IF i = 0 THEN 0 ELSE IF i = 1 THEN d(1) ELSE d(1) * 16 + d(2)]
<1>1. Len(raw) = 2
  OBVIOUS
<1>4. FromDigits(raw, 16) = upto[2]
  BY <1>1 DEF FromDigits
<1>0. d(1) \in Int /\ d(2) \in Int
  OBVIOUS
<1> HIDE DEF d
<1>2. Unrolls(w)
  BY <1>0, <1>1
<1>3. Unrolls(upto)
  BY <1>2
<1> HIDE DEF upto
<1>5. \A i \in 0 .. 2 : upto[i] = IF i = 0 THEN 0 ELSE upto[i - 1] * 16 + d(i)
  BY <1>1, <1>3
<1>6. upto[0] = 0 /\ upto[1] = upto[1 - 1] * 16 + d(1) /\ upto[2] = upto[2 - 1] * 16 + d(2)
  BY <1>5
<1>7. upto[2] = d(1) * 16 + d(2)
  BY <1>0, <1>6
<1> QED
  BY <1>4, <1>7 DEF d

\* ... and of four.
LEMMA FromDigits4 ==
    ASSUME NEW raw, raw = <<raw[1], raw[2], raw[3], raw[4]>>,
           \A i \in 1 .. 4 : DigitValue[raw[i]] \in Int
    PROVE  FromDigits(raw, 16) = ((DigitValue[raw[1]] * 16 + DigitValue[raw[2]]) * 16
                                  + DigitValue[raw[3]]) * 16 + DigitValue[raw[4]]
<1> DEFINE d(i) == DigitValue[raw[i]]
           Unrolls(g) == g = [i \in 0 .. Len(raw) |-> IF i = 0 THEN 0 ELSE g[i - 1] * 16 + d(i)]
           upto == CHOOSE g : Unrolls(g)
           w == [i \in 0 .. 4 |-> IF i = 0 THEN 0 ELSE IF i = 1 THEN d(1) ELSE
                                  IF i = 2 THEN d(1) * 16 + d(2) ELSE
                                  IF i = 3 THEN (d(1) * 16 + d(2)) * 16 + d(3) ELSE
                                  ((d(1) * 16 + d(2)) * 16 + d(3)) * 16 + d(4)]
<1>1. Len(raw) = 4
  OBVIOUS
<1>4. FromDigits(raw, 16) = upto[4]
  BY <1>1 DEF FromDigits
<1>0. d(1) \in Int /\ d(2) \in Int /\ d(3) \in Int /\ d(4) \in Int
  OBVIOUS
<1> HIDE DEF d
<1>2. Unrolls(w)
  BY <1>0, <1>1
<1>3. Unrolls(upto)
  BY <1>2
<1> HIDE DEF upto
<1>5. \A i \in 0 .. 4 : upto[i] = IF i = 0 THEN 0 ELSE upto[i - 1] * 16 + d(i)
  BY <1>1, <1>3
<1>6. /\ upto[0] = 0 /\ upto[1] = upto[1 - 1] * 16 + d(1) /\ upto[2] = upto[2 - 1] * 16 + d(2)
      /\ upto[3] = upto[3 - 1] * 16 + d(3) /\ upto[4] = upto[4 - 1] * 16 + d(4)
  BY <1>5
<1>7. upto[4] = ((d(1) * 16 + d(2)) * 16 + d(3)) * 16 + d(4)
  BY <1>0, <1>6
<1> QED
  BY <1>4, <1>7 DEF d

(***************************************************************************)
(* Numeric fields, and where they are.                                     *)
(***************************************************************************)

\* The units of a coding.
Unit(c) == IF c = "binary" THEN 0 .. 255 ELSE HexDigit

\* A number keeps its value through its field, in either coding: as many units as
\* the field has, each one of the coding's own, and read back it is itself
\* (pack_uint and unpack_uint of wire/codec.py).
LEMMA NumbersSurvive ==
    ASSUME NEW c \in Codecs, NEW bits \in {8, 16}, NEW v \in Nat, v < Values(bits)
    PROVE  /\ NumberLen(c, bits) \in Nat \ {0}
           /\ Number(c, v, bits) \in Seq(Unit(c))
           /\ Len(Number(c, v, bits)) = NumberLen(c, bits)
           /\ Legible(c, Number(c, v, bits))
           /\ Raw2Number(c, Number(c, v, bits)) = v
<1> DEFINE n == Number(c, v, bits)
<1>0. 8 \div 8 = 1 /\ 16 \div 8 = 2 /\ 8 \div 4 = 2 /\ 16 \div 4 = 4
  OBVIOUS
<1>1. CASE c = "binary" /\ bits = 8
  <2>1. v < 256
    BY <1>1 DEF Values
  <2>2. n = <<v>>
    BY <1>0, <1>1, <2>1, LittleEndian1 DEF Number
  <2>3. FromLittleEndian(<<v>>) = v
    BY <2>1, LittleEndian1
  <2> HIDE DEF n
  <2>5. v \in Unit(c)
    BY <1>1, <2>1 DEF Unit
  <2>4. n \in Seq(Unit(c)) /\ Len(n) = 1
    BY <2>2, <2>5
  <2> QED
    BY <1>0, <1>1, <2>2, <2>3, <2>4 DEF NumberLen, Width, Legible, Raw2Number, n
<1>2. CASE c = "binary" /\ bits = 16
  <2>1. v < 65536
    BY <1>2 DEF Values
  <2> DEFINE lo == v % 256
             hi == v \div 256
  <2>2. n = <<lo, hi>>
    BY <1>0, <1>2, <2>1, LittleEndian2 DEF Number
  <2>3. lo \in 0 .. 255 /\ hi \in 0 .. 255 /\ hi * 256 + lo = v
    BY <2>1, TwoOctets
  <2> HIDE DEF lo, hi, n
  <2>4. n = <<n[1], n[2]>> /\ n[1] = lo /\ n[2] = hi
    BY <2>2
  <2>5. FromLittleEndian(n) = v
    BY <2>3, <2>4, FromLittleEndian2
  <2>6. n \in Seq(Unit(c)) /\ Len(n) = 2
    BY <1>2, <2>2, <2>3 DEF Unit
  <2> QED
    BY <1>0, <1>2, <2>5, <2>6 DEF NumberLen, Width, Legible, Raw2Number, n
<1>3. CASE c = "ascii" /\ bits = 8
  <2>1. v < 256
    BY <1>3 DEF Values
  <2> DEFINE x == v \div 16
             y == v % 16
  <2>2. n = <<HexDigits[1 + x], HexDigits[1 + y]>>
    BY <1>0, <1>3, <2>1, Digits2 DEF Number
  <2>3. x \in 0 .. 15 /\ y \in 0 .. 15 /\ x * 16 + y = v
    BY <2>1, Nibbles2
  <2> HIDE DEF x, y, n
  <2>4. /\ HexDigits[1 + x] \in HexDigit /\ DigitValue[HexDigits[1 + x]] = x
        /\ HexDigits[1 + y] \in HexDigit /\ DigitValue[HexDigits[1 + y]] = y
    <3>1. 1 + x = x + 1 /\ 1 + y = y + 1
      BY <2>3
    <3> QED
      BY <2>3, <3>1, DigitOf
  <2>5. n = <<n[1], n[2]>> /\ n[1] = HexDigits[1 + x] /\ n[2] = HexDigits[1 + y]
    BY <2>2
  <2>6. FromDigits(n, 16) = v
    <3>1. DigitValue[n[1]] = x /\ DigitValue[n[2]] = y /\ x \in Int /\ y \in Int
      BY <2>3, <2>4, <2>5
    <3>2. FromDigits(n, 16) = DigitValue[n[1]] * 16 + DigitValue[n[2]]
      BY <2>5, <3>1, FromDigits2
    <3> QED
      BY <2>3, <3>1, <3>2
  <2>7. n \in Seq(Unit(c)) /\ Len(n) = 2 /\ n \in Seq(HexDigit)
    BY <1>3, <2>2, <2>4 DEF Unit
  <2>8. Legible(c, n)
    BY <2>7, RangeOfSeq DEF Legible
  <2> QED
    BY <1>0, <1>3, <2>6, <2>7, <2>8 DEF NumberLen, Width, Raw2Number, n
<1>4. CASE c = "ascii" /\ bits = 16
  <2>1. v < 65536
    BY <1>4 DEF Values
  <2> DEFINE x3 == v \div 4096
             x2 == (v \div 256) % 16
             x1 == (v \div 16) % 16
             x0 == v % 16
  <2>2. n = <<HexDigits[1 + x3], HexDigits[1 + x2], HexDigits[1 + x1], HexDigits[1 + x0]>>
    BY <1>0, <1>4, <2>1, Digits4 DEF Number
  <2>3. /\ x3 \in 0 .. 15 /\ x2 \in 0 .. 15 /\ x1 \in 0 .. 15 /\ x0 \in 0 .. 15
        /\ ((x3 * 16 + x2) * 16 + x1) * 16 + x0 = v
    BY <2>1, Nibbles4
  <2> HIDE DEF x3, x2, x1, x0, n
  <2>4. ASSUME NEW x \in 0 .. 15
        PROVE  HexDigits[1 + x] \in HexDigit /\ DigitValue[HexDigits[1 + x]] = x
    <3>1. 1 + x = x + 1
      OBVIOUS
    <3> QED
      BY <3>1, DigitOf
  <2>5. /\ n = <<n[1], n[2], n[3], n[4]>>
        /\ n[1] = HexDigits[1 + x3] /\ n[2] = HexDigits[1 + x2]
        /\ n[3] = HexDigits[1 + x1] /\ n[4] = HexDigits[1 + x0]
    BY <2>2
  <2>6. FromDigits(n, 16) = v
    <3>1. /\ DigitValue[n[1]] = x3 /\ DigitValue[n[2]] = x2
          /\ DigitValue[n[3]] = x1 /\ DigitValue[n[4]] = x0
          /\ x3 \in Int /\ x2 \in Int /\ x1 \in Int /\ x0 \in Int
      BY <2>3, <2>4, <2>5
    <3>2. \A i \in 1 .. 4 : DigitValue[n[i]] \in Int
      BY <3>1
    <3>3. FromDigits(n, 16) = ((DigitValue[n[1]] * 16 + DigitValue[n[2]]) * 16
                                  + DigitValue[n[3]]) * 16 + DigitValue[n[4]]
      BY <2>5, <3>2, FromDigits4
    <3> QED
      BY <2>3, <3>1, <3>3
  <2>7. n \in Seq(Unit(c)) /\ Len(n) = 4 /\ n \in Seq(HexDigit)
    BY <1>4, <2>2, <2>3, <2>4 DEF Unit
  <2>8. Legible(c, n)
    BY <2>7, RangeOfSeq DEF Legible
  <2> QED
    BY <1>0, <1>4, <2>6, <2>7, <2>8 DEF NumberLen, Width, Raw2Number, n
<1> QED
  BY <1>1, <1>2, <1>3, <1>4 DEF Codecs

\* The units of b are those of m from the offset on.
At(m, off, b) ==
    /\ off + Len(b) <= Len(m)
    /\ \A i \in 1 .. Len(b) : m[off + i] = b[i]

\* The two parts of a concatenation are where they were put.
LEMMA AtTheEnds ==
    ASSUME NEW S, NEW a \in Seq(S), NEW b \in Seq(S)
    PROVE  At(a \o b, 0, a) /\ At(a \o b, Len(a), b)
<1>1. /\ Len(a) \in Nat /\ Len(b) \in Nat /\ Len(a \o b) = Len(a) + Len(b)
      /\ \A i \in 1 .. Len(a) + Len(b) :
            (a \o b)[i] = IF i <= Len(a) THEN a[i] ELSE b[i - Len(a)]
  BY LenProperties, ConcatProperties
<1>2. ASSUME NEW i \in 1 .. Len(a) PROVE (a \o b)[0 + i] = a[i]
  <2>1. 0 + i = i /\ i \in 1 .. Len(a) + Len(b) /\ i <= Len(a)
    BY <1>1
  <2> QED
    BY <1>1, <2>1
<1>3. ASSUME NEW i \in 1 .. Len(b) PROVE (a \o b)[Len(a) + i] = b[i]
  <2>1. /\ Len(a) + i \in 1 .. Len(a) + Len(b) /\ ~(Len(a) + i <= Len(a))
        /\ (Len(a) + i) - Len(a) = i
    BY <1>1
  <2> QED
    BY <1>1, <2>1
<1>4. 0 + Len(a) <= Len(a \o b) /\ Len(a) + Len(b) <= Len(a \o b)
  BY <1>1
<1> QED
  BY <1>2, <1>3, <1>4 DEF At

\* A part of a part is a part.
LEMMA AtWithin ==
    ASSUME NEW S, NEW m \in Seq(S), NEW b \in Seq(S), NEW x \in Seq(S),
           NEW off \in Nat, NEW k \in Nat, At(m, off, b), At(b, k, x)
    PROVE  At(m, off + k, x)
<1>1. Len(m) \in Nat /\ Len(b) \in Nat /\ Len(x) \in Nat
  BY LenProperties
<1>2. off + Len(b) <= Len(m) /\ k + Len(x) <= Len(b)
  BY DEF At
<1>3. ASSUME NEW i \in 1 .. Len(x) PROVE m[(off + k) + i] = x[i]
  <2>1. k + i \in 1 .. Len(b) /\ (off + k) + i = off + (k + i)
    BY <1>1, <1>2
  <2> QED
    BY <2>1 DEF At
<1>4. (off + k) + Len(x) <= Len(m)
  BY <1>1, <1>2
<1> QED
  BY <1>3, <1>4 DEF At

\* `_span` of a part is that part.
LEMMA SpanAt ==
    ASSUME NEW S, NEW m \in Seq(S), NEW b \in Seq(S), NEW off \in Nat, At(m, off, b)
    PROVE  HasSpan(m, off, Len(b)) /\ Span(m, off, Len(b)) = b
<1>1. Len(m) \in Nat /\ Len(b) \in Nat /\ off + Len(b) <= Len(m)
  BY LenProperties DEF At
<1> DEFINE p == off + 1
           q == off + Len(b)
<1>2. p \in Int /\ q \in Int /\ q - p + 1 = Len(b)
  BY <1>1
<1>3. \A i \in p .. q : m[i] \in S
  <2>1. \A i \in p .. q : i \in 1 .. Len(m)
    BY <1>1
  <2> QED
    BY <2>1, ElementOfSeq
<1>4. /\ SubSeq(m, p, q) \in Seq(S)
      /\ Len(SubSeq(m, p, q)) = IF p <= q THEN q - p + 1 ELSE 0
      /\ \A i \in 1 .. q - p + 1 : SubSeq(m, p, q)[i] = m[p + i - 1]
  BY <1>2, <1>3, SubSeqProperties
<1>5. Len(SubSeq(m, p, q)) = Len(b)
  BY <1>1, <1>4
<1>6. ASSUME NEW i \in 1 .. Len(b) PROVE SubSeq(m, p, q)[i] = b[i]
  <2>1. i \in 1 .. q - p + 1 /\ p + i - 1 = off + i
    BY <1>1
  <2> QED
    BY <1>4, <2>1 DEF At
<1> HIDE DEF p, q
<1>7. SubSeq(m, p, q) = b
  BY <1>4, <1>5, <1>6, SeqEqual
<1> QED
  BY <1>1, <1>7 DEF HasSpan, Span, p, q

\* A number is read where it was written, in both codings.
LEMMA NumberAt ==
    ASSUME NEW S, NEW m \in Seq(S), NEW c \in Codecs, Unit(c) \subseteq S, NEW bits \in {8, 16},
           NEW v \in Nat, v < Values(bits), NEW off \in Nat, At(m, off, Number(c, v, bits))
    PROVE  ReadNumber(c, m, off, bits) = v
<1>1. /\ Number(c, v, bits) \in Seq(Unit(c)) /\ Len(Number(c, v, bits)) = NumberLen(c, bits)
      /\ Legible(c, Number(c, v, bits)) /\ Raw2Number(c, Number(c, v, bits)) = v
  BY NumbersSurvive
<1>2. Number(c, v, bits) \in Seq(S)
  BY <1>1, SeqMonotonic
<1>3. /\ HasSpan(m, off, NumberLen(c, bits))
      /\ Span(m, off, NumberLen(c, bits)) = Number(c, v, bits)
  BY <1>1, <1>2, SpanAt
<1> QED
  BY <1>1, <1>3 DEF ReadNumber

(***************************************************************************)
(* The widths of a frame.                                                  *)
(***************************************************************************)

LEMMA RecordParts ==
    ASSUME NEW b, NEW a
    PROVE  /\ Subheader(b, a)["binary"] = b /\ Subheader(b, a)["ascii"] = a
           /\ Subheader(b, a).binary = b
BY DEF Subheader

\* What FRAMES says of both frames.
LEMMA FrameParts ==
    ASSUME NEW f \in Frames
    PROVE  /\ f.carries_serial \in BOOLEAN
           /\ \E x, y, z, w :
                /\ f.request = Subheader(<<x, 0>>, <<"5", y, "0", "0">>)
                /\ f.response = Subheader(<<z, 0>>, <<"D", w, "0", "0">>)
<1>1. CASE f = THREE_E
  BY <1>1 DEF THREE_E
<1>2. CASE f = FOUR_E
  BY <1>2 DEF FOUR_E
<1> QED
  BY <1>1, <1>2 DEF Frames

\* A subheader without its serial is as long in an answer as in a request.
LEMMA SubheaderLengths ==
    ASSUME NEW f \in Frames, NEW c \in Codecs
    PROVE  /\ Width(c) \in {1, 2}
           /\ Len(f.request.binary) = 2
           /\ Len(f.request[c]) = 2 * Width(c) /\ Len(f.response[c]) = 2 * Width(c)
<1>1. PICK x, y, z, w :
        /\ f.request = Subheader(<<x, 0>>, <<"5", y, "0", "0">>)
        /\ f.response = Subheader(<<z, 0>>, <<"D", w, "0", "0">>)
  BY FrameParts
<1>2. /\ f.request.binary = <<x, 0>>
      /\ f.request["binary"] = <<x, 0>> /\ f.request["ascii"] = <<"5", y, "0", "0">>
      /\ f.response["binary"] = <<z, 0>> /\ f.response["ascii"] = <<"D", w, "0", "0">>
  BY <1>1, RecordParts
<1>3. /\ Len(<<x, 0>>) = 2 /\ Len(<<z, 0>>) = 2
      /\ Len(<<"5", y, "0", "0">>) = 4 /\ Len(<<"D", w, "0", "0">>) = 4
  OBVIOUS
<1>4. CASE c = "binary"
  BY <1>2, <1>3, <1>4 DEF Width
<1>5. CASE c = "ascii"
  BY <1>2, <1>3, <1>5 DEF Width
<1> QED
  BY <1>4, <1>5 DEF Codecs

\* The lengths everything on the wire is counted in.
LEMMA Widths ==
    ASSUME NEW f \in Frames, NEW c \in Codecs
    PROVE  /\ Width(c) \in {1, 2}
           /\ NumberLen(c, 8) = Width(c) /\ NumberLen(c, 16) = 2 * Width(c)
           /\ RouteLen(c) = 5 * Width(c)
           /\ SubheaderUnits(f, c) \in {2 * Width(c), 6 * Width(c)}
           /\ f.carries_serial => SubheaderUnits(f, c) = 6 * Width(c)
           /\ PrefixUnits(f, c) = SubheaderUnits(f, c) + 7 * Width(c)
<1>1. Width(c) \in {1, 2} /\ Len(f.request.binary) = 2 /\ f.carries_serial \in BOOLEAN
  BY SubheaderLengths, FrameParts
<1>2. 8 \div 8 = 1 /\ 16 \div 8 = 2
  OBVIOUS
<1>3. NumberLen(c, 8) = Width(c) /\ NumberLen(c, 16) = 2 * Width(c)
  BY <1>1, <1>2 DEF NumberLen
<1>4. RouteLen(c) = 5 * Width(c)
  BY <1>1, <1>3 DEF RouteLen
<1>5. SubheaderUnits(f, c) = (2 + (IF f.carries_serial THEN 4 ELSE 0)) * Width(c)
  BY <1>1 DEF SubheaderUnits, SerialBlockUnits
<1> QED
  BY <1>1, <1>3, <1>4, <1>5 DEF PrefixUnits, PrefixBinaryUnits

-----------------------------------------------------------------------------
(***************************************************************************)
(* What the head of a message tells depends on the head alone.             *)
(***************************************************************************)

LEMMA SpanInHead ==
    ASSUME NEW S, NEW m \in Seq(S), NEW n \in 0 .. Len(m),
           NEW off \in Nat, NEW k \in Nat, off + k <= n
    PROVE  Span(SubSeq(m, 1, n), off, k) = Span(m, off, k)
<1>0. Len(m) \in Nat
  BY LenProperties
<1>1. CASE k = 0
  <2>1. \A s : SubSeq(s, off + 1, off + 0) = <<>>
    BY SubSeqEmpty
  <2> QED
    BY <1>1, <2>1 DEF Span
<1>2. CASE k # 0
  <2>1. /\ 1 \in 1 .. Len(m) /\ n \in 1 .. Len(m)
        /\ off + 1 \in 1 .. n - 1 + 1 /\ off + k \in 1 .. n - 1 + 1
    BY <1>0, <1>2
  <2>2. SubSeq(SubSeq(m, 1, n), off + 1, off + k) = SubSeq(m, 1 + (off + 1) - 1, 1 + (off + k) - 1)
    BY <2>1, SubSeqOfSubSeq
  <2>3. 1 + (off + 1) - 1 = off + 1 /\ 1 + (off + k) - 1 = off + k
    BY <1>2
  <2> QED
    BY <2>2, <2>3 DEF Span
<1> QED
  BY <1>1, <1>2

\* The head of a message.
LEMMA HeadLength ==
    ASSUME NEW S, NEW m \in Seq(S), NEW n \in 0 .. Len(m)
    PROVE  SubSeq(m, 1, n) \in Seq(S) /\ Len(SubSeq(m, 1, n)) = n
<1>1. Len(m) \in Nat /\ \A i \in 1 .. n : m[i] \in S
  BY LenProperties, ElementOfSeq
<1>2. 1 \in Int /\ n \in Int
  BY <1>1
<1>3. /\ SubSeq(m, 1, n) \in Seq(S)
      /\ Len(SubSeq(m, 1, n)) = IF 1 <= n THEN n - 1 + 1 ELSE 0
  BY <1>1, <1>2, SubSeqProperties
<1> QED
  BY <1>1, <1>3

\* A number within the head of a message is that of the message.
LEMMA NumberOfHead ==
    ASSUME NEW S, NEW m \in Seq(S), NEW n \in 0 .. Len(m), NEW c,
           NEW off \in Nat, NEW bits, NumberLen(c, bits) \in Nat, off + NumberLen(c, bits) <= n
    PROVE  ReadNumber(c, SubSeq(m, 1, n), off, bits) = ReadNumber(c, m, off, bits)
<1>1. Len(m) \in Nat /\ Len(SubSeq(m, 1, n)) = n
  BY HeadLength, LenProperties
<1>2. /\ HasSpan(SubSeq(m, 1, n), off, NumberLen(c, bits))
      /\ HasSpan(m, off, NumberLen(c, bits))
  BY <1>1 DEF HasSpan
<1>3. Span(SubSeq(m, 1, n), off, NumberLen(c, bits)) = Span(m, off, NumberLen(c, bits))
  BY SpanInHead
<1> QED
  BY <1>2, <1>3 DEF ReadNumber

\* The prefix is parsed alike from what has come so far and from the whole message.
LEMMA PrefixOfHead ==
    ASSUME NEW f \in Frames, NEW c \in Codecs, NEW S, NEW m \in Seq(S),
           NEW n \in 0 .. Len(m), PrefixUnits(f, c) <= n
    PROVE  /\ Prefix(f, c, SubSeq(m, 1, n)) = Prefix(f, c, m)
           /\ PrefixFault(f, c, SubSeq(m, 1, n), TRUE) = PrefixFault(f, c, m, TRUE)
<1> DEFINE head == SubSeq(m, 1, n)
           at == SubheaderUnits(f, c)
           octet == NumberLen(c, 8)
           word == NumberLen(c, 16)
           route == RouteLen(c)
<1>0. n \in Nat /\ Len(m) \in Nat /\ Len(head) = n /\ n <= Len(m)
  BY LenProperties, HeadLength
<1>1. /\ octet \in {1, 2} /\ at \in Nat
      /\ word = 2 * octet /\ route = 5 * octet /\ PrefixUnits(f, c) = at + 7 * octet
      /\ f.carries_serial => at = 6 * octet
      /\ 2 * octet <= at
  BY Widths
<1>2. at + 7 * octet <= n
  BY <1>1
<1>3. ASSUME NEW off \in Nat, NEW bits \in {8, 16}, off + NumberLen(c, bits) <= n
      PROVE  ReadNumber(c, head, off, bits) = ReadNumber(c, m, off, bits)
  <2>1. NumberLen(c, bits) \in Nat
    BY <1>1
  <2> QED
    BY <1>3, <2>1, NumberOfHead
<1>4. /\ at \in Nat /\ at + octet <= n
      /\ at + octet \in Nat /\ at + octet + octet <= n
      /\ at + 2 * octet \in Nat /\ at + 2 * octet + word <= n
      /\ at + 2 * octet + word \in Nat /\ at + 2 * octet + word + octet <= n
      /\ at + route \in Nat /\ at + route + word <= n
      /\ word \in Nat /\ (f.carries_serial => word + word <= n)
      /\ 2 * octet <= n
  <2> HIDE DEF at, octet, word, route
  <2> QED
    BY <1>0, <1>1, <1>2
<1>5. /\ ReadNumber(c, head, at, 8) = ReadNumber(c, m, at, 8)
      /\ ReadNumber(c, head, at + octet, 8) = ReadNumber(c, m, at + octet, 8)
      /\ ReadNumber(c, head, at + 2 * octet, 16) = ReadNumber(c, m, at + 2 * octet, 16)
      /\ ReadNumber(c, head, at + 2 * octet + word, 8) = ReadNumber(c, m, at + 2 * octet + word, 8)
      /\ ReadNumber(c, head, at + route, 16) = ReadNumber(c, m, at + route, 16)
      /\ f.carries_serial => ReadNumber(c, head, word, 16) = ReadNumber(c, m, word, 16)
  <2> HIDE DEF head, at, route
  <2> QED
    BY <1>3, <1>4
<1>6. Prefix(f, c, head) = Prefix(f, c, m)
  <2>1. DecodeRoute(c, head, at) = DecodeRoute(c, m, at)
    BY <1>5 DEF DecodeRoute
  <2> HIDE DEF head
  <2> QED
    BY <1>5, <2>1 DEF Prefix, SerialOffset
<1>7. SubheaderFault(f, c, head, TRUE) = SubheaderFault(f, c, m, TRUE)
  <2>1. Len(f.response[c]) = 2 * octet
    BY SubheaderLengths, Widths
  <2>2. Len(f.response[c]) \in Nat /\ 0 + Len(f.response[c]) <= n
    <3> HIDE DEF octet
    <3> QED
      BY <1>0, <1>1, <1>4, <2>1
  <2>3. Span(head, 0, Len(f.response[c])) = Span(m, 0, Len(f.response[c]))
    BY <2>2, SpanInHead
  <2> HIDE DEF head
  <2> QED
    BY <2>3 DEF SubheaderFault
<1>8. ~(Len(head) < PrefixUnits(f, c)) /\ ~(Len(m) < PrefixUnits(f, c))
  <2>1. PrefixUnits(f, c) \in Nat
    BY Widths
  <2> HIDE DEF head
  <2> QED
    BY <1>0, <2>1
<1>9. PrefixFault(f, c, head, TRUE) = PrefixFault(f, c, m, TRUE)
  <2> HIDE DEF head
  <2>1. ASSUME NEW buf, ~(Len(buf) < PrefixUnits(f, c))
        PROVE  PrefixFault(f, c, buf, TRUE)
                 = (SubheaderFault(f, c, buf, TRUE)
                    ?? (CASE f.carries_serial /\ Prefix(f, c, buf).serial = NoNumber -> "format"
                          [] RouteFault(Prefix(f, c, buf).route) # "none" ->
                                RouteFault(Prefix(f, c, buf).route)
                          [] Prefix(f, c, buf).declared < MinimumDeclared(c, TRUE) -> "format"
                          [] OTHER -> "none"))
    BY <2>1 DEF PrefixFault
  <2> QED
    BY <1>6, <1>7, <1>8, <2>1
<1> QED
  BY <1>6, <1>9

-----------------------------------------------------------------------------
(***************************************************************************)
(* The accumulator.                                                        *)
(***************************************************************************)

\* m is a whole response of this frame and coding: its prefix has no fault and its
\* length field counts the rest.
Message(f, c, m) ==
    /\ Len(m) >= PrefixUnits(f, c)
    /\ PrefixFault(f, c, m, TRUE) = "none"
    /\ Prefix(f, c, m).declared = Len(m) - PrefixUnits(f, c)

\* a has been fed the first n units of m.
Holds(a, f, c, m, n) ==
    /\ a \in [frame : {f}, codec : {c}, expect : {a.expect}, buf : {SubSeq(m, 1, n)},
              known : BOOLEAN, taken : {FALSE}]
    /\ a.known <=> n >= PrefixUnits(f, c)

\* A new accumulator holds nothing.
LEMMA BeginsEmpty ==
    ASSUME NEW f \in Frames, NEW c \in Codecs, NEW e, NEW m
    PROVE  Holds(Accumulator(f, c, e), f, c, m, 0)
<1>1. PrefixUnits(f, c) \in Nat \ {0}
  BY Widths
<1>2. SubSeq(m, 1, 0) = <<>>
  BY SubSeqEmpty
<1> QED
  BY <1>1, <1>2 DEF Holds, Accumulator

\* However a response is cut into pieces: every piece is accepted, the accumulator asks
\* for what is to come and never for more, and it is complete with the last unit.
THEOREM AnyPieces ==
    ASSUME NEW f \in Frames, NEW c \in Codecs, NEW S, NEW m \in Seq(S), Message(f, c, m),
           NEW n \in 0 .. Len(m), NEW a, Holds(a, f, c, m, n)
    PROVE  /\ BytesNeeded(a) \in 0 .. Len(m) - n
           /\ BytesNeeded(a) = 0 <=> n = Len(m)
           /\ Complete(a) <=> n = Len(m)
           /\ \A k \in 0 .. Len(m) - n :
                LET piece == SubSeq(m, n + 1, n + k)
                IN  /\ FeedFault(a, piece) = "none"
                    /\ Holds(Feed(a, piece), f, c, m, n + k)
<1>1. Len(m) \in Nat /\ PrefixUnits(f, c) \in Nat \ {0} /\ Len(m) >= PrefixUnits(f, c)
  BY LenProperties, Widths DEF Message
<1>2. /\ a.frame = f /\ a.codec = c /\ a.buf = SubSeq(m, 1, n) /\ a.taken = FALSE
      /\ a.known \in BOOLEAN /\ (a.known <=> n >= PrefixUnits(f, c))
      /\ a \in [frame : {f}, codec : {c}, expect : {a.expect}, buf : {SubSeq(m, 1, n)},
                known : BOOLEAN, taken : {FALSE}]
  BY DEF Holds
<1>3. ASSUME NEW j \in 0 .. Len(m), PrefixUnits(f, c) <= j
      PROVE  /\ PrefixUnits(f, c) + Prefix(f, c, SubSeq(m, 1, j)).declared = Len(m)
             /\ PrefixFault(f, c, SubSeq(m, 1, j), TRUE) = "none"
  <2>1. /\ Prefix(f, c, SubSeq(m, 1, j)) = Prefix(f, c, m)
        /\ PrefixFault(f, c, SubSeq(m, 1, j), TRUE) = PrefixFault(f, c, m, TRUE)
    BY <1>3, PrefixOfHead
  <2>2. PrefixUnits(f, c) + Prefix(f, c, m).declared = Len(m)
    BY <1>1 DEF Message
  <2> QED
    BY <2>1, <2>2 DEF Message
<1>4. Len(a.buf) = n
  BY <1>2, HeadLength
<1>5. a.known => Total(a) = Len(m)
  BY <1>2, <1>3 DEF Total
<1>6. BytesNeeded(a) = (IF a.known THEN Len(m) ELSE PrefixUnits(f, c)) - n
  BY <1>2, <1>4, <1>5 DEF BytesNeeded
<1>7. BytesNeeded(a) \in 0 .. Len(m) - n /\ (BytesNeeded(a) = 0 <=> n = Len(m))
  BY <1>1, <1>2, <1>6
<1>8. Complete(a) <=> n = Len(m)
  BY <1>1, <1>2, <1>7 DEF Complete
<1>9. ASSUME NEW k \in 0 .. Len(m) - n
      PROVE  /\ FeedFault(a, SubSeq(m, n + 1, n + k)) = "none"
             /\ Holds(Feed(a, SubSeq(m, n + 1, n + k)), f, c, m, n + k)
  <2> DEFINE piece == SubSeq(m, n + 1, n + k)
             b == Buffered(a, piece)
             head == SubSeq(m, 1, n + k)
  <2>1. n + k \in 0 .. Len(m)
    BY <1>1
  <2>2. SubSeq(m, 1, n) \o piece = head
    <3>1. 1 \in 1 .. Len(m) + 1 /\ n \in 1 - 1 .. Len(m) /\ n + k \in n .. Len(m)
      BY <1>1
    <3> QED
      BY <3>1, ConcatAdjacentSubSeq
  <2>3. /\ b.frame = f /\ b.codec = c /\ b.buf = head /\ b.taken = FALSE
        /\ b.known = a.known /\ b.expect = a.expect
        /\ b \in [frame : {f}, codec : {c}, expect : {a.expect}, buf : {head},
                  known : BOOLEAN, taken : {FALSE}]
    BY <1>2, <2>2 DEF Buffered
  <2>4. Len(head) = n + k
    BY <2>1, HeadLength
  <2> HIDE DEF piece, head, b
  <2>5. Due2Decode(b) <=> ~a.known /\ n + k >= PrefixUnits(f, c)
    BY <2>3, <2>4 DEF Due2Decode
  <2>6. (a.known \/ Due2Decode(b)) <=> n + k >= PrefixUnits(f, c)
    BY <1>1, <1>2, <2>5
  <2>7. Due2Decode(b) => PrefixFault(b.frame, b.codec, b.buf, TRUE) = "none"
    BY <1>1, <1>3, <2>1, <2>3, <2>5 DEF head
  <2>8. n + k >= PrefixUnits(f, c) => Total(b) = Len(m)
    BY <1>1, <1>3, <2>1, <2>3 DEF Total, head
  <2>9. ~((a.known \/ Due2Decode(b)) /\ Len(b.buf) > Total(b))
    BY <1>1, <2>1, <2>3, <2>4, <2>6, <2>8
  <2>10. FeedFault(a, piece) = "none"
    BY <1>2, <2>7, <2>9 DEF FeedFault, b, ??
  <2>11. Feed(a, piece) = [b EXCEPT !.known = b.known \/ Due2Decode(b)]
    BY DEF Feed, b
  <2>12. Holds(Feed(a, piece), f, c, m, n + k)
    <3> DEFINE r == [b EXCEPT !.known = b.known \/ Due2Decode(b)]
    <3>1. Due2Decode(b) \in BOOLEAN
      BY DEF Due2Decode
    <3>2. /\ r \in [frame : {f}, codec : {c}, expect : {a.expect}, buf : {head},
                    known : BOOLEAN, taken : {FALSE}]
          /\ r.known = (b.known \/ Due2Decode(b)) /\ r.expect = a.expect
      BY <2>3, <3>1
    <3> HIDE DEF r
    <3>3. Feed(a, piece) = r
      BY <2>11 DEF r
    <3> QED
      BY <2>3, <2>6, <3>2, <3>3 DEF Holds, head
  <2> QED
    BY <2>10, <2>12 DEF piece
<1> QED
  BY <1>7, <1>8, <1>9

(***************************************************************************)
(* The route.                                                              *)
(***************************************************************************)

\* Every place of a word in digits is positive.
LEMMA Powers == \A k \in 0 .. 3 : 16 ^ k \in Nat \ {0}
<1>1. 16 ^ 0 \in Nat \ {0} /\ 16 ^ 1 \in Nat \ {0} /\ 16 ^ 2 \in Nat \ {0} /\ 16 ^ 3 \in Nat \ {0}
  OBVIOUS
<1>2. \A k \in 0 .. 3 : k = 0 \/ k = 1 \/ k = 2 \/ k = 3
  OBVIOUS
<1> QED
  BY <1>1, <1>2, Zenon

\* A module number fits its field.
LEMMA ModuleIoMax == MODULE_IO_MAX \in Nat /\ MODULE_IO_MAX < Values(16)
BY DEF MODULE_IO_MAX, Values

\* How many values a field has.
LEMMA FieldSizes == Values(8) = 256 /\ Values(16) \in Nat
BY DEF Values

\* A number is of the units of its coding and as long as `number_len` says.
LEMMA NumberUnits ==
    ASSUME NEW c \in Codecs, NEW bits \in {8, 16}, NEW v \in Int
    PROVE  /\ Number(c, v, bits) \in Seq(Unit(c))
           /\ Len(Number(c, v, bits)) = NumberLen(c, bits)
           /\ NumberLen(c, bits) \in Nat \ {0}
<1>0. 8 \div 8 = 1 /\ 16 \div 8 = 2 /\ 8 \div 4 = 2 /\ 16 \div 4 = 4
  OBVIOUS
<1>1. ASSUME NEW n \in Nat, NEW q \in Nat \ {0}
      PROVE  (v \div q) % 256 \in 0 .. 255 /\ (v \div q) % 16 \in 0 .. 15
  <2> DEFINE d == v \div q
  <2>1. d \in Int
    OBVIOUS
  <2> HIDE DEF d
  <2>2. d % 256 \in 0 .. 255 /\ d % 16 \in 0 .. 15
    BY <2>1
  <2> QED
    BY <2>2 DEF d
<1>2. ASSUME NEW n \in {1, 2}, c = "binary"
      PROVE  LittleEndian(v, n) \in Seq(Unit(c)) /\ Len(LittleEndian(v, n)) = n
  <2>1. ASSUME NEW i \in 1 .. n PROVE (v \div 256 ^ (i - 1)) % 256 \in Unit(c)
    <3>1. CASE i = 1
      BY <1>1, <1>2, <3>1, Places DEF Unit
    <3>2. CASE i = 2
      BY <1>1, <1>2, <3>2, Places DEF Unit
    <3> QED
      BY <3>1, <3>2
  <2> QED
    BY <2>1 DEF LittleEndian
<1>3. ASSUME NEW n \in {2, 4}, c = "ascii"
      PROVE  Digits(v, n, 16) \in Seq(Unit(c)) /\ Len(Digits(v, n, 16)) = n
  <2>1. ASSUME NEW k \in 0 .. 15 PROVE HexDigits[1 + k] \in Unit(c)
    <3>1. 1 + k = k + 1
      OBVIOUS
    <3> QED
      BY <1>3, <3>1, DigitOf DEF Unit
  <2>2. ASSUME NEW i \in 1 .. n PROVE (v \div 16 ^ (n - i)) % 16 \in 0 .. 15
    <3>1. n - i \in 0 .. 3
      OBVIOUS
    <3>2. 16 ^ (n - i) \in Nat \ {0}
      BY <3>1, Powers
    <3> QED
      BY <1>1, <3>2
  <2>3. \A i \in 1 .. n : HexDigits[1 + ((v \div 16 ^ (n - i)) % 16)] \in Unit(c)
    BY <2>1, <2>2
  <2> QED
    BY <2>3 DEF Digits
<1>4. CASE c = "binary"
  <2> DEFINE n == bits \div 8
  <2>1. n \in {1, 2} /\ NumberLen(c, bits) = n
    BY <1>0, <1>4 DEF NumberLen, Width
  <2>2. Number(c, v, bits) = LittleEndian(v, n)
    BY <1>4 DEF Number
  <2> HIDE DEF n
  <2>3. LittleEndian(v, n) \in Seq(Unit(c)) /\ Len(LittleEndian(v, n)) = n
    BY <1>2, <1>4, <2>1
  <2> QED
    BY <2>1, <2>2, <2>3
<1>5. CASE c = "ascii"
  <2> DEFINE n == bits \div 4
  <2>1. n \in {2, 4} /\ NumberLen(c, bits) = n
    BY <1>0, <1>5 DEF NumberLen, Width
  <2>2. Number(c, v, bits) = Digits(v, n, 16)
    BY <1>5 DEF Number
  <2> HIDE DEF n
  <2>3. Digits(v, n, 16) \in Seq(Unit(c)) /\ Len(Digits(v, n, 16)) = n
    BY <1>3, <1>5, <2>1
  <2> QED
    BY <2>1, <2>2, <2>3
<1> QED
  BY <1>4, <1>5 DEF Codecs

\* Where each of four pieces in a row is.
LEMMA FourParts ==
    ASSUME NEW S, NEW a \in Seq(S), NEW b \in Seq(S), NEW d \in Seq(S), NEW e \in Seq(S)
    PROVE  LET m == a \o b \o d \o e
           IN  /\ m \in Seq(S) /\ Len(m) = Len(a) + Len(b) + Len(d) + Len(e)
               /\ At(m, 0, a) /\ At(m, Len(a), b)
               /\ At(m, Len(a) + Len(b), d) /\ At(m, Len(a) + Len(b) + Len(d), e)
<1> DEFINE x == a \o b
           y == x \o d
           m == y \o e
<1>0. Len(a) \in Nat /\ Len(b) \in Nat /\ Len(d) \in Nat /\ Len(e) \in Nat
  BY LenProperties
<1>1. x \in Seq(S) /\ Len(x) = Len(a) + Len(b) /\ At(x, 0, a) /\ At(x, Len(a), b)
  BY ConcatProperties, AtTheEnds
<1> HIDE DEF x
<1>2. y \in Seq(S) /\ Len(y) = Len(x) + Len(d) /\ At(y, 0, x) /\ At(y, Len(x), d)
  BY <1>1, ConcatProperties, AtTheEnds
<1> HIDE DEF y
<1>4. m \in Seq(S) /\ Len(m) = Len(y) + Len(e) /\ At(m, 0, y) /\ At(m, Len(y), e)
  BY <1>2, ConcatProperties, AtTheEnds
<1> HIDE DEF m
<1>5. At(y, 0 + 0, a) /\ At(y, 0 + Len(a), b)
  BY <1>0, <1>1, <1>2, AtWithin
<1>6. 0 + 0 = 0 /\ 0 + Len(a) = Len(a) /\ 0 + Len(x) = Len(x) /\ Len(x) \in Nat
  BY <1>0, <1>1
<1>7. At(m, 0 + 0, a) /\ At(m, 0 + Len(a), b) /\ At(m, 0 + Len(x), d)
  BY <1>0, <1>2, <1>4, <1>5, <1>6, AtWithin
<1>8. /\ m \in Seq(S) /\ Len(m) = Len(a) + Len(b) + Len(d) + Len(e)
      /\ At(m, 0, a) /\ At(m, Len(a), b)
      /\ At(m, Len(a) + Len(b), d) /\ At(m, Len(a) + Len(b) + Len(d), e)
  BY <1>1, <1>2, <1>4, <1>6, <1>7
<1> QED
  BY <1>8 DEF m, y, x

\* What a parser makes of a route: its four fields.
Copy(r) == [network |-> r.network, station |-> r.station, module_io |-> r.module_io,
            multidrop |-> r.multidrop]

\* A route that was not refused fits its fields and is itself once copied.
LEMMA RouteFits ==
    ASSUME NEW r, IsRoute(r)
    PROVE  /\ r.network \in Nat /\ r.network < Values(8) /\ r.station \in Nat /\ r.station < Values(8)
           /\ r.module_io \in Nat /\ r.module_io < Values(16)
           /\ r.multidrop \in Nat /\ r.multidrop < Values(8)
           /\ IsRoute(Copy(r)) /\ RouteFault(Copy(r)) = "none"
<1>1. /\ r.network \in Nat /\ r.network < Values(8) /\ r.station \in Nat /\ r.station < Values(8)
      /\ r.module_io \in Nat /\ r.module_io < Values(16)
      /\ r.multidrop \in Nat /\ r.multidrop < Values(8)
  <2>1. r.network \in Nat /\ r.network < Values(8)
    BY FieldSizes DEF IsRoute
  <2>2. r.station \in Nat /\ r.station < Values(8)
    BY FieldSizes DEF IsRoute
  <2>3. r.module_io \in Nat /\ r.module_io < Values(16)
    BY ModuleIoMax, FieldSizes DEF IsRoute
  <2>4. r.multidrop \in Nat /\ r.multidrop < Values(8)
    BY FieldSizes DEF IsRoute
  <2> QED
    BY <2>1, <2>2, <2>3, <2>4
<1>2. /\ Copy(r).network = r.network /\ Copy(r).station = r.station
      /\ Copy(r).module_io = r.module_io /\ Copy(r).multidrop = r.multidrop
  BY DEF Copy
<1>3. IsRoute(Copy(r))
  <2> HIDE DEF Copy
  <2> QED
    BY <1>2 DEF IsRoute
<1>4. NoNumber \notin {r.network, r.station, r.module_io, r.multidrop}
  BY <1>1 DEF NoNumber
<1> QED
  BY <1>1, <1>2, <1>3, <1>4 DEF RouteFault

\* Where the parts of an encoded route are.
LEMMA RouteParts ==
    ASSUME NEW c \in Codecs, NEW r, IsRoute(r)
    PROVE  LET octet == NumberLen(c, 8)
               word  == NumberLen(c, 16)
               e     == EncodeRoute(c, r)
           IN  /\ octet \in Nat /\ word \in Nat /\ RouteLen(c) = octet + octet + word + octet
               /\ e \in Seq(Unit(c)) /\ Len(e) = RouteLen(c)
               /\ At(e, 0, Number(c, r.network, 8)) /\ At(e, octet, Number(c, r.station, 8))
               /\ At(e, octet + octet, Number(c, r.module_io, 16))
               /\ At(e, octet + octet + word, Number(c, r.multidrop, 8))
<1> DEFINE n == Number(c, r.network, 8)
           s == Number(c, r.station, 8)
           i == Number(c, r.module_io, 16)
           d == Number(c, r.multidrop, 8)
           e == EncodeRoute(c, r)
           octet == NumberLen(c, 8)
           word == NumberLen(c, 16)
<1>1. /\ r.network \in Int /\ r.station \in Int /\ r.module_io \in Int /\ r.multidrop \in Int
  BY RouteFits
<1>2. /\ n \in Seq(Unit(c)) /\ Len(n) = octet /\ s \in Seq(Unit(c)) /\ Len(s) = octet
      /\ i \in Seq(Unit(c)) /\ Len(i) = word /\ d \in Seq(Unit(c)) /\ Len(d) = octet
      /\ octet \in Nat /\ word \in Nat
  BY <1>1, NumberUnits
<1>3. e = n \o s \o i \o d
  BY DEF EncodeRoute
<1>4. RouteLen(c) = octet + octet + word + octet
  <2>1. RouteLen(c) = 3 * octet + word
    BY DEF RouteLen
  <2> HIDE DEF octet, word
  <2> QED
    BY <1>2, <2>1
<1> HIDE DEF n, s, i, d, e, octet, word
<1>5. /\ e \in Seq(Unit(c)) /\ Len(e) = Len(n) + Len(s) + Len(i) + Len(d)
      /\ At(e, 0, n) /\ At(e, Len(n), s) /\ At(e, Len(n) + Len(s), i)
      /\ At(e, Len(n) + Len(s) + Len(i), d)
  <2> DEFINE U == Unit(c)
             x == n \o s \o i \o d
  <2>1. n \in Seq(U) /\ s \in Seq(U) /\ i \in Seq(U) /\ d \in Seq(U)
    BY <1>2
  <2> HIDE DEF U
  <2>2. /\ x \in Seq(U) /\ Len(x) = Len(n) + Len(s) + Len(i) + Len(d)
        /\ At(x, 0, n) /\ At(x, Len(n), s) /\ At(x, Len(n) + Len(s), i)
        /\ At(x, Len(n) + Len(s) + Len(i), d)
    BY <2>1, FourParts
  <2> QED
    BY <1>3, <2>2 DEF U
<1>6. /\ e \in Seq(Unit(c)) /\ Len(e) = RouteLen(c)
      /\ At(e, 0, n) /\ At(e, octet, s) /\ At(e, octet + octet, i)
      /\ At(e, octet + octet + word, d)
  BY <1>2, <1>4, <1>5
<1> QED
  BY <1>2, <1>4, <1>6 DEF n, s, i, d, e, octet, word

\* A route is decoded to what was encoded.
LEMMA RouteSurvives ==
    ASSUME NEW c \in Codecs, NEW r, IsRoute(r), NEW S, Unit(c) \subseteq S, NEW m \in Seq(S),
           NEW off \in Nat, At(m, off, EncodeRoute(c, r))
    PROVE  DecodeRoute(c, m, off) = Copy(r)
<1> DEFINE n == Number(c, r.network, 8)
           s == Number(c, r.station, 8)
           i == Number(c, r.module_io, 16)
           d == Number(c, r.multidrop, 8)
           e == EncodeRoute(c, r)
           octet == NumberLen(c, 8)
           word == NumberLen(c, 16)
<1>1. /\ r.network \in Nat /\ r.network < Values(8) /\ r.station \in Nat /\ r.station < Values(8)
      /\ r.module_io \in Nat /\ r.module_io < Values(16)
      /\ r.multidrop \in Nat /\ r.multidrop < Values(8)
  BY RouteFits
<1>2. /\ octet \in Nat /\ word \in Nat /\ e \in Seq(Unit(c))
      /\ At(e, 0, n) /\ At(e, octet, s) /\ At(e, octet + octet, i)
      /\ At(e, octet + octet + word, d) /\ At(m, off, e)
  BY RouteParts
<1>3. n \in Seq(S) /\ s \in Seq(S) /\ i \in Seq(S) /\ d \in Seq(S) /\ e \in Seq(S)
  <2>1. \A x \in Seq(Unit(c)) : x \in Seq(S)
    BY SeqMonotonic
  <2>2. /\ n \in Seq(Unit(c)) /\ s \in Seq(Unit(c)) /\ i \in Seq(Unit(c))
        /\ d \in Seq(Unit(c))
    BY <1>1, NumberUnits
  <2> QED
    BY <1>2, <2>1, <2>2
<1> HIDE DEF n, s, i, d, e, octet, word
<1>6. /\ off + 0 = off /\ octet + octet = 2 * octet
      /\ octet + octet + word = 2 * octet + word
      /\ octet + octet \in Nat /\ octet + octet + word \in Nat
      /\ off + (2 * octet + word) = off + 2 * octet + word
      /\ off + octet \in Nat /\ off + 2 * octet \in Nat /\ off + 2 * octet + word \in Nat
  BY <1>2
<1>8. /\ At(m, off + 0, n) /\ At(m, off + octet, s) /\ At(m, off + (octet + octet), i)
      /\ At(m, off + (octet + octet + word), d)
  BY <1>2, <1>3, <1>6, AtWithin
<1>9. /\ At(m, off, n) /\ At(m, off + octet, s) /\ At(m, off + 2 * octet, i)
      /\ At(m, off + 2 * octet + word, d)
  BY <1>6, <1>8
<1>10. /\ ReadNumber(c, m, off, 8) = r.network
       /\ ReadNumber(c, m, off + octet, 8) = r.station
       /\ ReadNumber(c, m, off + 2 * octet + word, 8) = r.multidrop
  BY <1>1, <1>6, <1>9, NumberAt DEF n, s, d
<1>11. ReadNumber(c, m, off + 2 * octet, 16) = r.module_io
  <2>1. r.module_io < Values(16) /\ off + 2 * octet \in Nat
    BY <1>1, <1>6
  <2>2. At(m, off + 2 * octet, Number(c, r.module_io, 16))
    BY <1>9 DEF i
  <2> QED
    BY <1>1, <2>1, <2>2, NumberAt
<1> QED
  BY <1>10, <1>11 DEF DecodeRoute, Copy, octet, word

(***************************************************************************)
(* The subheader and the whole message.                                    *)
(***************************************************************************)

\* The digits of the subheaders.
LEMMA SubheaderDigits == {"0", "4", "5", "D"} \subseteq HexDigit
<1>1. /\ HexDigits[0 + 1] = "0" /\ HexDigits[4 + 1] = "4" /\ HexDigits[5 + 1] = "5"
      /\ HexDigits[13 + 1] = "D"
  BY DEF HexDigits
<1>2. /\ HexDigits[0 + 1] \in HexDigit /\ HexDigits[4 + 1] \in HexDigit
      /\ HexDigits[5 + 1] \in HexDigit /\ HexDigits[13 + 1] \in HexDigit
  BY DigitOf
<1> QED
  BY <1>1, <1>2

\* No request begins as a response does.
LEMMA SubheadersDiffer ==
    ASSUME NEW f \in Frames, NEW c \in Codecs
    PROVE  f.request[c] # f.response[c]
<1>1. /\ <<80, 0>> # <<208, 0>> /\ <<84, 0>> # <<212, 0>>
      /\ <<"5", "0", "0", "0">> # <<"D", "0", "0", "0">>
      /\ <<"5", "4", "0", "0">> # <<"D", "4", "0", "0">>
  OBVIOUS
<1>2. /\ THREE_E.request = Subheader(<<80, 0>>,  <<"5", "0", "0", "0">>)
      /\ THREE_E.response = Subheader(<<208, 0>>, <<"D", "0", "0", "0">>)
      /\ FOUR_E.request = Subheader(<<84, 0>>,  <<"5", "4", "0", "0">>)
      /\ FOUR_E.response = Subheader(<<212, 0>>, <<"D", "4", "0", "0">>)
  BY DEF THREE_E, FOUR_E
<1> QED
  BY <1>1, <1>2, RecordParts DEF Frames, Codecs

\* A subheader is of the units of its coding.
LEMMA SubheaderSeqs ==
    ASSUME NEW f \in Frames, NEW c \in Codecs
    PROVE  f.request[c] \in Seq(Unit(c)) /\ f.response[c] \in Seq(Unit(c))
<1>1. ASSUME NEW b, NEW a, c = "binary" => b \in Seq(0 .. 255), c = "ascii" => a \in Seq(HexDigit)
      PROVE  Subheader(b, a)[c] \in Seq(Unit(c))
  <2>1. CASE c = "binary"
    BY <1>1, <2>1, RecordParts DEF Unit
  <2>2. CASE c = "ascii"
    BY <1>1, <2>2, RecordParts DEF Unit
  <2> QED
    BY <2>1, <2>2 DEF Codecs
<1>2. /\ <<80, 0>> \in Seq(0 .. 255) /\ <<208, 0>> \in Seq(0 .. 255)
      /\ <<84, 0>> \in Seq(0 .. 255) /\ <<212, 0>> \in Seq(0 .. 255)
  OBVIOUS
<1>3. /\ <<"5", "0", "0", "0">> \in Seq(HexDigit) /\ <<"D", "0", "0", "0">> \in Seq(HexDigit)
      /\ <<"5", "4", "0", "0">> \in Seq(HexDigit) /\ <<"D", "4", "0", "0">> \in Seq(HexDigit)
  BY SubheaderDigits
<1>4. CASE f = THREE_E
  <2>1. /\ f.request = Subheader(<<80, 0>>,  <<"5", "0", "0", "0">>)
        /\ f.response = Subheader(<<208, 0>>, <<"D", "0", "0", "0">>)
    BY <1>4 DEF THREE_E
  <2> QED
    BY <1>1, <1>2, <1>3, <2>1
<1>5. CASE f = FOUR_E
  <2>1. /\ f.request = Subheader(<<84, 0>>,  <<"5", "4", "0", "0">>)
        /\ f.response = Subheader(<<212, 0>>, <<"D", "4", "0", "0">>)
    BY <1>5 DEF FOUR_E
  <2> QED
    BY <1>1, <1>2, <1>3, <2>1
<1> QED
  BY <1>4, <1>5 DEF Frames

\* A serial number of this frame: none where it carries none.
SerialOf(f, serial) ==
    IF f.carries_serial THEN serial \in Nat /\ serial < Values(16) ELSE serial = NoSerial

\* The subheader and, on a frame that has one, the serial behind it.
LEMMA HeadParts ==
    ASSUME NEW f \in Frames, NEW c \in Codecs, NEW serial, SerialOf(f, serial),
           NEW head, head \in {f.request, f.response}
    PROVE  LET h == SubheaderOf(f, c, serial, head)
           IN  /\ h \in Seq(Unit(c)) /\ Len(h) = SubheaderUnits(f, c)
               /\ head[c] \in Seq(Unit(c)) /\ At(h, 0, head[c])
               /\ f.carries_serial => At(h, SerialOffset(c), Number(c, serial, 16))
<1> DEFINE U == Unit(c)
           h == SubheaderOf(f, c, serial, head)
           n == Number(c, serial, 16)
           z == Number(c, 0, 16)
           word == NumberLen(c, 16)
<1>1. head[c] \in Seq(U) /\ Len(head[c]) = 2 * Width(c)
  BY SubheaderSeqs, SubheaderLengths
<1>2. /\ Width(c) \in {1, 2} /\ word = 2 * Width(c) /\ f.carries_serial \in BOOLEAN
      /\ f.carries_serial => SubheaderUnits(f, c) = 6 * Width(c)
      /\ ~f.carries_serial => SubheaderUnits(f, c) = 2 * Width(c)
  <2>1. Width(c) \in {1, 2} /\ word = 2 * Width(c) /\ f.carries_serial \in BOOLEAN
    BY Widths, FrameParts
  <2>2. Len(f.request.binary) = 2
    BY SubheaderLengths
  <2>3. SubheaderUnits(f, c) = (2 + (IF f.carries_serial THEN 4 ELSE 0)) * Width(c)
    BY <2>2 DEF SubheaderUnits, SerialBlockUnits
  <2> HIDE DEF word
  <2> QED
    BY <2>1, <2>3
<1>3. CASE f.carries_serial
  <2>1. h = head[c] \o (n \o z)
    BY <1>3 DEF SubheaderOf
  <2>2. n \in Seq(U) /\ Len(n) = word /\ z \in Seq(U) /\ Len(z) = word
    BY <1>3, NumberUnits DEF SerialOf
  <2>3. SerialOffset(c) = word
    BY DEF SerialOffset
  <2> DEFINE a == head[c]
             b == n \o z
  <2>10. h = a \o b /\ a \in Seq(U) /\ Len(a) = word /\ word \in Nat
    BY <1>1, <1>2, <2>1
  <2> HIDE DEF U, h, n, z, word, a
  <2>4. b \in Seq(U) /\ Len(b) = Len(n) + Len(z) /\ At(b, 0, n)
    BY <2>2, ConcatProperties, AtTheEnds
  <2> HIDE DEF b
  <2>5. /\ a \o b \in Seq(U) /\ Len(a \o b) = Len(a) + Len(b)
        /\ At(a \o b, 0, a) /\ At(a \o b, Len(a), b)
    BY <2>4, <2>10, ConcatProperties, AtTheEnds
  <2>6. h \in Seq(U) /\ Len(h) = Len(a) + Len(b) /\ At(h, 0, a) /\ At(h, word, b)
    BY <2>5, <2>10
  <2>7. At(h, word + 0, n)
    BY <2>2, <2>4, <2>6, <2>10, AtWithin
  <2>8. word + 0 = word /\ Len(h) = SubheaderUnits(f, c)
    <3>1. Len(h) = word + (word + word) /\ word = 2 * Width(c) /\ SubheaderUnits(f, c) = 6 * Width(c)
      BY <1>2, <1>3, <2>2, <2>4, <2>6, <2>10 DEF word
    <3>2. Width(c) \in {1, 2}
      BY <1>2
    <3> QED
      BY <3>1, <3>2
  <2> QED
    BY <1>1, <2>3, <2>6, <2>7, <2>8 DEF U, h, n, a
<1>4. CASE ~f.carries_serial
  <2> DEFINE a == head[c]
  <2>1. h = a \o <<>>
    BY <1>4 DEF SubheaderOf
  <2>2. a \in Seq(U) /\ Len(a) = SubheaderUnits(f, c)
    BY <1>1, <1>2, <1>4
  <2> HIDE DEF U, h, a
  <2>3. <<>> \in Seq(U)
    BY EmptySeq
  <2>4. At(a \o <<>>, 0, a) /\ a \o <<>> = a
    BY <2>2, <2>3, AtTheEnds, ConcatEmptySeq
  <2>5. h \in Seq(U) /\ Len(h) = SubheaderUnits(f, c) /\ At(h, 0, a)
    BY <2>1, <2>2, <2>4
  <2> QED
    BY <1>1, <1>4, <2>5 DEF U, h, a
<1> QED
  BY <1>2, <1>3, <1>4

\* What follows the prefix is the body.
LEMMA BodyAt ==
    ASSUME NEW S, NEW m \in Seq(S), NEW b \in Seq(S), NEW off \in Nat, At(m, off, b),
           Len(m) = off + Len(b)
    PROVE  SubSeq(m, off + 1, Len(m)) = b
BY SpanAt DEF Span

\* A message that is put together reads as what it was put together from: where its
\* parts are, and what its fixed part says.
LEMMA Assembled ==
    ASSUME NEW f \in Frames, NEW c \in Codecs, NEW serial, SerialOf(f, serial),
           NEW r, IsRoute(r), NEW head \in {f.request, f.response},
           NEW S, Unit(c) \subseteq S, NEW body \in Seq(S)
    PROVE  LET m == Assemble(SubheaderOf(f, c, serial, head), r, body, c)
           IN  /\ m \in Seq(S) /\ Len(m) = PrefixUnits(f, c) + Len(body)
               /\ PrefixUnits(f, c) \in Nat
               /\ At(m, PrefixUnits(f, c), body)
               /\ Span(m, 0, Len(head[c])) = head[c]
               /\ Prefix(f, c, m).serial = serial
               /\ Prefix(f, c, m).route = Copy(r)
               /\ Len(body) < Values(16) => Prefix(f, c, m).declared = Len(body)
<1> DEFINE h == SubheaderOf(f, c, serial, head)
           e == EncodeRoute(c, r)
           n == Number(c, Len(body), 16)
           m == Assemble(h, r, body, c)
           at == SubheaderUnits(f, c)
           x == h \o e \o n \o body
           rl == RouteLen(c)
           word == NumberLen(c, 16)
           pu == PrefixUnits(f, c)
           so == SerialOffset(c)
           sn == Number(c, serial, 16)
           hc == head[c]
<1>1. Len(body) \in Nat
  BY LenProperties
<1>2. /\ h \in Seq(Unit(c)) /\ Len(h) = at /\ hc \in Seq(Unit(c)) /\ At(h, 0, hc)
      /\ f.carries_serial => At(h, so, sn)
  BY HeadParts
<1>3. e \in Seq(Unit(c)) /\ Len(e) = rl
  BY RouteParts
<1>4. n \in Seq(Unit(c)) /\ Len(n) = word
  BY <1>1, NumberUnits
<1>5. at \in Nat /\ rl \in Nat /\ word \in Nat /\ pu = at + rl + word /\ pu \in Nat /\ so = word
  <2>1. /\ Width(c) \in {1, 2} /\ word = 2 * Width(c) /\ rl = 5 * Width(c)
        /\ at \in {2 * Width(c), 6 * Width(c)} /\ pu = at + 7 * Width(c)
    BY Widths
  <2>2. so = word
    BY DEF SerialOffset
  <2> HIDE DEF at, rl, word, pu, so
  <2> QED
    BY <2>1, <2>2
<1>6. f.carries_serial => sn \in Seq(Unit(c)) /\ serial \in Nat /\ serial < Values(16)
  BY NumberUnits DEF SerialOf
<1>7. \A s \in Seq(Unit(c)) : s \in Seq(S)
  BY SeqMonotonic
<1>8. m = x
  BY DEF Assemble
<1>9. h \in Seq(S) /\ e \in Seq(S) /\ n \in Seq(S) /\ hc \in Seq(S)
      /\ (f.carries_serial => sn \in Seq(S))
  BY <1>2, <1>3, <1>4, <1>6, <1>7
<1> HIDE DEF h, e, n, m, at, rl, word, pu, so, sn, hc
<1>10. /\ x \in Seq(S) /\ Len(x) = Len(h) + Len(e) + Len(n) + Len(body)
       /\ At(x, 0, h) /\ At(x, Len(h), e) /\ At(x, Len(h) + Len(e), n)
       /\ At(x, Len(h) + Len(e) + Len(n), body)
  BY <1>9, FourParts
<1> HIDE DEF x
<1>11. /\ m \in Seq(S) /\ Len(m) = pu + Len(body) /\ At(m, 0, h) /\ At(m, at, e)
       /\ At(m, at + rl, n) /\ At(m, pu, body)
  BY <1>1, <1>2, <1>3, <1>4, <1>5, <1>8, <1>10
<1>12. DecodeRoute(c, m, at) = Copy(r)
  BY <1>5, <1>11, RouteSurvives DEF e
<1>13. Len(body) < Values(16) => ReadNumber(c, m, at + rl, 16) = Len(body)
  <2>1. SUFFICES ASSUME Len(body) < Values(16) PROVE ReadNumber(c, m, at + rl, 16) = Len(body)
    OBVIOUS
  <2>2. Len(body) < Values(16) /\ at + rl \in Nat
    BY <1>5, <2>1
  <2> QED
    BY <1>1, <1>11, <2>2, NumberAt DEF n
<1>14. f.carries_serial => ReadNumber(c, m, so, 16) = serial
  <2>1. SUFFICES ASSUME f.carries_serial PROVE ReadNumber(c, m, so, 16) = serial
    OBVIOUS
  <2>2. At(m, 0 + so, sn) /\ 0 + so = so /\ so \in Nat
    BY <1>2, <1>5, <1>9, <1>11, <2>1, AtWithin
  <2> QED
    BY <1>6, <1>11, <2>1, <2>2, NumberAt DEF sn
<1>15. Span(m, 0, Len(hc)) = hc
  <2>1. At(m, 0 + 0, hc) /\ 0 + 0 = 0
    BY <1>2, <1>9, <1>11, AtWithin
  <2> QED
    BY <1>9, <1>11, <2>1, SpanAt
<1>16. /\ Prefix(f, c, m).serial = serial
       /\ Prefix(f, c, m).route = DecodeRoute(c, m, at)
       /\ Prefix(f, c, m).declared = ReadNumber(c, m, at + rl, 16)
  BY <1>14 DEF Prefix, SerialOf, at, rl, so
<1> QED
  BY <1>5, <1>11, <1>12, <1>13, <1>15, <1>16 DEF m, h, pu, hc

\* The order of faults: the first one counts.
LEMMA NoFault == "none" ?? "none" = "none" /\ \A a : "none" ?? a = a
BY DEF ??

\* A message that was put together has no fault in its prefix and is as long as it says.
LEMMA SpanGood ==
    ASSUME NEW f \in Frames, NEW c \in Codecs, NEW serial, SerialOf(f, serial),
           NEW r, IsRoute(r), NEW response \in BOOLEAN,
           NEW S, Unit(c) \subseteq S, NEW body \in Seq(S), Len(body) < Values(16),
           Len(body) >= MinimumDeclared(c, response)
    PROVE  LET head == IF response THEN f.response ELSE f.request
               m    == Assemble(SubheaderOf(f, c, serial, head), r, body, c)
           IN  PrefixFault(f, c, m, response) = "none" /\ SpanFault(f, c, m, response) = "none"
<1> DEFINE head == IF response THEN f.response ELSE f.request
           m == Assemble(SubheaderOf(f, c, serial, head), r, body, c)
           p == Prefix(f, c, m)
           pu == PrefixUnits(f, c)
<1>1. head \in {f.request, f.response}
  OBVIOUS
<1>2. Len(body) \in Nat
  BY LenProperties
<1>a. (IF response THEN f.response ELSE f.request) = head
  OBVIOUS
<1> HIDE DEF head
<1>3. /\ m \in Seq(S) /\ Len(m) = pu + Len(body) /\ pu \in Nat
      /\ Span(m, 0, Len(head[c])) = head[c]
      /\ p.serial = serial /\ p.route = Copy(r) /\ p.declared = Len(body)
  <2>1. /\ m \in Seq(S) /\ Len(m) = pu + Len(body) /\ pu \in Nat
        /\ Span(m, 0, Len(head[c])) = head[c]
        /\ Prefix(f, c, m).serial = serial
        /\ Prefix(f, c, m).route = Copy(r)
        /\ Len(body) < Values(16) => Prefix(f, c, m).declared = Len(body)
    BY <1>1, Assembled, SMTT(60)
  <2> HIDE DEF m
  <2> QED
    BY <2>1
<1>4. SubheaderFault(f, c, m, response) = "none"
  <2> DEFINE other == (IF response THEN f.request ELSE f.response)[c]
  <2> HIDE DEF m
  <2>1. SubheaderFault(f, c, m, response) =
          CASE Span(m, 0, Len(head[c])) = head[c] -> "none"
            [] Span(m, 0, Len(head[c])) = other /\ response -> "unsolicited"
            [] OTHER -> "format"
    BY <1>a DEF SubheaderFault
  <2>2. head[c] # other
    BY SubheadersDiffer DEF head
  <2> HIDE DEF other
  <2> QED
    BY <1>3, <2>1, <2>2
<1>5. RouteFault(p.route) = "none"
  BY <1>3, RouteFits
<1>6. ~(f.carries_serial /\ p.serial = NoNumber)
  <2>1. NoNumber \notin Nat
    BY DEF NoNumber
  <2> QED
    BY <1>3, <2>1 DEF SerialOf
<1>7. MinimumDeclared(c, response) \in Nat
  <2>1. Width(c) \in {1, 2} /\ NumberLen(c, 16) \in Nat
    BY Widths
  <2> QED
    BY <2>1 DEF MinimumDeclared, RequestMinUnits
<1> HIDE DEF m, p, pu
<1>8. ~(p.declared < MinimumDeclared(c, response)) /\ ~(Len(m) < pu)
      /\ pu + p.declared = Len(m)
  BY <1>2, <1>3, <1>7
<1>9. PrefixFault(f, c, m, response) = "none"
  BY <1>4, <1>5, <1>6, <1>8, NoFault DEF PrefixFault, p, pu
<1>10. SpanFault(f, c, m, response) = "none"
  <2>1. ~(Len(m) < pu + p.declared) /\ ~(Len(m) > pu + p.declared)
    BY <1>2, <1>3
  <2> QED
    BY <1>9, <2>1, NoFault DEF SpanFault, p, pu
<1> QED
  BY <1>9, <1>10 DEF m, head

\* The same of the two ways to build one.
LEMMA BuiltWell ==
    ASSUME NEW f \in Frames, NEW c \in Codecs, NEW serial, SerialOf(f, serial),
           NEW r, IsRoute(r), NEW S, Unit(c) \subseteq S, NEW body \in Seq(S),
           NEW m, m \in {Build(f, c, r, serial, body), BuildResponse(f, c, r, serial, body)}
    PROVE  /\ m \in Seq(S) /\ Len(m) = PrefixUnits(f, c) + Len(body)
           /\ PrefixUnits(f, c) \in Nat
           /\ At(m, PrefixUnits(f, c), body)
           /\ Prefix(f, c, m).serial = serial
           /\ Prefix(f, c, m).route = Copy(r)
           /\ Len(body) < Values(16) => Prefix(f, c, m).declared = Len(body)
<1>1. ASSUME NEW head, head \in {f.request, f.response},
             m = Assemble(SubheaderOf(f, c, serial, head), r, body, c)
      PROVE  /\ m \in Seq(S) /\ Len(m) = PrefixUnits(f, c) + Len(body)
             /\ PrefixUnits(f, c) \in Nat
             /\ At(m, PrefixUnits(f, c), body)
             /\ Prefix(f, c, m).serial = serial
             /\ Prefix(f, c, m).route = Copy(r)
             /\ Len(body) < Values(16) => Prefix(f, c, m).declared = Len(body)
  <2> DEFINE a == Assemble(SubheaderOf(f, c, serial, head), r, body, c)
  <2>1. /\ a \in Seq(S) /\ Len(a) = PrefixUnits(f, c) + Len(body)
        /\ PrefixUnits(f, c) \in Nat
        /\ At(a, PrefixUnits(f, c), body)
        /\ Prefix(f, c, a).serial = serial
        /\ Prefix(f, c, a).route = Copy(r)
        /\ Len(body) < Values(16) => Prefix(f, c, a).declared = Len(body)
    BY <1>1, Assembled
  <2>2. m = a
    BY <1>1
  <2> HIDE DEF a
  <2> QED
    BY <2>1, <2>2
<1>2. CASE m = Build(f, c, r, serial, body)
  <2>1. m = Assemble(SubheaderOf(f, c, serial, f.request), r, body, c)
    BY <1>2 DEF Build
  <2> QED
    BY <1>1, <2>1
<1>3. CASE m = BuildResponse(f, c, r, serial, body)
  <2>1. m = Assemble(SubheaderOf(f, c, serial, f.response), r, body, c)
    BY <1>3 DEF BuildResponse
  <2> QED
    BY <1>1, <2>1
<1> QED
  BY <1>2, <1>3

\* What a client asks is what the CPU is asked: a request that is built and parsed again
\* has its serial, its route, its timer, its command and its payload, whatever they are;
\* and where its length field holds its length, it is understood (Frame.build and
\* Frame.parse_request of wire/frames.py).
THEOREM RequestArrives ==
    ASSUME NEW f \in Frames, NEW c \in Codecs, NEW serial, SerialOf(f, serial),
           NEW r, IsRoute(r), NEW timer \in Nat, timer < Values(16),
           NEW command \in Nat, command < Values(16), NEW sub \in Nat, sub < Values(16),
           NEW S, Unit(c) \subseteq S, NEW payload \in Seq(S)
    PROVE  LET body == RequestBody(c, timer, command, sub, payload)
               m    == Build(f, c, r, serial, body)
           IN  /\ body \in Seq(S) /\ Len(body) = 3 * NumberLen(c, 16) + Len(payload)
               /\ m \in Seq(S)
               /\ RawRequest(f, c, m) =
                     [serial |-> serial, route |-> Copy(r), monitoring_timer |-> timer,
                      command |-> command, subcommand |-> sub, payload |-> payload]
               /\ Len(body) < Values(16) => RequestFault(f, c, m) = "none"
<1> DEFINE t == Number(c, timer, 16)
           k == Number(c, command, 16)
           u == Number(c, sub, 16)
           x == t \o k \o u \o payload
           body == RequestBody(c, timer, command, sub, payload)
           m == Build(f, c, r, serial, body)
           word == NumberLen(c, 16)
           pu == PrefixUnits(f, c)
           at(i) == ReadNumber(c, m, pu + i * word, 16)
<1>1. Len(payload) \in Nat /\ word \in Nat
  BY LenProperties, NumberUnits
<1>2. /\ t \in Seq(Unit(c)) /\ k \in Seq(Unit(c)) /\ u \in Seq(Unit(c))
      /\ Len(t) = word /\ Len(k) = word /\ Len(u) = word
  BY NumberUnits
<1>3. \A s \in Seq(Unit(c)) : s \in Seq(S)
  BY SeqMonotonic
<1>4. t \in Seq(S) /\ k \in Seq(S) /\ u \in Seq(S)
  BY <1>2, <1>3
<1>5. body = x
  BY DEF RequestBody
<1> HIDE DEF t, k, u, body, word, pu
<1>6. /\ x \in Seq(S) /\ Len(x) = Len(t) + Len(k) + Len(u) + Len(payload)
      /\ At(x, 0, t) /\ At(x, Len(t), k) /\ At(x, Len(t) + Len(k), u)
      /\ At(x, Len(t) + Len(k) + Len(u), payload)
  BY <1>4, FourParts
<1> HIDE DEF x
<1>7. /\ body \in Seq(S) /\ Len(body) = 3 * word + Len(payload)
      /\ At(body, 0, t) /\ At(body, word, k) /\ At(body, 2 * word, u)
      /\ At(body, 3 * word, payload)
  <2>1. word + word = 2 * word /\ word + word + word = 3 * word
    BY <1>1
  <2> QED
    BY <1>2, <1>5, <1>6, <2>1
<1>8. /\ m \in Seq(S) /\ Len(m) = pu + Len(body) /\ pu \in Nat /\ At(m, pu, body)
      /\ Prefix(f, c, m).serial = serial /\ Prefix(f, c, m).route = Copy(r)
  <2> QED
    BY <1>7, BuiltWell DEF m, pu
<1> HIDE DEF m
<1>9. /\ At(m, pu + 0, t) /\ At(m, pu + word, k) /\ At(m, pu + 2 * word, u)
      /\ At(m, pu + 3 * word, payload)
  <2>1. 2 * word \in Nat /\ 3 * word \in Nat
    BY <1>1
  <2> QED
    BY <1>1, <1>4, <1>7, <1>8, <2>1, AtWithin
<1>10. at(0) = timer /\ at(1) = command /\ at(2) = sub
  <2>1. /\ pu + 0 * word = pu + 0 /\ pu + 1 * word = pu + word
        /\ pu + 0 \in Nat /\ pu + word \in Nat /\ pu + 2 * word \in Nat
    BY <1>1, <1>8
  <2>3. ReadNumber(c, m, pu + 0, 16) = timer
    BY <1>8, <1>9, <2>1, NumberAt DEF t
  <2>4. ReadNumber(c, m, pu + word, 16) = command
    BY <1>8, <1>9, <2>1, NumberAt DEF k
  <2>5. ReadNumber(c, m, pu + 2 * word, 16) = sub
    BY <1>8, <1>9, <2>1, NumberAt DEF u
  <2> QED
    BY <2>1, <2>3, <2>4, <2>5
<1>11. SubSeq(m, pu + 3 * word + 1, Len(m)) = payload
  <2> DEFINE off == pu + 3 * word
  <2>1. off \in Nat /\ Len(m) = off + Len(payload) /\ At(m, off, payload)
    BY <1>1, <1>7, <1>8, <1>9
  <2> HIDE DEF off
  <2>2. SubSeq(m, off + 1, Len(m)) = payload
    BY <1>8, <2>1, BodyAt
  <2> QED
    BY <2>2 DEF off
<1>12. RawRequest(f, c, m) =
          [serial |-> serial, route |-> Copy(r), monitoring_timer |-> timer,
           command |-> command, subcommand |-> sub, payload |-> payload]
  BY <1>8, <1>10, <1>11 DEF RawRequest, pu, word
<1>13. Len(body) < Values(16) => RequestFault(f, c, m) = "none"
  <2>1. SUFFICES ASSUME Len(body) < Values(16) PROVE RequestFault(f, c, m) = "none"
    OBVIOUS
  <2>2. Len(body) >= MinimumDeclared(c, FALSE)
    <3>1. Width(c) \in {1, 2} /\ word = 2 * Width(c)
      BY Widths DEF word
    <3>2. MinimumDeclared(c, FALSE) = 3 * word
      BY <3>1 DEF MinimumDeclared, RequestMinUnits
    <3>3. 3 * word + Len(payload) >= 3 * word
      BY <1>1
    <3> QED
      BY <1>7, <3>2, <3>3
  <2>3. SpanFault(f, c, m, FALSE) = "none"
    BY <1>7, <2>1, <2>2, SpanGood DEF Build, m
  <2>4. \A i \in 0 .. 2 : at(i) # NoNumber
    <3>1. at(0) # NoNumber /\ at(1) # NoNumber /\ at(2) # NoNumber
      BY <1>10 DEF NoNumber
    <3>2. \A i \in 0 .. 2 : i = 0 \/ i = 1 \/ i = 2
      OBVIOUS
    <3> QED
      BY <3>1, <3>2
  <2> QED
    BY <2>3, <2>4, NoFault DEF RequestFault, pu, word
<1> QED
  BY <1>7, <1>8, <1>12, <1>13 DEF m, body, word

(***************************************************************************)
(* Responses.                                                              *)
(***************************************************************************)

\* Where each of two, three pieces in a row is.
LEMMA TwoParts ==
    ASSUME NEW S, NEW a \in Seq(S), NEW b \in Seq(S)
    PROVE  LET m == a \o b
           IN  /\ m \in Seq(S) /\ Len(m) = Len(a) + Len(b) /\ At(m, 0, a) /\ At(m, Len(a), b)
BY ConcatProperties, AtTheEnds

\* Three parts in a row are where they were put.
LEMMA ThreeParts ==
    ASSUME NEW S, NEW a \in Seq(S), NEW b \in Seq(S), NEW d \in Seq(S)
    PROVE  LET m == a \o b \o d
           IN  /\ m \in Seq(S) /\ Len(m) = Len(a) + Len(b) + Len(d)
               /\ At(m, 0, a) /\ At(m, Len(a), b) /\ At(m, Len(a) + Len(b), d)
<1> DEFINE x == a \o b
           m == x \o d
<1>0. Len(a) \in Nat /\ Len(b) \in Nat /\ Len(d) \in Nat
  BY LenProperties
<1>1. x \in Seq(S) /\ Len(x) = Len(a) + Len(b) /\ At(x, 0, a) /\ At(x, Len(a), b)
  BY TwoParts
<1> HIDE DEF x
<1>2. m \in Seq(S) /\ Len(m) = Len(x) + Len(d) /\ At(m, 0, x) /\ At(m, Len(x), d)
  BY <1>1, TwoParts
<1> HIDE DEF m
<1>3. At(m, 0 + 0, a) /\ At(m, 0 + Len(a), b)
  BY <1>0, <1>1, <1>2, AtWithin
<1>4. 0 + 0 = 0 /\ 0 + Len(a) = Len(a)
  BY <1>0
<1>5. /\ m \in Seq(S) /\ Len(m) = Len(a) + Len(b) + Len(d)
      /\ At(m, 0, a) /\ At(m, Len(a), b) /\ At(m, Len(a) + Len(b), d)
  BY <1>1, <1>2, <1>3, <1>4
<1> QED
  BY <1>5 DEF m, x

\* The length of a word.
LEMMA WordWidth ==
    ASSUME NEW c \in Codecs
    PROVE  /\ Width(c) \in {1, 2} /\ NumberLen(c, 16) = 2 * Width(c) /\ NumberLen(c, 16) \in Nat \ {0}
           /\ RouteLen(c) = 5 * Width(c) /\ RouteLen(c) \in Nat
<1>1. THREE_E \in Frames
  BY DEF Frames
<1>2. /\ Width(c) \in {1, 2} /\ NumberLen(c, 16) = 2 * Width(c) /\ RouteLen(c) = 5 * Width(c)
  BY <1>1, Widths
<1> HIDE DEF RouteLen, NumberLen, Width
<1> QED
  BY <1>2

\* Every body of a response begins with its end code.
BodyOf(c, code, rest) == Number(c, code, 16) \o rest

\* m answers with this end code and these units after it.
IsResponse(m, f, c, serial, r, S, code, rest) ==
    /\ f \in Frames /\ c \in Codecs /\ SerialOf(f, serial) /\ IsRoute(r) /\ Unit(c) \subseteq S
    /\ code \in Nat /\ code < Values(16)
    /\ rest \in Seq(S) /\ Len(BodyOf(c, code, rest)) < Values(16)
    /\ m = BuildResponse(f, c, r, serial, BodyOf(c, code, rest))

\* What is read of it.
ReadsAs(m, f, c, serial, S, code, rest) ==
    /\ m \in Seq(S) /\ DataOffset(f, c) \in Nat /\ Len(m) = DataOffset(f, c) + Len(rest)
    /\ SpanFault(f, c, m, TRUE) = "none" /\ Message(f, c, m)
    /\ Prefix(f, c, m).serial = serial
    /\ Prefix(f, c, m).declared = NumberLen(c, 16) + Len(rest)
    /\ EndCode(f, c, m) = code
    /\ At(m, DataOffset(f, c), rest)

\* The end code and what follows it are read as they were written.
LEMMA EndCodeComes ==
    ASSUME NEW m, NEW f, NEW c, NEW serial, NEW r, NEW S, NEW code, NEW rest,
           IsResponse(m, f, c, serial, r, S, code, rest)
    PROVE  ReadsAs(m, f, c, serial, S, code, rest)
<1> DEFINE body == BodyOf(c, code, rest)
<1>0. /\ f \in Frames /\ c \in Codecs /\ SerialOf(f, serial) /\ IsRoute(r) /\ Unit(c) \subseteq S
      /\ code \in Nat /\ code < Values(16) /\ rest \in Seq(S) /\ Len(body) < Values(16)
      /\ m = BuildResponse(f, c, r, serial, body)
  BY DEF IsResponse
<1> DEFINE n == Number(c, code, 16)
           word == NumberLen(c, 16)
           pu == PrefixUnits(f, c)
<1>1. n \in Seq(Unit(c)) /\ Len(n) = word /\ word \in Nat /\ Len(rest) \in Nat
  BY <1>0, NumberUnits, LenProperties
<1>2. n \in Seq(S)
  BY <1>0, <1>1, SeqMonotonic
<1> DEFINE x == n \o rest
<1>3. body = x
  BY DEF BodyOf
<1> HIDE DEF body
<1> HIDE DEF n
<1>4. /\ x \in Seq(S) /\ Len(x) = Len(n) + Len(rest) /\ At(x, 0, n) /\ At(x, Len(n), rest)
  BY <1>0, <1>2, TwoParts
<1> HIDE DEF x
<1>5. body \in Seq(S) /\ Len(body) = word + Len(rest) /\ At(body, 0, n) /\ At(body, word, rest)
  BY <1>1, <1>3, <1>4
<1>6. /\ m \in Seq(S) /\ Len(m) = pu + Len(body) /\ pu \in Nat /\ At(m, pu, body)
      /\ Prefix(f, c, m).serial = serial /\ Prefix(f, c, m).declared = Len(body)
  BY <1>0, <1>5, BuiltWell
<1> HIDE DEF pu
<1>7. PrefixFault(f, c, m, TRUE) = "none" /\ SpanFault(f, c, m, TRUE) = "none"
  <2>1. MinimumDeclared(c, TRUE) = word
    BY DEF MinimumDeclared
  <2> HIDE DEF word
  <2>2. Len(body) >= word
    BY <1>1, <1>5
  <2>3. Len(body) >= MinimumDeclared(c, TRUE)
    BY <2>1, <2>2
  <2>4. m = Assemble(SubheaderOf(f, c, serial, f.response), r, body, c)
    BY <1>0 DEF BuildResponse
  <2> DEFINE response == TRUE
             head == IF response THEN f.response ELSE f.request
             good == Assemble(SubheaderOf(f, c, serial, head), r, body, c)
  <2>5. response \in BOOLEAN /\ Len(body) >= MinimumDeclared(c, response) /\ m = good
    BY <2>3, <2>4
  <2> HIDE DEF response
  <2>6. PrefixFault(f, c, good, response) = "none" /\ SpanFault(f, c, good, response) = "none"
    BY <1>0, <1>5, <2>5, SpanGood
  <2> HIDE DEF good
  <2> QED
    BY <2>5, <2>6 DEF response
<1> HIDE DEF word
<1>8. Message(f, c, m)
  <2> DEFINE l == Len(body)
             d == Prefix(f, c, m).declared
             u == Len(m)
  <2>1. l \in Nat /\ u = pu + l /\ d = l
    BY <1>1, <1>5, <1>6
  <2> HIDE DEF l, d, u
  <2>2. u >= pu /\ d = u - pu
    BY <1>6, <2>1
  <2> QED
    BY <1>7, <2>2 DEF Message, pu, u, d
<1>9. At(m, pu + 0, n) /\ At(m, pu + word, rest)
  BY <1>0, <1>1, <1>2, <1>5, <1>6, AtWithin
<1>10. pu + 0 = pu /\ pu + word \in Nat
  BY <1>1, <1>6
<1>11. DataOffset(f, c) = pu + word
  BY DEF DataOffset, pu, word
<1>12. EndCode(f, c, m) = code
  <2>1. At(m, pu, n)
    BY <1>9, <1>10
  <2>2. ReadNumber(c, m, pu, 16) = code
    BY <1>6, <2>1, <1>0, NumberAt DEF n
  <2> QED
    BY <2>2 DEF EndCode, pu
<1>13. Len(m) = (pu + word) + Len(rest)
  BY <1>1, <1>5, <1>6
<1> QED
  BY <1>5, <1>6, <1>7, <1>8, <1>9, <1>10, <1>11, <1>12, <1>13 DEF word, ReadsAs

\* What the CPU answers is what the client is told: a normal response that is built and
\* parsed again has its serial and its payload, whatever they are, for a client that
\* asked with that serial or looks at none; and however it is cut into pieces it
\* arrives (Frame.build_response and Frame.parse, wire/frames.py).
THEOREM AnswerArrives ==
    ASSUME NEW f \in Frames, NEW c \in Codecs, NEW serial, SerialOf(f, serial),
           NEW r, IsRoute(r), NEW S, Unit(c) \subseteq S, NEW payload \in Seq(S),
           Len(NormalBody(c, payload)) < Values(16), NEW expected \in {NoSerial, serial},
           NEW m, m = BuildResponse(f, c, r, serial, NormalBody(c, payload))
    PROVE  /\ m \in Seq(S) /\ Message(f, c, m)
           /\ ParseFault(f, c, m, expected) = "none"
           /\ RawResponse(f, c, m) = [serial |-> serial, end_code |-> 0,
                                      payload |-> payload, error_info |-> NoErrorInfo]
<1> DEFINE off == DataOffset(f, c)
           code == 0
<1>1. NormalBody(c, payload) = BodyOf(c, code, payload)
  BY DEF NormalBody, BodyOf
<1>2. code \in Nat /\ code < Values(16)
  BY DEF Values
<1> HIDE DEF code
<1>3. IsResponse(m, f, c, serial, r, S, code, payload)
  BY <1>1, <1>2 DEF IsResponse
<1>9. ReadsAs(m, f, c, serial, S, code, payload)
  BY <1>3, EndCodeComes
<1>4. /\ m \in Seq(S) /\ DataOffset(f, c) \in Nat /\ Len(m) = DataOffset(f, c) + Len(payload)
      /\ SpanFault(f, c, m, TRUE) = "none" /\ Message(f, c, m)
      /\ Prefix(f, c, m).serial = serial
      /\ EndCode(f, c, m) = code
      /\ At(m, DataOffset(f, c), payload)
  BY <1>9 DEF ReadsAs
<1>5. EndCode(f, c, m) = 0
  BY <1>4 DEF code
<1>6. ParseFault(f, c, m, expected) = "none"
  <2>1. ~(expected # NoSerial /\ Prefix(f, c, m).serial # expected)
    BY <1>4
  <2>2. 0 # NoNumber
    BY DEF NoNumber
  <2> QED
    BY <1>4, <1>5, <2>1, <2>2, NoFault DEF ParseFault
<1> HIDE DEF off
<1>7. SubSeq(m, off + 1, Len(m)) = payload
  BY <1>4, BodyAt DEF off
<1>8. RawResponse(f, c, m) = [serial |-> serial, end_code |-> 0,
                              payload |-> payload, error_info |-> NoErrorInfo]
  BY <1>4, <1>5, <1>7 DEF RawResponse, off
<1> QED
  BY <1>4, <1>6, <1>8

\* The error block of a refusal is read as it was written.
LEMMA ErrorInfoParts ==
    ASSUME NEW c \in Codecs, NEW q, IsRoute(q),
           NEW command \in Nat, command < Values(16), NEW sub \in Nat, sub < Values(16),
           NEW e, e = EncodeErrorInfo(c, ErrorInfo(q, command, sub))
    PROVE  /\ e \in Seq(Unit(c)) /\ Len(e) = RouteLen(c) + NumberLen(c, 16) + NumberLen(c, 16)
           /\ \A S : \A m \in Seq(S) : \A off \in Nat :
                Unit(c) \subseteq S /\ At(m, off, e)
                  => DecodeErrorInfo(c, m, off) = ErrorInfo(Copy(q), command, sub)
<1> DEFINE a == EncodeRoute(c, q)
           k == Number(c, command, 16)
           u == Number(c, sub, 16)
           rl == RouteLen(c)
           word == NumberLen(c, 16)
           x == a \o k \o u
<1>1. /\ a \in Seq(Unit(c)) /\ Len(a) = rl /\ k \in Seq(Unit(c)) /\ Len(k) = word
      /\ u \in Seq(Unit(c)) /\ Len(u) = word /\ rl \in Nat /\ word \in Nat
  BY RouteParts, NumberUnits, WordWidth
<1>2. e = x
  BY DEF EncodeErrorInfo, ErrorInfo
<1> HIDE DEF a, k, u, rl, word
<1>3. /\ x \in Seq(Unit(c)) /\ Len(x) = Len(a) + Len(k) + Len(u)
      /\ At(x, 0, a) /\ At(x, Len(a), k) /\ At(x, Len(a) + Len(k), u)
  BY <1>1, ThreeParts
<1> HIDE DEF x
<1>4. /\ e \in Seq(Unit(c)) /\ Len(e) = rl + word + word
      /\ At(e, 0, a) /\ At(e, rl, k) /\ At(e, rl + word, u)
  BY <1>1, <1>2, <1>3
<1>5. ASSUME NEW S, NEW m \in Seq(S), NEW off \in Nat, Unit(c) \subseteq S, At(m, off, e)
      PROVE  DecodeErrorInfo(c, m, off) = ErrorInfo(Copy(q), command, sub)
  <2>1. \A s \in Seq(Unit(c)) : s \in Seq(S)
    BY <1>5, SeqMonotonic
  <2>2. a \in Seq(S) /\ k \in Seq(S) /\ u \in Seq(S) /\ e \in Seq(S)
    BY <1>1, <1>4, <2>1
  <2>3. rl + word \in Nat /\ off + 0 = off /\ off + (rl + word) = off + rl + word
        /\ off + rl \in Nat /\ off + rl + word \in Nat
    BY <1>1
  <2>4. At(m, off + 0, a) /\ At(m, off + rl, k) /\ At(m, off + (rl + word), u)
    BY <1>1, <1>4, <1>5, <2>2, <2>3, AtWithin
  <2>5. DecodeRoute(c, m, off) = Copy(q)
    BY <1>5, <2>3, <2>4, RouteSurvives DEF a
  <2>6. ReadNumber(c, m, off + rl, 16) = command
    BY <1>5, <2>3, <2>4, NumberAt DEF k
  <2>7. ReadNumber(c, m, off + rl + word, 16) = sub
    <3>1. At(m, off + rl + word, u)
      BY <2>3, <2>4
    <3> QED
      BY <1>5, <2>3, <3>1, NumberAt DEF u
  <2> QED
    BY <2>5, <2>6, <2>7 DEF DecodeErrorInfo, rl, word
<1> QED
  BY <1>4, <1>5 DEF rl, word

\* And so does what it refuses: the end code comes with its whole error block, and no
\* payload (Frame._parse_abnormal).
THEOREM RefusalArrives ==
    ASSUME NEW f \in Frames, NEW c \in Codecs, NEW serial, SerialOf(f, serial),
           NEW r, IsRoute(r), NEW S, Unit(c) \subseteq S,
           NEW code \in Nat \ {0}, code < Values(16), NEW q, IsRoute(q),
           NEW command \in Nat, command < Values(16), NEW sub \in Nat, sub < Values(16),
           NEW extra \in Seq(S), NEW body,
           body = AbnormalBody(c, code, ErrorInfo(q, command, sub), extra), Len(body) < Values(16),
           NEW expected \in {NoSerial, serial}, NEW m, m = BuildResponse(f, c, r, serial, body)
    PROVE  /\ m \in Seq(S) /\ Message(f, c, m)
           /\ ParseFault(f, c, m, expected) = "none"
           /\ RawResponse(f, c, m) = [serial |-> serial, end_code |-> code, payload |-> <<>>,
                                      error_info |-> ErrorInfo(Copy(q), command, sub)]
<1> DEFINE n == Number(c, code, 16)
           e == EncodeErrorInfo(c, ErrorInfo(q, command, sub))
           rest == e \o extra
           off == DataOffset(f, c)
           rl == RouteLen(c)
           word == NumberLen(c, 16)
<1>1. /\ e \in Seq(Unit(c)) /\ Len(e) = rl + word + word
      /\ \A s \in Seq(S) : \A i \in Nat :
           At(s, i, e) => DecodeErrorInfo(c, s, i) = ErrorInfo(Copy(q), command, sub)
  BY ErrorInfoParts
<1>2. e \in Seq(S)
  BY <1>1, SeqMonotonic
<1>3. n \in Seq(S)
  <2>1. n \in Seq(Unit(c))
    BY NumberUnits
  <2> QED
    BY <2>1, SeqMonotonic
<1>4. body = n \o e \o extra
  BY DEF AbnormalBody
<1> HIDE DEF e, n
<1>5. rest \in Seq(S) /\ Len(rest) = Len(e) + Len(extra) /\ At(rest, 0, e)
  BY <1>2, TwoParts
<1>6. body = n \o rest
  BY <1>2, <1>3, <1>4, ConcatAssociative
<1> HIDE DEF rest
<1>14. body = BodyOf(c, code, rest)
  BY <1>6 DEF BodyOf, n
<1>15. IsResponse(m, f, c, serial, r, S, code, rest)
  BY <1>5, <1>14 DEF IsResponse
<1>16. ReadsAs(m, f, c, serial, S, code, rest)
  BY <1>15, EndCodeComes
<1>7. /\ m \in Seq(S) /\ off \in Nat /\ Len(m) = off + Len(rest)
      /\ SpanFault(f, c, m, TRUE) = "none" /\ Message(f, c, m)
      /\ Prefix(f, c, m).serial = serial /\ Prefix(f, c, m).declared = word + Len(rest)
      /\ EndCode(f, c, m) = code
      /\ At(m, off, rest)
  BY <1>16 DEF ReadsAs
<1> HIDE DEF off
<1>8. DecodeErrorInfo(c, m, off) = ErrorInfo(Copy(q), command, sub)
  <2>1. At(m, off + 0, e) /\ off + 0 = off
    BY <1>2, <1>5, <1>7, AtWithin
  <2> QED
    BY <1>1, <1>7, <2>1
<1>9. AbnormalFault(f, c, m) = "none"
  <2>1. ~(Prefix(f, c, m).declared < AbnormalMinUnits * Width(c))
    <3>1. Len(extra) \in Nat
      BY LenProperties
    <3> DEFINE d == Prefix(f, c, m).declared
    <3>2. d = word + (rl + word + word + Len(extra))
      BY <1>1, <1>5, <1>7
    <3>3. Width(c) \in {1, 2} /\ word = 2 * Width(c) /\ rl = 5 * Width(c)
      BY WordWidth
    <3>4. AbnormalMinUnits = 11
      BY DEF AbnormalMinUnits
    <3> DEFINE w == Width(c)
               k == Len(extra)
    <3>5. w \in {1, 2} /\ word = 2 * w /\ rl = 5 * w /\ k \in Nat /\ d = word + (rl + word + word + k)
      BY <3>1, <3>2, <3>3
    <3> HIDE DEF word, rl, w, k, d
    <3>7. word + (rl + word + word + k) = 11 * w + k /\ 11 * w \in Nat
      BY <3>5
    <3>8. ~(d < 11 * w)
      BY <3>5, <3>7
    <3> QED
      BY <3>4, <3>8 DEF d, w
  <2> DEFINE info == ErrorInfo(Copy(q), command, sub)
  <2>2. info.responding = Copy(q) /\ info.command = command /\ info.subcommand = sub
    BY DEF ErrorInfo
  <2>3. RouteFault(info.responding) = "none"
    BY <2>2, RouteFits
  <2>4. NoNumber \notin {info.command, info.subcommand}
    BY <2>2 DEF NoNumber
  <2> HIDE DEF info
  <2>5. DecodeErrorInfo(c, m, off) = info
    BY <1>8 DEF info
  <2> QED
    BY <2>1, <2>3, <2>4, <2>5, NoFault DEF AbnormalFault, off
<1>10. ParseFault(f, c, m, expected) = "none"
  <2>1. ~(expected # NoSerial /\ Prefix(f, c, m).serial # expected)
    BY <1>7
  <2>2. code # NoNumber /\ code # 0
    BY DEF NoNumber
  <2> QED
    BY <1>7, <1>9, <2>1, <2>2, NoFault DEF ParseFault
<1>11. RawResponse(f, c, m) = [serial |-> serial, end_code |-> code, payload |-> <<>>,
                               error_info |-> ErrorInfo(Copy(q), command, sub)]
  BY <1>7, <1>8 DEF RawResponse, off
<1> QED
  BY <1>7, <1>10, <1>11

\* An answer to another question is never taken for the answer to this one: where the
\* frame carries a serial and it is not the one that was asked with, the message is
\* refused for it, normal or not (Frame._check_serial).
THEOREM StrangersAreRefused ==
    ASSUME NEW m, NEW f, NEW c, NEW serial, NEW r, NEW S, NEW code, NEW rest,
           IsResponse(m, f, c, serial, r, S, code, rest), f.carries_serial,
           NEW expected \in Nat, expected # serial
    PROVE  ParseFault(f, c, m, expected) = "serial"
<1>1. SpanFault(f, c, m, TRUE) = "none" /\ Prefix(f, c, m).serial = serial
  BY EndCodeComes DEF ReadsAs
<1>2. expected # NoSerial
  BY DEF NoSerial, NoNumber
<1>3. "serial" # "none" /\ \A x : "serial" ?? x = "serial"
  BY DEF ??
<1> QED
  BY <1>1, <1>2, <1>3, NoFault DEF ParseFault

\* A code of which no row of COMMANDS says that it mutates.
MovesNothing(code) == \A row \in COMMANDS : row.code = code => ~row.mutates

\* REMOTE RUN, STOP and PAUSE.
RemoteCodes == {4097, 4098, 4099}

\* What the rows of COMMANDS have in common.
LEMMA TheTable ==
    ASSUME NEW row \in COMMANDS
    PROVE  /\ row.code \in Nat /\ row.code < Values(16)
           /\ ~row.mutates => MovesNothing(row.code)
           /\ row.code \in RemoteCodes => row.commands \subseteq Remotes
           /\ "Raw" \notin row.commands
<1>1. row.code \in Nat /\ row.code < 6000
  BY DEF COMMANDS, CommandSpec
<1>2. row.code < Values(16)
  BY <1>1 DEF Values
<1>4. ~row.mutates => row.code \in {257, 1025, 1027, 1030, 1561, 2050}
  BY DEF COMMANDS, CommandSpec
<1>5. \A other \in COMMANDS : other.mutates => other.code \notin {257, 1025, 1027, 1030, 1561, 2050}
  BY DEF COMMANDS, CommandSpec
<1>6. row.code \in RemoteCodes => row.commands \in {{"RemoteRun"}, {"RemoteStop"}, {"RemotePause"}}
  BY DEF COMMANDS, CommandSpec, RemoteCodes
<1>7. row.code \in RemoteCodes => row.commands \subseteq Remotes
  BY <1>6 DEF Remotes, FixedFields
<1>8. "Raw" \notin row.commands
  BY DEF COMMANDS, CommandSpec
<1>9. ~row.mutates => MovesNothing(row.code)
  BY <1>4, <1>5 DEF MovesNothing
<1> QED
  BY <1>1, <1>2, <1>7, <1>8, <1>9

\* A command of the table has the code and the effect of its row.
LEMMA RowOfCommand ==
    ASSUME NEW cmd, \E row \in COMMANDS : cmd.name \in row.commands
    PROVE  /\ Row(cmd) \in COMMANDS /\ cmd.name \in Row(cmd).commands
           /\ Code(cmd) = Row(cmd).code /\ Mutates(cmd) = Row(cmd).mutates
           /\ cmd.name # "Raw"
<1>1. Row(cmd) \in COMMANDS /\ cmd.name \in Row(cmd).commands
  BY DEF Row
<1>2. cmd.name # "Raw"
  BY <1>1, TheTable
<1> QED
  BY <1>1, <1>2 DEF Code, Mutates

\* The codes that a command which moves nothing does not have.
LEMMA MutatingCodes ==
    ASSUME NEW code, MovesNothing(code)
    PROVE  code \notin {2049, 4097, 4098, 4099, 4101, 4102, 5121, 5122, 5126, 5655, 5680, 5681}
BY DEF COMMANDS, CommandSpec, MovesNothing

\* What the client asks allow_remote_control for includes the remote commands.
LEMMA RemoteCodesOf ==
    RemoteCodes \subseteq REMOTE_CONTROL_COMMANDS
<1>1. ASSUME NEW name, NEW code, name \in Remotes,
             \A row \in COMMANDS : name \in row.commands => row.code = code,
             \E row \in COMMANDS : name \in row.commands
      PROVE  code \in REMOTE_CONTROL_COMMANDS
  <2>1. [name |-> name].name = name
    OBVIOUS
  <2>2. Code([name |-> name]) = code
    BY <1>1, <2>1, RowOfCommand
  <2> QED
    BY <1>1, <2>2 DEF REMOTE_CONTROL_COMMANDS
<1>2. 4097 \in REMOTE_CONTROL_COMMANDS
  <2>1. /\ "RemoteRun" \in Remotes
        /\ \A row \in COMMANDS : "RemoteRun" \in row.commands => row.code = 4097
        /\ \E row \in COMMANDS : "RemoteRun" \in row.commands
    BY DEF COMMANDS, CommandSpec, Remotes, FixedFields
  <2> QED
    BY <1>1, <2>1
<1>3. 4098 \in REMOTE_CONTROL_COMMANDS
  <2>1. /\ "RemoteStop" \in Remotes
        /\ \A row \in COMMANDS : "RemoteStop" \in row.commands => row.code = 4098
        /\ \E row \in COMMANDS : "RemoteStop" \in row.commands
    BY DEF COMMANDS, CommandSpec, Remotes, FixedFields
  <2> QED
    BY <1>1, <2>1
<1>4. 4099 \in REMOTE_CONTROL_COMMANDS
  <2>1. /\ "RemotePause" \in Remotes
        /\ \A row \in COMMANDS : "RemotePause" \in row.commands => row.code = 4099
        /\ \E row \in COMMANDS : "RemotePause" \in row.commands
    BY DEF COMMANDS, CommandSpec, Remotes, FixedFields
  <2> QED
    BY <1>1, <2>1
<1> QED
  BY <1>2, <1>3, <1>4 DEF RemoteCodes

\* The context a request is served in, and the state of a session.
IsServing(s) ==
    s \in [target : {s.target}, memory : {s.memory}, state : {s.state}, codec : {s.codec},
           encoding : {s.encoding}, spec : {s.spec}, unit : {s.unit}]

\* The state of a CPU, its registration aside.
IsState(st) ==
    st \in [switch_position : {RUN, STOP}, remote_request : {RUN, STOP, PAUSE},
            monitor_points : {st.monitor_points}, password_locked : BOOLEAN]

\* Nothing is changed, the CPU is left in its operating state, the state is one.
Untouched(s, o) == o.memory = s.memory /\ o.state = s.state

\* The CPU is left in its operating state, and its state is one.
Unmoved(s, o) == o.state.remote_request = s.state.remote_request /\ IsState(o.state)

\* Its state is one.
Stays(s, o) == IsState(o.state)

\* An answer, a refusal and silence leave everything as it is.
LEMMA Answers ==
    ASSUME NEW s, NEW payload, NEW name
    PROVE  /\ Untouched(s, Reply(s, payload)) /\ Untouched(s, Refusal(s, name)) /\ Untouched(s, Silence(s))
           /\ Reply(s, payload).payload = payload /\ Reply(s, payload).end_code = 0
           /\ Refusal(s, name).payload = <<>>
           /\ Refusal(s, name).end_code = s.target.end_codes[name]
BY DEF Untouched, Reply, Refusal, Silence

\* A handler that refuses leaves everything as it is ...
LEMMA UnlessUntouched ==
    ASSUME NEW s, NEW fault, NEW o, fault = "none" => Untouched(s, o)
    PROVE  Untouched(s, Unless(s, fault, o))
BY Answers DEF Unless

\* ... its operating state ...
LEMMA UnlessUnmoved ==
    ASSUME NEW s, IsState(s.state), NEW fault, NEW o, fault = "none" => Unmoved(s, o)
    PROVE  Unmoved(s, Unless(s, fault, o))
BY Answers DEF Unless, Unmoved, Untouched

\* ... and its state one.
LEMMA UnlessStays ==
    ASSUME NEW s, IsState(s.state), NEW fault, NEW o, fault = "none" => Stays(s, o)
    PROVE  Stays(s, Unless(s, fault, o))
<1>1. CASE fault = "none"
  BY <1>1 DEF Unless
<1>2. CASE fault # "none"
  <2>1. Unless(s, fault, o) = Refusal(s, fault) /\ Refusal(s, fault).state = s.state
    BY <1>2, Answers DEF Unless, Untouched
  <2> QED
    BY <2>1 DEF Stays
<1> QED
  BY <1>1, <1>2

\* Who changes nothing does not move the CPU.
LEMMA UntouchedIsUnmoved ==
    ASSUME NEW s, IsState(s.state), NEW o, Untouched(s, o)
    PROVE  Unmoved(s, o) /\ Stays(s, o)
BY DEF Untouched, Unmoved, Stays

\* The handlers that read.
LEMMA ReadsTouchNothing ==
    ASSUME NEW s, NEW k
    PROVE  /\ Untouched(s, HandleReadTypeName(s, k))
           /\ Untouched(s, HandleSelfTest(s, k))
           /\ Untouched(s, HandleClearError(s, k))
           /\ Untouched(s, HandleBatchRead(s, k))
           /\ Untouched(s, HandleReadRandom(s, k))
           /\ Untouched(s, HandleReadBlocks(s, k))
           /\ Untouched(s, HandleExecuteMonitor(s, k))
           /\ Untouched(s, HandleRemoteLatchClear(s, k))
           /\ Untouched(s, HandleRemoteReset(s, k))
<1>1. Untouched(s, HandleReadTypeName(s, k))
  BY Answers, UnlessUntouched DEF HandleReadTypeName
<1>2. Untouched(s, HandleSelfTest(s, k))
  BY Answers, UnlessUntouched DEF HandleSelfTest
<1>3. Untouched(s, HandleClearError(s, k))
  BY Answers, UnlessUntouched DEF HandleClearError
<1>4. Untouched(s, HandleBatchRead(s, k))
  BY Answers, UnlessUntouched DEF HandleBatchRead
<1>5. \A points : Untouched(s, Sampled(s, points))
  BY Answers, UnlessUntouched DEF Sampled
<1>6. Untouched(s, HandleReadRandom(s, k))
  BY <1>5, UnlessUntouched DEF HandleReadRandom
<1>7. Untouched(s, HandleReadBlocks(s, k))
  BY Answers, UnlessUntouched DEF HandleReadBlocks
<1>8. Untouched(s, HandleExecuteMonitor(s, k))
  BY <1>5, UnlessUntouched DEF HandleExecuteMonitor
<1>9. Untouched(s, HandleRemoteLatchClear(s, k))
  BY Answers, UnlessUntouched DEF HandleRemoteLatchClear
<1>10. Untouched(s, HandleRemoteReset(s, k))
  BY Answers, UnlessUntouched DEF HandleRemoteReset
<1> QED
  BY <1>1, <1>2, <1>3, <1>4, <1>6, <1>7, <1>8, <1>9, <1>10

\* The handlers that write, and those that change the session.
LEMMA WritesMoveNothing ==
    ASSUME NEW s, IsServing(s), IsState(s.state), NEW k
    PROVE  /\ Unmoved(s, HandleBatchWrite(s, k))
           /\ Unmoved(s, HandleWriteRandom(s, k))
           /\ Unmoved(s, HandleWriteBlocks(s, k))
           /\ Unmoved(s, HandleRegisterMonitor(s, k))
<1>1. \A m, p : LET t == [s EXCEPT !.memory = m] IN Unmoved(s, Reply(t, p)) /\ t.state = s.state
  BY DEF Unmoved, IsServing, Reply
<1>2. \A end : Unmoved(s, Ended(s, end))
  <2> TAKE end
  <2> DEFINE t == [s EXCEPT !.memory = end.memory]
  <2>1. t.state = s.state /\ Unmoved(s, Reply(t, <<>>))
    BY <1>1
  <2> HIDE DEF t
  <2>2. \A name : Refusal(t, name).state = s.state
    BY <2>1, Answers DEF Untouched
  <2>3. Unmoved(s, Unless(t, end.fault, Reply(t, <<>>)))
    BY <2>1, <2>2 DEF Unless, Unmoved
  <2> QED
    BY <2>3 DEF Ended, t
<1>3. \A pending : Unmoved(s, Written(s, pending))
  BY <1>2 DEF Written
<1>4. Unmoved(s, HandleBatchWrite(s, k))
  <2> DEFINE WroteAt(device, count, values) ==
                 IF s.unit = "word" THEN Written(s, <<[device |-> device, values |-> values]>>)
                 ELSE Unless(s, BitSpanFault(s, device, count),
                             Reply([s EXCEPT !.memory = WriteCells(@, device.type, device.index, values)],
                                   <<>>))
  <2>1. \A m, p : Unmoved(s, Reply([s EXCEPT !.memory = m], p))
    BY <1>1
  <2>2. \A device, count, values : Unmoved(s, WroteAt(device, count, values))
    BY <1>3, <2>1, UnlessUnmoved
  <2> HIDE DEF WroteAt
  <2>3. \A w : Unmoved(s, Unless(s, w.fault, WroteAt(Field(w, 1), Field(w, 2), Field(w, 3))))
    BY <2>2, UnlessUnmoved
  <2> QED
    BY <2>3, UnlessUnmoved DEF HandleBatchWrite, WroteAt
<1>5. Unmoved(s, HandleWriteRandomWords(s, k))
  BY <1>3, UnlessUnmoved DEF HandleWriteRandomWords
<1>6. Unmoved(s, HandleWriteRandomBits(s, k))
  BY <1>2, UnlessUnmoved DEF HandleWriteRandomBits
<1>7. Unmoved(s, HandleWriteBlocks(s, k))
  BY <1>3, UnlessUnmoved DEF HandleWriteBlocks
<1>8. Unmoved(s, HandleRegisterMonitor(s, k))
  <2>1. \A points : Unmoved(s, Reply([s EXCEPT !.state.monitor_points = points], <<>>))
    BY DEF Unmoved, IsServing, IsState, Reply
  <2> QED
    BY <2>1, UnlessUnmoved DEF HandleRegisterMonitor
<1> QED
  BY <1>4, <1>5, <1>6, <1>7, <1>8 DEF HandleWriteRandom

\* The password handlers.
LEMMA PasswordsMoveNothing ==
    ASSUME NEW s, IsServing(s), IsState(s.state), NEW k
    PROVE  Unmoved(s, HandleUnlockPassword(s, k)) /\ Unmoved(s, HandleLockPassword(s, k))
<1>1. ASSUME NEW locked \in BOOLEAN PROVE Unmoved(s, HandlePassword(s, k, locked))
  <2>1. Unmoved(s, Reply([s EXCEPT !.state.password_locked = locked], <<>>))
    BY DEF Unmoved, IsServing, IsState, Reply
  <2> QED
    BY <2>1, UnlessUnmoved DEF HandlePassword
<1>2. TRUE \in BOOLEAN /\ FALSE \in BOOLEAN
  OBVIOUS
<1>3. Unmoved(s, HandlePassword(s, k, FALSE)) /\ Unmoved(s, HandlePassword(s, k, TRUE))
  BY <1>1, <1>2, Zenon
<1> QED
  BY <1>3, Zenon DEF HandleUnlockPassword, HandleLockPassword

\* The remote handlers.
LEMMA RemoteStays ==
    ASSUME NEW s, IsServing(s), IsState(s.state), NEW k
    PROVE  /\ Stays(s, HandleRemoteRun(s, k))
           /\ Stays(s, HandleRemoteStop(s, k))
           /\ Stays(s, HandleRemotePause(s, k))
<1>1. \A to \in {RUN, STOP, PAUSE} : \A p : Stays(s, Reply(Requested(s, to), p))
  BY DEF Stays, IsServing, IsState, Reply, Requested
<1> QED
  BY <1>1, UnlessStays DEF HandleRemoteRun, HandleRemoteStop, HandleRemotePause

\* A request of a code that mutates nothing changes nothing, and only three codes move
\* the CPU (testing/dispatch.py, HANDLERS).
LEMMA HandlerTouches ==
    ASSUME NEW s, IsServing(s), IsState(s.state), NEW code, NEW k
    PROVE  /\ MovesNothing(code) => Untouched(s, Handler(s, code, k))
           /\ code \notin RemoteCodes => Unmoved(s, Handler(s, code, k))
           /\ Stays(s, Handler(s, code, k))
<1>1. CASE code \in {257, 1025, 1027, 1030, 1561, 2050, 4101, 4102, 5655}
  <2>1. code = 257 => Untouched(s, Handler(s, code, k))
    BY ReadsTouchNothing DEF Handler
  <2>2. code = 1025 => Untouched(s, Handler(s, code, k))
    BY ReadsTouchNothing DEF Handler
  <2>3. code = 1027 => Untouched(s, Handler(s, code, k))
    BY ReadsTouchNothing DEF Handler
  <2>4. code = 1030 => Untouched(s, Handler(s, code, k))
    BY ReadsTouchNothing DEF Handler
  <2>5. code = 1561 => Untouched(s, Handler(s, code, k))
    BY ReadsTouchNothing DEF Handler
  <2>6. code = 2050 => Untouched(s, Handler(s, code, k))
    BY ReadsTouchNothing DEF Handler
  <2>7. code = 4101 => Untouched(s, Handler(s, code, k))
    BY ReadsTouchNothing DEF Handler
  <2>8. code = 4102 => Untouched(s, Handler(s, code, k))
    BY ReadsTouchNothing DEF Handler
  <2>9. code = 5655 => Untouched(s, Handler(s, code, k))
    BY ReadsTouchNothing DEF Handler
  <2>10. Untouched(s, Handler(s, code, k))
    BY <1>1, <2>1, <2>2, <2>3, <2>4, <2>5, <2>6, <2>7, <2>8, <2>9
  <2> QED
    BY <2>10, UntouchedIsUnmoved
<1>2. CASE code \in {2049, 5121, 5122, 5126, 5680, 5681}
  <2>1. code = 2049 => Unmoved(s, Handler(s, code, k))
    BY WritesMoveNothing DEF Handler
  <2>2. code = 5121 => Unmoved(s, Handler(s, code, k))
    BY WritesMoveNothing DEF Handler
  <2>3. code = 5122 => Unmoved(s, Handler(s, code, k))
    BY WritesMoveNothing DEF Handler
  <2>4. code = 5126 => Unmoved(s, Handler(s, code, k))
    BY WritesMoveNothing DEF Handler
  <2>5. code = 5680 => Unmoved(s, Handler(s, code, k))
    BY PasswordsMoveNothing DEF Handler
  <2>6. code = 5681 => Unmoved(s, Handler(s, code, k))
    BY PasswordsMoveNothing DEF Handler
  <2>7. Unmoved(s, Handler(s, code, k))
    BY <1>2, <2>1, <2>2, <2>3, <2>4, <2>5, <2>6
  <2> QED
    BY <1>2, <2>7, MutatingCodes DEF Unmoved, Stays
<1>3. CASE code \in {4097, 4098, 4099}
  <2>1. code = 4097 => Stays(s, Handler(s, code, k))
    BY RemoteStays DEF Handler
  <2>2. code = 4098 => Stays(s, Handler(s, code, k))
    BY RemoteStays DEF Handler
  <2>3. code = 4099 => Stays(s, Handler(s, code, k))
    BY RemoteStays DEF Handler
  <2>4. Stays(s, Handler(s, code, k))
    BY <1>3, <2>1, <2>2, <2>3
  <2>5. ~MovesNothing(code)
    BY <1>3, MutatingCodes
  <2>6. code \in RemoteCodes
    BY <1>3 DEF RemoteCodes
  <2> QED
    BY <2>4, <2>5, <2>6
<1>4. CASE code \notin {257, 1025, 1027, 1030, 1561, 2050, 4101, 4102, 5655}
                \cup {2049, 5121, 5122, 5126, 5680, 5681} \cup {4097, 4098, 4099}
  <2>1. \E name : Handler(s, code, k) = Refusal(s, name)
    BY <1>4 DEF Handler
  <2>2. Untouched(s, Handler(s, code, k))
    BY <2>1, Answers
  <2> QED
    BY <2>2, UntouchedIsUnmoved
<1> QED
  BY <1>1, <1>2, <1>3, <1>4

\* Every handler: a command that mutates nothing only has SD203 said again, and the
\* operating state is the remote commands'.
LEMMA HandleTouches ==
    ASSUME NEW target, NEW mem, NEW st, IsState(st), NEW encoding, NEW request, NEW served,
           served = Handle(target, mem, st, encoding, request)
    PROVE  /\ MovesNothing(request.command) =>
                 served.state = st /\ served.memory = PublishState(mem, st)
           /\ request.command \notin RemoteCodes => served.state.remote_request = st.remote_request
           /\ IsState(served.state)
<1> DEFINE sub == request.subcommand
           s == [target |-> target, memory |-> PublishState(mem, st), state |-> st,
                 codec |-> Coding(encoding), encoding |-> encoding,
                 spec |-> SubcommandSpec(sub), unit |-> SubcommandUnit(sub)]
           h == Handler(s, request.command, Start(request.payload))
           fault == Refuse(sub \notin KnownSubcommands, "unsupported_subcommand")
                      ?? Refuse(st.password_locked /\ request.command \notin PASSWORD_EXEMPT_COMMANDS,
                                "password_locked")
                      ?? Refuse(Extended(sub) \/ ~SupportsSpec(target, s.spec), "unsupported_subcommand")
<1>1. served = Unless(s, fault, h)
  BY DEF Handle
<1>2. IsServing(s) /\ s.state = st /\ s.memory = PublishState(mem, st)
  BY DEF IsServing
<1> HIDE DEF s, fault
<1>3. /\ MovesNothing(request.command) => Untouched(s, h)
      /\ request.command \notin RemoteCodes => Unmoved(s, h)
      /\ Stays(s, h)
  BY <1>2, HandlerTouches
<1> HIDE DEF h
<1>4. /\ MovesNothing(request.command) => Untouched(s, served)
      /\ request.command \notin RemoteCodes => Unmoved(s, served)
      /\ Stays(s, served)
  BY <1>1, <1>2, <1>3, UnlessUntouched, UnlessUnmoved, UnlessStays
<1> QED
  BY <1>2, <1>4 DEF Untouched, Unmoved, Stays

\* A command of the table, or one of the caller's own hands of which he has told the truth.
Known(cmd) == \E row \in COMMANDS : cmd.name \in row.commands

\* Who sends with his own hands says that a command of the table mutates if it does.
Honest(cmd) ==
    /\ cmd.name = "Raw"
    /\ \A row \in COMMANDS : row.code = cmd.command /\ row.mutates => cmd.mutates

\* A command that is on its way: its code and subcommand fit their fields, and it moves
\* the CPU only for a client that was opened for it.
Sendable(cmd, ctx) ==
    /\ Known(cmd) \/ Honest(cmd)
    /\ Code(cmd) \in Nat /\ Code(cmd) < Values(16)
    /\ SubcommandOf(cmd, ctx) \in Nat /\ SubcommandOf(cmd, ctx) < Values(16)
    /\ Code(cmd) \in RemoteCodes => ctx.allow_remote_control

\* The code of a command that does not mutate moves nothing.
LEMMA HarmlessCode ==
    ASSUME NEW cmd, Known(cmd) \/ Honest(cmd), ~Mutates(cmd)
    PROVE  MovesNothing(Code(cmd))
<1>1. CASE Known(cmd)
  BY <1>1, RowOfCommand, TheTable DEF Known
<1>2. CASE Honest(cmd)
  BY <1>2 DEF Honest, Mutates, Code, MovesNothing
<1> QED
  BY <1>1, <1>2

\* A subcommand fits its field.
LEMMA SmallSubcommands ==
    ASSUME NEW unit, NEW spec
    PROVE  Subcommand(unit, spec) \in Nat /\ Subcommand(unit, spec) < Values(16)
BY DEF Subcommand, BIT_UNITS, LONG_SPEC, Values

\* No fault in either.
LEMMA NoneOfBoth ==
    ASSUME NEW a, NEW b, a ?? b = "none"
    PROVE  a = "none" /\ b = "none"
BY DEF ??

\* What was not refused is in order.
LEMMA RefusesIf ==
    ASSUME NEW name, name # "none", NEW condition, Refuse(condition, name) = "none"
    PROVE  ~condition
BY DEF Refuse

\* The greatest word.
LEMMA WordMax == UINT16_MAX \in Nat /\ SERIAL_MAX \in Nat /\ Values(16) = UINT16_MAX + 1 /\ SERIAL_MAX = UINT16_MAX
BY DEF UINT16_MAX, SERIAL_MAX, Values

\* The code and the subcommand of raw_command fit their fields once checked.
LEMMA RawFits ==
    ASSUME NEW cmd, cmd.name = "Raw", ValuesFault(cmd) = "none"
    PROVE  /\ cmd.command \in Nat /\ cmd.command < Values(16)
           /\ cmd.subcommand \in Nat /\ cmd.subcommand < Values(16)
<1>1. cmd.name \notin Batches /\ cmd.name \notin {"ReadBlocks", "WriteBlocks"}
  BY DEF Batches
<1>3. {cmd.command, cmd.subcommand} \subseteq 0 .. UINT16_MAX
  BY <1>1 DEF ValuesFault, Refuse
<1> QED
  BY <1>3, WordMax

\* So do those of every other command.
LEMMA SubcommandFits ==
    ASSUME NEW cmd, NEW ctx, cmd.name # "Raw"
    PROVE  SubcommandOf(cmd, ctx) \in Nat /\ SubcommandOf(cmd, ctx) < Values(16)
<1>1. 0 \in Nat /\ 0 < Values(16)
  BY DEF Values
<1> QED
  BY <1>1, SmallSubcommands DEF SubcommandOf

\* What validate refuses of a remote command, and of nothing else.
LEMMA RemoteIsInterlocked ==
    ASSUME NEW cmd, NEW ctx, Known(cmd), Code(cmd) \in RemoteCodes, Validate(cmd, ctx) = "none"
    PROVE  ctx.allow_remote_control
<1>1. cmd.name \in Remotes
  BY RowOfCommand, TheTable DEF Known
<1>2. Validate(cmd, ctx) = ValidateRemote(cmd, ctx)
  <2>1. /\ cmd.name \notin Batches /\ cmd.name \notin {"ReadRandom", "WriteRandom"}
        /\ cmd.name # "RegisterMonitor" /\ cmd.name # "ExecuteMonitor"
        /\ cmd.name # "WriteRandomBits" /\ cmd.name \notin {"ReadBlocks", "WriteBlocks"}
        /\ cmd.name # "ReadTypeName" /\ cmd.name # "SelfTest" /\ cmd.name # "ClearError"
        /\ cmd.name \notin Passwords /\ cmd.name # "Raw"
    BY <1>1 DEF Batches, Passwords, Remotes, FixedFields
  <2> QED
    BY <1>1, <2>1 DEF Validate
<1>3. RequireInterlock(cmd, ctx) = "none"
  BY <1>2, NoneOfBoth DEF ValidateRemote
<1>4. Refuse(~ctx.allow_remote_control, "configuration") = "none"
  BY <1>3, NoneOfBoth DEF RequireInterlock
<1> QED
  BY <1>4, RefusesIf

\* What a client has let pass may travel.
LEMMA NotRefusedIsSendable ==
    ASSUME NEW cmd, NEW ctx, Refused(cmd, ctx) = "none",
           \/ Known(cmd)
           \/ Honest(cmd) /\ (Code(cmd) \in RemoteCodes => ctx.allow_remote_control)
    PROVE  Sendable(cmd, ctx)
<1>1. ValuesFault(cmd) = "none" /\ Validate(cmd, ctx) = "none"
  BY NoneOfBoth DEF Refused
<1>2. CASE Known(cmd)
  <2>1. cmd.name # "Raw" /\ Code(cmd) \in Nat /\ Code(cmd) < Values(16)
    BY <1>2, RowOfCommand, TheTable DEF Known
  <2> QED
    BY <1>1, <1>2, <2>1, SubcommandFits, RemoteIsInterlocked DEF Sendable
<1>3. CASE Honest(cmd) /\ (Code(cmd) \in RemoteCodes => ctx.allow_remote_control)
  <2>1. cmd.name = "Raw" /\ Code(cmd) = cmd.command
    BY <1>3 DEF Honest, Code
  <2>2. SubcommandOf(cmd, ctx) = cmd.subcommand
    BY <2>1 DEF SubcommandOf, Batches
  <2> QED
    BY <1>1, <1>3, <2>1, <2>2, RawFits DEF Sendable
<1> QED
  BY <1>2, <1>3

\* The commands the verbs use are of the table.
LEMMA KnownNames ==
    ASSUME NEW cmd, cmd.name \in {"ReadWords", "ReadBits", "ReadRandom", "WriteWords", "WriteBits",
                                  "WriteRandom", "WriteRandomBits"} \cup Remotes
    PROVE  Known(cmd)
BY DEF Known, COMMANDS, CommandSpec, Remotes, FixedFields

\* A random read moves nothing, whatever its points.
LEMMA ReadRandomIsSendable ==
    ASSUME NEW points, NEW ctx
    PROVE  Sendable(ReadRandomOf(points), ctx)
<1> DEFINE cmd == ReadRandomOf(points)
<1>1. cmd.name = "ReadRandom"
  BY DEF ReadRandomOf
<1> HIDE DEF cmd
<1>2. Known(cmd) /\ cmd.name # "Raw"
  BY <1>1, KnownNames
<1>3. Code(cmd) \in Nat /\ Code(cmd) < Values(16) /\ (Code(cmd) \in RemoteCodes => cmd.name \in Remotes)
  BY <1>2, RowOfCommand, TheTable DEF Known
<1>4. Code(cmd) \notin RemoteCodes
  BY <1>1, <1>3 DEF Remotes, FixedFields
<1> QED
  BY <1>2, <1>3, <1>4, SubcommandFits DEF Sendable, cmd

\* A write of a block is a command of the table.
LEMMA ABlockWriteIsKnown ==
    ASSUME NEW block, NEW ctx, NEW given
    PROVE  Known(BlockWriteCommand(block, ctx, given))
<1>1. \A writes : Known(WriteRandomBitsOf(writes)) /\ Known(WriteRandomOf(writes))
  BY KnownNames DEF WriteRandomBitsOf, WriteRandomOf
<1> QED
  BY <1>1 DEF BlockWriteCommand

\* A digit and an octet are units.
LEMMA UnitIsUnit ==
    ASSUME NEW c PROVE Unit(c) \subseteq UnitOf(c)
BY DEF Unit, UnitOf

\* A sequence is one of its own units.
LEMMA OwnRange ==
    ASSUME NEW S, NEW m \in Seq(S)
    PROVE  m \in Seq(Range(m))
<1>1. Len(m) \in Nat /\ DOMAIN m = 1 .. Len(m)
  BY LenProperties
<1>2. m = [i \in 1 .. Len(m) |-> m[i]] /\ \A i \in 1 .. Len(m) : m[i] \in Range(m)
  BY <1>1, LenProperties DEF Range
<1>3. m \in [1 .. Len(m) -> Range(m)]
  BY <1>2
<1> QED
  BY <1>1, <1>3

\* Whom a plant lets in: what the constants say of it.
IsEntry(entry) ==
    /\ entry.frame \in Frames /\ entry.ctx.codec \in Codecs /\ IsRoute(entry.route)
    /\ entry.transport \in {"tcp", "udp"}
    /\ entry.frame.carries_serial \in BOOLEAN

\* What PlantsAssumption says of an entry.
LEMMA EntriesAreWell ==
    ASSUME plant \in DOMAIN Plants, NEW e \in DOMAIN ThePlant.entries
    PROVE  IsEntry(ThePlant.entries[e])
<1>1. ThePlant \in Range(Plants) /\ ThePlant.entries[e] \in Range(ThePlant.entries)
  BY DEF ThePlant, Range
<1>2. /\ IsContext(ThePlant.entries[e].ctx) /\ ThePlant.entries[e].frame \in Frames
      /\ IsRoute(ThePlant.entries[e].route) /\ ThePlant.entries[e].transport \in {"tcp", "udp"}
  BY <1>1, PlantsAssumption
<1>3. ThePlant.entries[e].ctx.codec \in Codecs
  BY <1>2 DEF IsContext, Coding, Codecs
<1> QED
  BY <1>2, <1>3, FrameParts DEF IsEntry

\* The next of the serial numbers is one.
LEMMA NextSerial ==
    ASSUME NEW frame \in Frames, NEW n \in Nat \ {0}
    PROVE  SerialOf(frame, SerialFor(frame, n))
<1>1. SERIAL_MAX \in Nat \ {0} /\ n - 1 \in Nat /\ SERIAL_MAX < Values(16) /\ Values(16) = SERIAL_MAX + 1
  <2>1. SERIAL_MAX # 0
    BY DEF SERIAL_MAX
  <2> QED
    BY <2>1, WordMax
<1>2. \A a \in Nat, b \in Nat \ {0} : a % b \in Nat /\ a % b < b
  OBVIOUS
<1>3. (n - 1) % SERIAL_MAX \in Nat /\ (n - 1) % SERIAL_MAX < SERIAL_MAX
  BY <1>1, <1>2
<1> QED
  BY <1>1, <1>3 DEF SerialOf, SerialFor

\* The monitoring timer fits its field.
LEMMA Timer == MONITORING_TIMER \in Nat /\ MONITORING_TIMER < Values(16)
BY DEF MONITORING_TIMER, Values

\* What a client of Wire sends is what its CPU reads.
LEMMA WhatIsAsked ==
    ASSUME NEW entry, IsEntry(entry), NEW cmd, Sendable(cmd, entry.ctx),
           NEW serial, SerialOf(entry.frame, serial),
           Encode(cmd, entry.ctx) \in Seq(UnitOf(entry.ctx.codec)),
           NEW request,
           request = RawRequest(entry.frame, entry.ctx.codec, RequestUnits(entry, cmd, serial))
    PROVE  /\ request.serial = serial /\ request.route = Copy(entry.route)
           /\ request.command = Code(cmd) /\ request.subcommand = SubcommandOf(cmd, entry.ctx)
           /\ request.payload = Encode(cmd, entry.ctx)
<1> DEFINE c == entry.ctx.codec
           f == entry.frame
           r == entry.route
           code == Code(cmd)
           sub == SubcommandOf(cmd, entry.ctx)
           payload == Encode(cmd, entry.ctx)
           S == UnitOf(c)
           m == RequestUnits(entry, cmd, serial)
<1>1. /\ f \in Frames /\ c \in Codecs /\ IsRoute(r) /\ SerialOf(f, serial)
      /\ code \in Nat /\ code < Values(16) /\ sub \in Nat /\ sub < Values(16)
      /\ payload \in Seq(S) /\ Unit(c) \subseteq S
  BY UnitIsUnit DEF IsEntry, Sendable
<1>2. m = Build(f, c, r, serial, RequestBody(c, MONITORING_TIMER, code, sub, payload))
  BY DEF RequestUnits
<1>3. request = RawRequest(f, c, m)
  OBVIOUS
<1> HIDE DEF c, f, r, code, sub, payload, S, m
<1>4. RawRequest(f, c, m) =
          [serial |-> serial, route |-> Copy(r), monitoring_timer |-> MONITORING_TIMER,
           command |-> code, subcommand |-> sub, payload |-> payload]
  BY <1>1, <1>2, Timer, RequestArrives
<1>5. request.serial = serial /\ request.route = Copy(r) /\ request.command = code
      /\ request.subcommand = sub /\ request.payload = payload
  BY <1>3, <1>4
<1> QED
  BY <1>5 DEF r, code, sub, payload

\* m is a whole answer to a client of this entry.
IsAnswer(entry, m) == m \in Seq(Range(m)) /\ Message(entry.frame, entry.ctx.codec, m)

\* What a request is and what becomes of it, so that it can be answered.
IsServed(entry, request, serial, served) ==
    /\ IsEntry(entry) /\ SerialOf(entry.frame, serial)
    /\ request.serial = serial /\ IsRoute(request.route)
    /\ request.command \in Nat /\ request.command < Values(16)
    /\ request.subcommand \in Nat /\ request.subcommand < Values(16)
    /\ Fits(entry.ctx.codec, AbnormalMinUnits * Width(entry.ctx.codec), served.payload)
    /\ served.end_code \in 0 .. UINT16_MAX

\* What the CPU answers is an answer, and the one that was asked for.
LEMMA WhatIsAnswered ==
    ASSUME NEW entry, NEW request, NEW serial, NEW served, IsServed(entry, request, serial, served),
           NEW m, m = AnswerUnits(entry, request, served)
    PROVE  /\ IsAnswer(entry, m) /\ ParseFault(entry.frame, entry.ctx.codec, m, serial) = "none"
           /\ RawResponse(entry.frame, entry.ctx.codec, m).end_code = served.end_code
           /\ served.end_code = 0 =>
                 RawResponse(entry.frame, entry.ctx.codec, m).payload = served.payload
<1> DEFINE c == entry.ctx.codec
           f == entry.frame
           r == request.route
           S == UnitOf(c)
           payload == served.payload
           code == served.end_code
           command == request.command
           sub == request.subcommand
<1>1. /\ f \in Frames /\ c \in Codecs /\ IsRoute(r) /\ SerialOf(f, serial)
      /\ command \in Nat /\ command < Values(16) /\ sub \in Nat /\ sub < Values(16)
      /\ payload \in Seq(S) /\ Unit(c) \subseteq S /\ serial \in {NoSerial, serial}
  BY UnitIsUnit DEF IsServed, IsEntry, Fits
<1>3. /\ Width(c) \in {1, 2} /\ NumberLen(c, 16) = 2 * Width(c) /\ RouteLen(c) = 5 * Width(c)
      /\ NumberLen(c, 16) \in Nat /\ Len(payload) \in Nat
  BY <1>1, WordWidth, LenProperties
<1>2. /\ code \in Nat /\ code < Values(16)
      /\ 11 * Width(c) + Len(payload) < Values(16)
  <2>1. 11 * Width(c) + Len(payload) <= UINT16_MAX /\ code \in 0 .. UINT16_MAX
    BY DEF IsServed, Fits, AbnormalMinUnits
  <2>2. 11 * Width(c) + Len(payload) \in Nat
    BY <1>3
  <2> HIDE DEF c, payload, code
  <2> QED
    BY <2>1, <2>2, WordMax
<1>4. m = BuildResponse(f, c, r, serial,
              IF code = 0 THEN NormalBody(c, payload)
              ELSE AbnormalBody(c, code, ErrorInfo(r, command, sub), <<>>))
  BY DEF AnswerUnits, IsServed
<1> HIDE DEF c, f, r, S, payload, code, command, sub
<1>5. /\ m \in Seq(S) /\ Message(f, c, m) /\ ParseFault(f, c, m, serial) = "none"
      /\ RawResponse(f, c, m).end_code = code
      /\ code = 0 => RawResponse(f, c, m).payload = payload
  <2>1. CASE code = 0
    <3>1. m = BuildResponse(f, c, r, serial, NormalBody(c, payload))
      BY <1>4, <2>1
    <3>2. 0 \in Int /\ Number(c, 0, 16) \in Seq(Unit(c)) /\ Len(Number(c, 0, 16)) = NumberLen(c, 16)
      BY <1>1, NumberUnits
    <3>3. Number(c, 0, 16) \in Seq(S)
      BY <1>1, <3>2, SeqMonotonic
    <3>4. Len(NormalBody(c, payload)) = NumberLen(c, 16) + Len(payload)
      BY <1>1, <3>2, <3>3, TwoParts DEF NormalBody
    <3>5. Len(NormalBody(c, payload)) < Values(16)
      BY <1>2, <1>3, <3>4, WordMax
    <3>6. /\ m \in Seq(S) /\ Message(f, c, m) /\ ParseFault(f, c, m, serial) = "none"
          /\ RawResponse(f, c, m) = [serial |-> serial, end_code |-> 0,
                                     payload |-> payload, error_info |-> NoErrorInfo]
      BY <1>1, <3>1, <3>5, AnswerArrives
    <3> QED
      BY <2>1, <3>6
  <2>2. CASE code # 0
    <3> DEFINE e == EncodeErrorInfo(c, ErrorInfo(r, command, sub))
               body == AbnormalBody(c, code, ErrorInfo(r, command, sub), <<>>)
    <3>1. m = BuildResponse(f, c, r, serial, body) /\ code \in Nat \ {0}
      BY <1>2, <1>4, <2>2
    <3>2. e \in Seq(Unit(c)) /\ Len(e) = RouteLen(c) + NumberLen(c, 16) + NumberLen(c, 16)
      BY <1>1, ErrorInfoParts
    <3>3. Number(c, code, 16) \in Seq(Unit(c)) /\ Len(Number(c, code, 16)) = NumberLen(c, 16)
      BY <1>1, <1>2, NumberUnits
    <3>4. /\ Number(c, code, 16) \in Seq(S) /\ e \in Seq(S) /\ <<>> \in Seq(S) /\ Len(<<>>) = 0
      BY <1>1, <3>2, <3>3, SeqMonotonic, EmptySeq
    <3>5. body = Number(c, code, 16) \o e \o <<>>
      BY DEF AbnormalBody
    <3> HIDE DEF e, body
    <3>6. Len(body) = NumberLen(c, 16) + Len(e)
      <4> DEFINE n == Number(c, code, 16)
                 z == <<>>
      <4>1. n \in Seq(S) /\ z \in Seq(S) /\ Len(z) = 0 /\ Len(n) = NumberLen(c, 16) /\ body = n \o e \o z
        BY <3>3, <3>4, <3>5
      <4> HIDE DEF n, z
      <4>2. Len(body) = Len(n) + Len(e) + Len(z)
        BY <3>4, <4>1, ThreeParts
      <4> QED
        BY <1>3, <3>2, <4>1, <4>2
    <3>7. Len(body) < Values(16)
      BY <1>2, <1>3, <3>2, <3>6, WordMax
    <3> DEFINE z == <<>>
    <3>8. z \in Seq(S) /\ body = AbnormalBody(c, code, ErrorInfo(r, command, sub), z)
      BY <3>4 DEF body
    <3> HIDE DEF z
    <3>9. /\ m \in Seq(S) /\ Message(f, c, m) /\ ParseFault(f, c, m, serial) = "none"
          /\ RawResponse(f, c, m) = [serial |-> serial, end_code |-> code, payload |-> <<>>,
                                     error_info |-> ErrorInfo(Copy(r), command, sub)]
      BY <1>1, <1>2, <3>1, <3>7, <3>8, RefusalArrives
    <3> QED
      BY <2>2, <3>9
  <2> QED
    BY <2>1, <2>2
<1> QED
  BY <1>5, OwnRange DEF IsAnswer, f, c, code, payload

\* Concatenation as an operator of its own, so that it can be regrouped by name.
Joined(a, b) == a \o b

\* `Joined` is a sequence and associative.
LEMMA JoinedWell ==
    ASSUME NEW S, NEW a \in Seq(S), NEW b \in Seq(S), NEW d \in Seq(S)
    PROVE  Joined(a, b) \in Seq(S) /\ Joined(Joined(a, b), d) = Joined(a, Joined(b, d))
<1>1. a \o b \in Seq(S)
  BY ConcatProperties
<1>2. (a \o b) \o d = a \o (b \o d)
  BY ConcatAssociative
<1> QED
  BY <1>1, <1>2 DEF Joined

\* m consists of three parts, by name, so that what is known of it can be cited.
IsThree(S, m, a, b, rest) ==
    a \in Seq(S) /\ b \in Seq(S) /\ rest \in Seq(S) /\ m = a \o b \o rest

\* A message of three parts: where the first and the last are.
LEMMA OfThree ==
    ASSUME NEW S, NEW a, NEW b, NEW rest, NEW m, IsThree(S, m, a, b, rest)
    PROVE  /\ m \in Seq(S) /\ Len(m) = Len(a) + Len(b) + Len(rest)
           /\ At(m, 0, a) /\ At(m, Len(a) + Len(b), rest)
<1>1. m \in Seq(S)
  BY ThreeParts DEF IsThree
<1>2. Len(m) = Len(a) + Len(b) + Len(rest)
  BY ThreeParts DEF IsThree
<1>3. At(m, 0, a)
  BY ThreeParts DEF IsThree
<1>4. At(m, Len(a) + Len(b), rest)
  BY ThreeParts DEF IsThree
<1> QED
  BY <1>1, <1>2, <1>3, <1>4

\* Cut behind the first part, and behind the second if it is as long.
LEMMA CutOut ==
    ASSUME NEW S, NEW a, NEW b, NEW rest, NEW m, IsThree(S, m, a, b, rest),
           NEW k \in Nat, Len(a) = k, Len(b) = k
    PROVE  SubSeq(m, 1, k) = a /\ SubSeq(m, 2 * k + 1, Len(m)) = rest
<1>1. /\ m \in Seq(S) /\ Len(m) = Len(a) + Len(b) + Len(rest)
      /\ At(m, 0, a) /\ At(m, Len(a) + Len(b), rest)
  BY OfThree
<1>2. a \in Seq(S) /\ rest \in Seq(S)
  BY DEF IsThree
<1>4. k + k \in Nat /\ 0 \in Nat /\ k + k = 2 * k /\ 0 + 1 = 1 /\ 0 + k = k
  OBVIOUS
<1>5. Len(m) = k + k + Len(rest) /\ At(m, k + k, rest)
  BY <1>1
<1>6. Span(m, 0, k) = a
  BY <1>1, <1>2, <1>4, SpanAt
<1>7. SubSeq(m, (k + k) + 1, Len(m)) = rest
  BY <1>1, <1>2, <1>4, <1>5, BodyAt
<1> QED
  BY <1>4, <1>6, <1>7 DEF Span

\* The frame's parts behind the serial, taken together.
IsSix(S, m, a, b, z, e, n, x) ==
    /\ a \in Seq(S) /\ b \in Seq(S) /\ z \in Seq(S) /\ e \in Seq(S)
    /\ n \in Seq(S) /\ x \in Seq(S) /\ m = (a \o (b \o z)) \o e \o n \o x

\* A message of six parts is one of three.
LEMMA SixAreThree ==
    ASSUME NEW S, NEW m, NEW a, NEW b, NEW z, NEW e, NEW n, NEW x,
           IsSix(S, m, a, b, z, e, n, x), NEW rest, rest = z \o e \o n \o x
    PROVE  IsThree(S, m, a, b, rest)
<1> DEFINE ab == Joined(a, b)
           ze == Joined(z, e)
           zen == Joined(ze, n)
           zenx == Joined(zen, x)
<1>0. /\ a \in Seq(S) /\ b \in Seq(S) /\ z \in Seq(S) /\ e \in Seq(S)
      /\ n \in Seq(S) /\ x \in Seq(S)
  BY DEF IsSix
<1>1. ab \in Seq(S) /\ ze \in Seq(S)
  BY <1>0, JoinedWell
<1>2. Joined(a, Joined(b, z)) = Joined(ab, z)
  BY <1>0, JoinedWell
<1>3. Joined(Joined(ab, z), e) = Joined(ab, ze)
  BY <1>0, <1>1, JoinedWell
<1> HIDE DEF ab, ze
<1>4. zen \in Seq(S) /\ Joined(Joined(ab, ze), n) = Joined(ab, zen)
  BY <1>0, <1>1, JoinedWell
<1> HIDE DEF zen
<1>5. zenx \in Seq(S) /\ Joined(Joined(ab, zen), x) = Joined(ab, zenx)
  BY <1>0, <1>1, <1>4, JoinedWell
<1>6. Joined(Joined(Joined(Joined(a, Joined(b, z)), e), n), x) = Joined(ab, zenx)
  BY <1>2, <1>3, <1>4, <1>5
<1>7. (a \o (b \o z)) \o e \o n \o x = a \o b \o (z \o e \o n \o x)
  BY <1>6, Zenon DEF Joined, ab, ze, zen, zenx
<1>8. z \o e \o n \o x \in Seq(S)
  BY <1>5, Zenon DEF Joined, ze, zen, zenx
<1>9. m = a \o b \o rest
  BY <1>7 DEF IsSix
<1> QED
  BY <1>0, <1>8, <1>9 DEF IsThree

\* A request that was built for serial 0 and patched for another is what would have been
\* built for that one (_Reader.request of blocks/plan.py).
THEOREM PatchedIsBuilt ==
    ASSUME NEW entry, IsEntry(entry), NEW serial, SerialOf(entry.frame, serial), NEW cmd,
           NEW S, UnitOf(entry.ctx.codec) \subseteq S, Encode(cmd, entry.ctx) \in Seq(S),
           Sendable(cmd, entry.ctx)
    PROVE  Patched(entry,
                   RequestUnits(entry, cmd, IF entry.frame.carries_serial THEN 0 ELSE NoSerial),
                   serial)
               = RequestUnits(entry, cmd, serial)
<1> DEFINE f == entry.frame
           c == entry.ctx.codec
           U == Unit(c)
           body == RequestBody(c, MONITORING_TIMER, Code(cmd), SubcommandOf(cmd, entry.ctx),
                               Encode(cmd, entry.ctx))
           units(s) == RequestUnits(entry, cmd, s)
           word == NumberLen(c, 16)
<1>1. /\ f \in Frames /\ c \in Codecs /\ IsRoute(entry.route) /\ f.carries_serial \in BOOLEAN
      /\ U \subseteq S /\ SerialOf(f, serial)
  BY UnitIsUnit DEF IsEntry
<1>2. CASE ~f.carries_serial
  <2>1. serial = NoSerial
    BY <1>2 DEF SerialOf
  <2> QED
    BY <1>2, <2>1 DEF Patched
<1>3. CASE f.carries_serial
  <2> DEFINE a == f.request[c]
             z == Number(c, 0, 16)
             n(s) == Number(c, s, 16)
             e == EncodeRoute(c, entry.route)
             l == Number(c, Len(body), 16)
             rest == z \o e \o l \o body
  <2>1. serial \in Nat /\ serial # NoSerial /\ 0 \in Nat
    BY <1>1, <1>3 DEF SerialOf, NoSerial, NoNumber
  <2>2. \A s \in Nat : units(s) = (a \o (n(s) \o z)) \o e \o l \o body
    BY <1>3 DEF RequestUnits, Build, Assemble, SubheaderOf
  <2>3. body \in Seq(S)
    <3>1. /\ Code(cmd) \in Nat /\ Code(cmd) < Values(16)
          /\ SubcommandOf(cmd, entry.ctx) \in Nat /\ SubcommandOf(cmd, entry.ctx) < Values(16)
      BY DEF Sendable
    <3> QED
      BY <1>1, <3>1, Timer, RequestArrives
  <2>4. a \in Seq(U) /\ Len(a) = word
    BY <1>1, SubheaderSeqs, SubheaderLengths, WordWidth
  <2>5. e \in Seq(U)
    BY <1>1, RouteParts
  <2>6. word \in Nat /\ Len(body) \in Int
    BY <1>1, <2>3, WordWidth, LenProperties
  <2>7. \A v \in Int : n(v) \in Seq(U) /\ Len(n(v)) = word
    BY <1>1, NumberUnits
  <2>8. l \in Seq(U) /\ z \in Seq(U)
    BY <2>6, <2>7
  <2>9. \A q \in Seq(U) : q \in Seq(S)
    BY <1>1, SeqMonotonic
  <2>10. a \in Seq(S) /\ e \in Seq(S) /\ l \in Seq(S) /\ z \in Seq(S)
         /\ \A v \in Nat : n(v) \in Seq(S) /\ Len(n(v)) = word
    BY <2>4, <2>5, <2>7, <2>8, <2>9
  <2>11. Patched(entry, units(0), serial)
            = SubSeq(units(0), 1, word) \o n(serial) \o SubSeq(units(0), 2 * word + 1, Len(units(0)))
    BY <2>1 DEF Patched
  <2> HIDE DEF a, z, n, e, l, body, units, word
  <2>12. \A s \in Nat : IsThree(S, units(s), a, n(s), rest)
    <3>1. ASSUME NEW s \in Nat PROVE IsThree(S, units(s), a, n(s), rest)
      <4>1. IsSix(S, units(s), a, n(s), z, e, l, body)
        BY <2>2, <2>3, <2>10 DEF IsSix
      <4>2. rest = z \o e \o l \o body
        OBVIOUS
      <4> HIDE DEF rest
      <4> QED
        BY <4>1, <4>2, SixAreThree
    <3> QED
      BY <3>1
  <2> HIDE DEF rest
  <2>13. IsThree(S, units(0), a, n(0), rest) /\ IsThree(S, units(serial), a, n(serial), rest)
    BY <2>1, <2>12
  <2>14. Len(n(0)) = word /\ 0 \in Nat
    BY <2>1, <2>10
  <2>15. SubSeq(units(0), 1, word) = a /\ SubSeq(units(0), 2 * word + 1, Len(units(0))) = rest
    BY <2>4, <2>6, <2>13, <2>14, CutOut
  <2>16. units(serial) = a \o n(serial) \o rest
    BY <2>13 DEF IsThree
  <2>17. Patched(entry, units(0), serial) = units(serial)
    BY <2>11, <2>15, <2>16
  <2> QED
    BY <1>3, <2>17 DEF units
<1> QED
  BY <1>1, <1>2, <1>3

-----------------------------------------------------------------------------
(***************************************************************************)
(* Bulk data.                                                              *)
(***************************************************************************)

\* The j-th unit of the i-th word of n units each is the u-th.
IsUnitOf(n, i, j, u) == n \in {2, 4} /\ i \in Nat \ {0} /\ j \in 1 .. n /\ u = n * (i - 1) + j

\* The word and the unit of it that a unit of the data is.
LEMMA WordOfUnits ==
    ASSUME NEW n, NEW i, NEW j, NEW u, IsUnitOf(n, i, j, u)
    PROVE  1 + ((u - 1) \div n) = i /\ 1 + ((u - 1) % n) = j
BY DEF IsUnitOf

\* Every unit of the data is one of a word.
LEMMA UnitOfWord ==
    ASSUME NEW n \in {2, 4}, NEW count \in Nat, NEW u \in 1 .. n * count
    PROVE  1 + ((u - 1) \div n) \in 1 .. count /\ 1 + ((u - 1) % n) \in 1 .. n
OBVIOUS

\* The units that words take, one field after the other.
LEMMA WordsUnits ==
    ASSUME NEW c \in Codecs, NEW values, IsWords(values)
    PROVE  LET n == NumberLen(c, 16)
               w == Words(c, values)
           IN  /\ n \in {2, 4} /\ WordDataLen(c, Len(values)) = n * Len(values)
               /\ Len(w) = n * Len(values) /\ w \in Seq(Unit(c))
               /\ \A i \in DOMAIN values : At(w, n * (i - 1), Number(c, values[i], 16))
<1> DEFINE n == NumberLen(c, 16)
           w == Words(c, values)
<1>1. /\ Width(c) \in {1, 2} /\ n = 2 * Width(c)
  BY WordWidth
<1>2. n \in {2, 4} /\ Len(values) \in Nat /\ DOMAIN values = 1 .. Len(values)
  BY <1>1 DEF IsWords
<1>3. WordDataLen(c, Len(values)) = n * Len(values) /\ n * Len(values) \in Nat
  BY <1>1, <1>2 DEF WordDataLen
<1>4. ASSUME NEW i \in DOMAIN values
      PROVE  Number(c, values[i], 16) \in Seq(Unit(c)) /\ Len(Number(c, values[i], 16)) = n
  BY <1>4, NumbersSurvive DEF IsWords, IsWord
<1> HIDE DEF n
<1>5. w = [u \in 1 .. n * Len(values) |-> Number(c, values[1 + ((u - 1) \div n)], 16)[1 + ((u - 1) % n)]]
  BY <1>3 DEF Words, n
<1>6. ASSUME NEW u \in 1 .. n * Len(values)
      PROVE  Number(c, values[1 + ((u - 1) \div n)], 16)[1 + ((u - 1) % n)] \in Unit(c)
  <2>1. 1 + ((u - 1) \div n) \in DOMAIN values /\ 1 + ((u - 1) % n) \in 1 .. n
    BY <1>2, UnitOfWord
  <2> QED
    BY <2>1, <1>4, ElementOfSeq
<1>7. w \in Seq(Unit(c)) /\ Len(w) = n * Len(values)
  BY <1>3, <1>5, <1>6
<1>8. ASSUME NEW i \in DOMAIN values
      PROVE  At(w, n * (i - 1), Number(c, values[i], 16))
  <2> HIDE DEF w
  <2>1. n * (i - 1) \in Nat /\ n * (i - 1) + n <= n * Len(values)
    BY <1>2
  <2>2. ASSUME NEW j \in 1 .. n
        PROVE  w[n * (i - 1) + j] = Number(c, values[i], 16)[j]
    <3>0. i \in Nat \ {0}
      BY <1>2
    <3>1. PICK u : u = n * (i - 1) + j
      OBVIOUS
    <3>2. u \in 1 .. n * Len(values)
      BY <1>2, <3>1
    <3>4. 1 + ((u - 1) \div n) = i /\ 1 + ((u - 1) % n) = j
      <4>1. IsUnitOf(n, i, j, u)
        BY <1>2, <3>0, <3>1 DEF IsUnitOf
      <4> QED
        BY <4>1, WordOfUnits
    <3>5. w[u] = Number(c, values[1 + ((u - 1) \div n)], 16)[1 + ((u - 1) % n)]
      BY <1>5, <3>2
    <3>6. w[u] = Number(c, values[i], 16)[j]
      BY <3>4, <3>5
    <3> QED
      BY <3>1, <3>6
  <2> QED
    BY <1>4, <1>7, <2>1, <2>2 DEF At
<1> QED
  BY <1>2, <1>3, <1>7, <1>8 DEF n

\* The words of an answer are the words that were put into it, in their order, whatever
\* they are and wherever it is (AsciiCodec and BinaryCodec, words and read_words).
THEOREM WordsArrive ==
    ASSUME NEW c \in Codecs, NEW values, IsWords(values), NEW S, Unit(c) \subseteq S,
           NEW m \in Seq(S), NEW off \in Nat, At(m, off, Words(c, values))
    PROVE  ReadWords(c, m, off, Len(values)) = values
<1> DEFINE n == NumberLen(c, 16)
           w == Words(c, values)
<1>1. /\ n \in {2, 4} /\ WordDataLen(c, Len(values)) = n * Len(values)
      /\ Len(w) = n * Len(values) /\ w \in Seq(Unit(c))
      /\ \A i \in DOMAIN values : At(w, n * (i - 1), Number(c, values[i], 16))
  BY WordsUnits
<1>2. /\ Len(values) \in Nat /\ DOMAIN values = 1 .. Len(values)
      /\ values = [i \in 1 .. Len(values) |-> values[i]]
      /\ \A i \in DOMAIN values : values[i] \in Nat /\ values[i] < Values(16)
  BY DEF IsWords, IsWord
<1> HIDE DEF n, w
<1>3. w \in Seq(S)
  BY <1>1, SeqMonotonic
<1>4. /\ HasSpan(m, off, WordDataLen(c, Len(values)))
      /\ Span(m, off, WordDataLen(c, Len(values))) = w
  BY <1>1, <1>3, SpanAt DEF w
<1>5. Legible(c, w)
  BY <1>1 DEF Legible, Unit, Range
<1>6. ASSUME NEW i \in 1 .. Len(values)
      PROVE  ReadNumber(c, w, n * (i - 1), 16) = values[i]
  <2>1. n * (i - 1) \in Nat
    BY <1>1, <1>2
  <2>2. /\ values[i] \in Nat /\ values[i] < Values(16)
        /\ At(w, n * (i - 1), Number(c, values[i], 16))
    BY <1>1, <1>2
  <2> QED
    BY <1>1, <2>1, <2>2, NumberAt
<1> QED
  BY <1>2, <1>4, <1>5, <1>6 DEF ReadWords, n

\* The point that a nibble of a byte is of.
PointAt(values, i) == IF i \in 1 .. Len(values) THEN values[i] ELSE 0

\* The two nibbles of a byte that holds a bit in each.
LEMMA NibblesOf ==
    ASSUME NEW a \in {0, 1}, NEW b \in {0, 1}
    PROVE  16 * a + b \in 0 .. 255 /\ (16 * a + b) \div 16 = a /\ (16 * a + b) % 16 = b
<1>1. CASE a = 0
  BY <1>1
<1>2. CASE a = 1
  BY <1>2
<1> QED
  BY <1>1, <1>2

\* The byte that an odd point is the high nibble of.
LEMMA HighNibble ==
    ASSUME NEW n \in Nat, NEW i \in 1 .. n, i % 2 = 1
    PROVE  (i + 1) \div 2 \in 1 .. (n + 1) \div 2 /\ 2 * ((i + 1) \div 2) - 1 = i
<1> DEFINE d == (i + 1) \div 2
           q == (n + 1) \div 2
<1>1. d \in Nat /\ 2 * d = i + 1
  OBVIOUS
<1>2. q \in Nat /\ n + 1 < 2 * q + 2
  OBVIOUS
<1> HIDE DEF d, q
<1>3. d \in 1 .. q /\ 2 * d - 1 = i
  BY <1>1, <1>2
<1> QED
  BY <1>3 DEF d, q

\* The byte that an even point, or the padding behind an odd number, is the low nibble of.
LEMMA LowNibble ==
    ASSUME NEW n \in Nat, NEW i \in 1 .. n + 1, i % 2 # 1
    PROVE  i \div 2 \in 1 .. (n + 1) \div 2 /\ 2 * (i \div 2) = i
<1> DEFINE d == i \div 2
           q == (n + 1) \div 2
<1>1. d \in Nat /\ 2 * d = i
  OBVIOUS
<1>2. q \in Nat /\ n + 1 < 2 * q + 2
  OBVIOUS
<1> HIDE DEF d, q
<1>3. d \in 1 .. q /\ 2 * d = i
  BY <1>1, <1>2
<1> QED
  BY <1>3 DEF d, q

\* The units that the bits of an answer take, and what each unit holds.
LEMMA BitsUnits ==
    ASSUME NEW c \in Codecs, NEW values, IsBits(values)
    PROVE  /\ Bits(c, values) \in Seq(Unit(c))
           /\ Len(Bits(c, values)) = BitDataLen(c, Len(values)) /\ BitDataLen(c, Len(values)) \in Nat
           /\ c = "binary" => \A i \in 1 .. BitDataLen(c, Len(values)) :
                 Bits(c, values)[i] = 16 * PointAt(values, 2 * i - 1) + PointAt(values, 2 * i)
           /\ c = "ascii" => \A i \in 1 .. Len(values) :
                 Bits(c, values)[i] \in HexDigit /\ DigitValue[Bits(c, values)[i]] = values[i]
<1>1. /\ Len(values) \in Nat /\ DOMAIN values = 1 .. Len(values)
      /\ \A i \in 1 .. Len(values) : values[i] \in {0, 1}
      /\ \A i : PointAt(values, i) \in {0, 1}
      /\ c \in {"binary", "ascii"}
  BY DEF IsBits, PointAt, Codecs
<1>2. CASE c = "binary"
  <2> DEFINE n == BitDataLen(c, Len(values))
  <2>1. n = (Len(values) + 1) \div 2 /\ n \in Nat
    BY <1>1, <1>2 DEF BitDataLen
  <2>2. Bits(c, values) = [i \in 1 .. n |-> 16 * PointAt(values, 2 * i - 1) + PointAt(values, 2 * i)]
    BY <1>1, <1>2 DEF Bits, PointAt
  <2>3. \A i \in 1 .. n : 16 * PointAt(values, 2 * i - 1) + PointAt(values, 2 * i) \in 0 .. 255
    <3> SUFFICES ASSUME NEW i \in 1 .. n
                 PROVE  16 * PointAt(values, 2 * i - 1) + PointAt(values, 2 * i) \in 0 .. 255
      OBVIOUS
    <3>1. PointAt(values, 2 * i - 1) \in {0, 1} /\ PointAt(values, 2 * i) \in {0, 1}
      BY <1>1
    <3> QED
      BY <3>1, NibblesOf
  <2>4. Unit(c) = 0 .. 255
    BY <1>2 DEF Unit
  <2> HIDE DEF n
  <2>5. Bits(c, values) \in Seq(Unit(c)) /\ Len(Bits(c, values)) = n
    <3> DEFINE byte(i) == 16 * PointAt(values, 2 * i - 1) + PointAt(values, 2 * i)
    <3>1. \A i \in 1 .. n : byte(i) \in Unit(c)
      BY <2>3, <2>4
    <3>2. Bits(c, values) = [i \in 1 .. n |-> byte(i)]
      BY <2>2
    <3> HIDE DEF byte
    <3> QED
      BY <2>1, <3>1, <3>2
  <2> QED
    BY <1>2, <2>1, <2>2, <2>5 DEF n
<1>3. CASE c = "ascii"
  <2>1. Bits(c, values) = [i \in 1 .. Len(values) |-> HexDigits[1 + values[i]]]
    BY <1>1, <1>3 DEF Bits
  <2>2. ASSUME NEW i \in 1 .. Len(values)
        PROVE  /\ HexDigits[1 + values[i]] \in HexDigit
               /\ DigitValue[HexDigits[1 + values[i]]] = values[i]
    <3>1. PICK k \in 0 .. 15 : k = values[i] /\ k + 1 = 1 + values[i]
      BY <1>1
    <3> QED
      BY <3>1, DigitOf
  <2>3. Unit(c) = HexDigit /\ BitDataLen(c, Len(values)) = Len(values)
    BY <1>3 DEF Unit, BitDataLen
  <2>4. Bits(c, values) \in Seq(Unit(c)) /\ Len(Bits(c, values)) = Len(values)
    BY <1>1, <2>1, <2>2, <2>3
  <2> QED
    BY <1>1, <1>3, <2>1, <2>2, <2>3, <2>4
<1> QED
  BY <1>1, <1>2, <1>3

\* The bits of an answer are the bits that were put into it, two to a byte or one to a
\* character, with the padding of an odd number of them (BinaryCodec.bits, read_bits).
THEOREM BitsArrive ==
    ASSUME NEW c \in Codecs, NEW values, IsBits(values), NEW S, Unit(c) \subseteq S,
           NEW m \in Seq(S), NEW off \in Nat, At(m, off, Bits(c, values))
    PROVE  ReadBits(c, m, off, Len(values)) = values
<1> DEFINE count == Len(values)
           raw == Span(m, off, BitDataLen(c, count))
           nibble(i) == IF i % 2 = 1 THEN raw[(i + 1) \div 2] \div 16 ELSE raw[i \div 2] % 16
           point(i) == IF c = "binary" THEN nibble(i) ELSE
                       IF raw[i] \in HexDigit THEN DigitValue[raw[i]] ELSE 2
           padded == c = "binary" /\ count % 2 = 1
<1>1. /\ count \in Nat /\ values = [i \in 1 .. count |-> values[i]]
      /\ \A i \in 1 .. count : values[i] \in {0, 1}
      /\ c \in {"binary", "ascii"}
  BY DEF IsBits, Codecs
<1>2. Bits(c, values) \in Seq(S) /\ Len(Bits(c, values)) = BitDataLen(c, count)
  BY BitsUnits, SeqMonotonic
<1>3. HasSpan(m, off, BitDataLen(c, count)) /\ raw = Bits(c, values)
  BY <1>2, SpanAt
<1>4. ReadBits(c, m, off, count) =
         IF /\ HasSpan(m, off, BitDataLen(c, count))
            /\ \A i \in 1 .. count : point(i) \in {0, 1}
            /\ padded => nibble(count + 1) = 0
         THEN [i \in 1 .. count |-> point(i)] ELSE NoPoints
  BY DEF ReadBits
<1>5. CASE c = "ascii"
  <2>1. \A i \in 1 .. count : point(i) = values[i]
    BY <1>3, <1>5, BitsUnits
  <2> QED
    BY <1>1, <1>3, <1>4, <1>5, <2>1
<1>6. CASE c = "binary"
  <2>1. /\ BitDataLen(c, count) = (count + 1) \div 2
        /\ \A i \in 1 .. (count + 1) \div 2 :
              raw[i] = 16 * PointAt(values, 2 * i - 1) + PointAt(values, 2 * i)
    BY <1>3, <1>6, BitsUnits DEF BitDataLen
  <2>2. \A i : PointAt(values, i) \in {0, 1}
    BY <1>1 DEF PointAt
  <2>3. ASSUME NEW i \in 1 .. (count + 1) \div 2
        PROVE  raw[i] \div 16 = PointAt(values, 2 * i - 1) /\ raw[i] % 16 = PointAt(values, 2 * i)
    <3>1. /\ PointAt(values, 2 * i - 1) \in {0, 1} /\ PointAt(values, 2 * i) \in {0, 1}
          /\ raw[i] = 16 * PointAt(values, 2 * i - 1) + PointAt(values, 2 * i)
      BY <2>1, <2>2
    <3> HIDE DEF raw
    <3> QED
      BY <3>1, NibblesOf
  <2>4. ASSUME NEW i \in 1 .. count + 1, i = count + 1 => count % 2 = 1
        PROVE  nibble(i) = PointAt(values, i)
    <3>1. CASE i % 2 = 1
      <4>1. i \in 1 .. count
        BY <1>1, <2>4, <3>1
      <4>2. (i + 1) \div 2 \in 1 .. (count + 1) \div 2 /\ 2 * ((i + 1) \div 2) - 1 = i
        BY <1>1, <3>1, <4>1, HighNibble
      <4> QED
        BY <2>3, <3>1, <4>2
    <3>2. CASE i % 2 # 1
      <4>1. i \div 2 \in 1 .. (count + 1) \div 2 /\ 2 * (i \div 2) = i
        BY <1>1, <3>2, LowNibble
      <4> QED
        BY <2>3, <3>2, <4>1
    <3> QED
      BY <3>1, <3>2
  <2>5. \A i \in 1 .. count : point(i) = values[i]
    <3> SUFFICES ASSUME NEW i \in 1 .. count PROVE nibble(i) = values[i]
      BY <1>6
    <3>1. i \in 1 .. count + 1 /\ i # count + 1 /\ PointAt(values, i) = values[i]
      BY <1>1 DEF PointAt
    <3> QED
      BY <2>4, <3>1
  <2>6. padded => nibble(count + 1) = 0
    <3>1. count + 1 \in 1 .. count + 1 /\ PointAt(values, count + 1) = 0
      BY <1>1 DEF PointAt
    <3> QED
      BY <2>4, <3>1
  <2> QED
    BY <1>1, <1>3, <1>4, <2>5, <2>6
<1> QED
  BY <1>1, <1>5, <1>6

-----------------------------------------------------------------------------
(***************************************************************************)
(* Device specifications: the number and the code of a point, in every     *)
(* coding and format.                                                      *)
(***************************************************************************)

\* The powers of the bases a device is counted in.
Power(base, k) == base ^ k
IsPowers(base, top) ==
    /\ base \in Nat \ {0}
    /\ Power(base, 0) = 1
    /\ \A k \in 0 .. top : Power(base, k) \in Nat \ {0} /\ Power(base, k + 1) = Power(base, k) * base

\* The places of eight,
LEMMA PowersOf8 == IsPowers(8, 7)
<1>1. ASSUME NEW k \in 0 .. 7 PROVE Power(8, k) \in Nat \ {0} /\ Power(8, k + 1) = Power(8, k) * 8
  <2>1. CASE k = 0
    BY <2>1 DEF Power
  <2>2. CASE k = 1
    BY <2>2 DEF Power
  <2>3. CASE k = 2
    BY <2>3 DEF Power
  <2>4. CASE k = 3
    BY <2>4 DEF Power
  <2>5. CASE k = 4
    BY <2>5 DEF Power
  <2>6. CASE k = 5
    BY <2>6 DEF Power
  <2>7. CASE k = 6
    BY <2>7 DEF Power
  <2>8. CASE k = 7
    BY <2>8 DEF Power
  <2> QED
    BY <2>1, <2>2, <2>3, <2>4, <2>5, <2>6, <2>7, <2>8
<1>2. Power(8, 0) = 1
  BY DEF Power
<1> QED
  BY <1>1, <1>2 DEF IsPowers

\* ... of ten,
LEMMA PowersOf10 == IsPowers(10, 7)
<1>1. ASSUME NEW k \in 0 .. 7 PROVE Power(10, k) \in Nat \ {0} /\ Power(10, k + 1) = Power(10, k) * 10
  <2>1. CASE k = 0
    BY <2>1 DEF Power
  <2>2. CASE k = 1
    BY <2>2 DEF Power
  <2>3. CASE k = 2
    BY <2>3 DEF Power
  <2>4. CASE k = 3
    BY <2>4 DEF Power
  <2>5. CASE k = 4
    BY <2>5 DEF Power
  <2>6. CASE k = 5
    BY <2>6 DEF Power
  <2>7. CASE k = 6
    BY <2>7 DEF Power
  <2>8. CASE k = 7
    BY <2>8 DEF Power
  <2> QED
    BY <2>1, <2>2, <2>3, <2>4, <2>5, <2>6, <2>7, <2>8
<1>2. Power(10, 0) = 1
  BY DEF Power
<1> QED
  BY <1>1, <1>2 DEF IsPowers

\* ... of sixteen,
LEMMA PowersOf16 == IsPowers(16, 7)
<1>1. ASSUME NEW k \in 0 .. 7 PROVE Power(16, k) \in Nat \ {0} /\ Power(16, k + 1) = Power(16, k) * 16
  <2>1. CASE k = 0
    BY <2>1 DEF Power
  <2>2. CASE k = 1
    BY <2>2 DEF Power
  <2>3. CASE k = 2
    BY <2>3 DEF Power
  <2>4. CASE k = 3
    BY <2>4 DEF Power
  <2>5. CASE k = 4
    BY <2>5 DEF Power
  <2>6. CASE k = 5
    BY <2>6 DEF Power
  <2>7. CASE k = 6
    BY <2>7 DEF Power
  <2>8. CASE k = 7
    BY <2>8 DEF Power
  <2> QED
    BY <2>1, <2>2, <2>3, <2>4, <2>5, <2>6, <2>7, <2>8
<1>2. Power(16, 0) = 1
  BY DEF Power
<1> QED
  BY <1>1, <1>2 DEF IsPowers

\* ... and of octets.
LEMMA PowersOf256 == IsPowers(256, 3)
<1>1. ASSUME NEW k \in 0 .. 3 PROVE Power(256, k) \in Nat \ {0} /\ Power(256, k + 1) = Power(256, k) * 256
  <2>1. CASE k = 0
    BY <2>1 DEF Power
  <2>2. CASE k = 1
    BY <2>2 DEF Power
  <2>3. CASE k = 2
    BY <2>3 DEF Power
  <2>4. CASE k = 3
    BY <2>4 DEF Power
  <2> QED
    BY <2>1, <2>2, <2>3, <2>4
<1>2. Power(256, 0) = 1
  BY DEF Power
<1> QED
  BY <1>1, <1>2 DEF IsPowers

\* A quotient is the only one.
LEMMA Quotient ==
    ASSUME NEW v \in Int, NEW m \in Nat \ {0}, NEW q \in Int, NEW r \in Int, v = m * q + r, 0 <= r, r < m
    PROVE  v \div m = q /\ v % m = r
OBVIOUS

\* A quotient and its rest make up the number.
LEMMA Divides ==
    ASSUME NEW v \in Nat, NEW m \in Nat \ {0}
    PROVE  /\ v \div m \in Nat /\ v % m \in 0 .. m - 1
           /\ v = m * (v \div m) + (v % m)
OBVIOUS

\* Places within places, for any base.
LEMMA DivDiv ==
    ASSUME NEW v \in Nat, NEW m \in Nat \ {0}, NEW b \in Nat \ {0}
    PROVE  v \div (m * b) = (v \div m) \div b
<1> DEFINE q == v \div m
           r == v % m
           s == q \div b
           t == q % b
<1>1. q \in Nat /\ r \in 0 .. m - 1 /\ v = m * q + r
  BY Divides
<1>2. s \in Nat /\ t \in 0 .. b - 1 /\ q = b * s + t
  BY <1>1, Divides
<1> HIDE DEF q, r, s, t
<1>3. m * b \in Nat \ {0} /\ m * t + r \in Nat
  BY <1>1, <1>2
<1>4. v = (m * b) * s + (m * t + r)
  BY <1>1, <1>2
<1>5. m * t + r < m * b
  <2>1. m * t <= m * (b - 1)
    BY <1>2
  <2>2. m * (b - 1) = m * b - m
    OBVIOUS
  <2> QED
    BY <1>1, <1>2, <1>3, <2>1, <2>2
<1>6. v \div (m * b) = s
  BY <1>2, <1>3, <1>4, <1>5, Quotient
<1> QED
  BY <1>6 DEF s, q

\* Horner's rule: the running values of FromDigits, when somebody names them.
LEMMA HornerDigits ==
    ASSUME NEW raw, NEW base \in Nat, NEW n \in 1 .. 8, Len(raw) = n,
           NEW w \in [0 .. n -> Nat], w[0] = 0,
           \A i \in 1 .. n : w[i] = w[i - 1] * base + DigitValue[raw[i]]
    PROVE  FromDigits(raw, base) = w[n]
<1> DEFINE d(i) == DigitValue[raw[i]]
           Unrolls(g) == g = [i \in 0 .. Len(raw) |-> IF i = 0 THEN 0 ELSE g[i - 1] * base + d(i)]
           upto == CHOOSE g : Unrolls(g)
<1>1. FromDigits(raw, base) = upto[n]
  BY DEF FromDigits
<1>2. \A i \in 1 .. n : w[i] = w[i - 1] * base + d(i)
  OBVIOUS
<1> HIDE DEF d
<1>3. Unrolls(w)
  BY <1>2
<1>4. Unrolls(upto)
  BY <1>3
<1> HIDE DEF upto
<1>5. upto[0] = w[0] /\ \A i \in 1 .. n : upto[i] = upto[i - 1] * base + d(i)
  BY <1>4
<1>6. ASSUME NEW i \in 1 .. n, NEW j \in 0 .. n, i = j + 1, upto[j] = w[j] PROVE upto[i] = w[i]
  <2>1. i - 1 = j
    BY <1>6
  <2> QED
    BY <1>2, <1>5, <1>6, <2>1
<1>7. /\ n >= 1 => upto[1] = w[1]
  BY <1>5, <1>6
<1>8. n >= 2 => upto[2] = w[2]
  <2>1. n >= 2 => 2 \in 1 .. n /\ 1 \in 0 .. n /\ 2 = 1 + 1 /\ n >= 1
    OBVIOUS
  <2> QED
    BY <1>6, <1>7, <2>1
<1>9. n >= 3 => upto[3] = w[3]
  <2>1. n >= 3 => 3 \in 1 .. n /\ 2 \in 0 .. n /\ 3 = 2 + 1 /\ n >= 2
    OBVIOUS
  <2> QED
    BY <1>6, <1>8, <2>1
<1>10. n >= 4 => upto[4] = w[4]
  <2>1. n >= 4 => 4 \in 1 .. n /\ 3 \in 0 .. n /\ 4 = 3 + 1 /\ n >= 3
    OBVIOUS
  <2> QED
    BY <1>6, <1>9, <2>1
<1>11. n >= 5 => upto[5] = w[5]
  <2>1. n >= 5 => 5 \in 1 .. n /\ 4 \in 0 .. n /\ 5 = 4 + 1 /\ n >= 4
    OBVIOUS
  <2> QED
    BY <1>6, <1>10, <2>1
<1>12. n >= 6 => upto[6] = w[6]
  <2>1. n >= 6 => 6 \in 1 .. n /\ 5 \in 0 .. n /\ 6 = 5 + 1 /\ n >= 5
    OBVIOUS
  <2> QED
    BY <1>6, <1>11, <2>1
<1>13. n >= 7 => upto[7] = w[7]
  <2>1. n >= 7 => 7 \in 1 .. n /\ 6 \in 0 .. n /\ 7 = 6 + 1 /\ n >= 6
    OBVIOUS
  <2> QED
    BY <1>6, <1>12, <2>1
<1>14. n >= 8 => upto[8] = w[8]
  <2>1. n >= 8 => 8 \in 1 .. n /\ 7 \in 0 .. n /\ 8 = 7 + 1 /\ n >= 7
    OBVIOUS
  <2> QED
    BY <1>6, <1>13, <2>1
<1>15. upto[n] = w[n]
  BY <1>7, <1>8, <1>9, <1>10, <1>11, <1>12, <1>13, <1>14
<1> QED
  BY <1>1, <1>15

\* ... and those of FromLittleEndian.
RunsDown(raw, n, w) ==
    /\ n \in 1 .. 4 /\ Len(raw) = n
    /\ w \in [1 .. n + 1 -> Nat] /\ w[n + 1] = 0
    /\ \A i \in 1 .. n : w[i] = w[i + 1] * 256 + raw[i]

\* A number is read down its octets, the last one first.
LEMMA HornerOctets ==
    ASSUME NEW raw, NEW n, NEW w, RunsDown(raw, n, w)
    PROVE  FromLittleEndian(raw) = w[1]
<1> DEFINE Unrolls(g) == g = [i \in 1 .. Len(raw) + 1 |->
                                 IF i > Len(raw) THEN 0 ELSE g[i + 1] * 256 + raw[i]]
           from == CHOOSE g : Unrolls(g)
<1>0. /\ n \in 1 .. 4 /\ Len(raw) = n
      /\ w \in [1 .. n + 1 -> Nat] /\ w[n + 1] = 0
      /\ \A i \in 1 .. n : w[i] = w[i + 1] * 256 + raw[i]
  BY DEF RunsDown
<1>1. FromLittleEndian(raw) = from[1]
  BY DEF FromLittleEndian
<1>3. Unrolls(w)
  BY <1>0
<1>4. Unrolls(from)
  BY <1>3
<1> HIDE DEF from
<1>5. from[n + 1] = w[n + 1] /\ \A i \in 1 .. n : from[i] = from[i + 1] * 256 + raw[i]
  BY <1>0, <1>4
<1>6. ASSUME NEW i \in 1 .. n, from[i + 1] = w[i + 1] PROVE from[i] = w[i]
  BY <1>0, <1>5, <1>6
<1>7. n >= 4 => from[4] = w[4]
  BY <1>0, <1>5, <1>6
<1>8. n >= 3 => from[3] = w[3]
  BY <1>0, <1>5, <1>6, <1>7
<1>9. n >= 2 => from[2] = w[2]
  BY <1>0, <1>5, <1>6, <1>8
<1>10. from[1] = w[1]
  BY <1>0, <1>5, <1>6, <1>9
<1> QED
  BY <1>1, <1>10

\* The bases of the device table, and octal for X and Y.
RadixBases == {OCTAL, DECIMAL, HEXADECIMAL}

\* Eight places of each of them.
LEMMA RadixPowers == ASSUME NEW base \in RadixBases PROVE base \in 1 .. 16 /\ IsPowers(base, 7)
<1>1. base = 8 \/ base = 10 \/ base = 16
  BY DEF RadixBases, OCTAL, DECIMAL, HEXADECIMAL
<1>2. base \in 1 .. 16
  BY <1>1
<1>3. IsPowers(base, 7)
  BY <1>1, PowersOf8, PowersOf10, PowersOf16
<1> QED
  BY <1>2, <1>3

\* One place of a number.
LEMMA Place ==
    ASSUME NEW v \in Nat, NEW top \in Nat, NEW base, IsPowers(base, top), NEW k \in 0 .. top
    PROVE  /\ v \div Power(base, k) \in Nat /\ v \div Power(base, k + 1) \in Nat
           /\ (v \div Power(base, k)) % base \in 0 .. base - 1
           /\ v \div Power(base, k) = (v \div Power(base, k + 1)) * base + ((v \div Power(base, k)) % base)
<1> DEFINE m == Power(base, k)
           q == v \div m
           s == q \div base
           t == q % base
<1>1. /\ base \in Nat \ {0} /\ m \in Nat \ {0} /\ Power(base, k + 1) = m * base
  BY DEF IsPowers
<1>2. v \div Power(base, k + 1) = s
  BY <1>1, DivDiv
<1>3. q \in Nat
  BY <1>1, Divides
<1>4. s \in Nat /\ t \in 0 .. base - 1 /\ q = base * s + t
  BY <1>1, <1>3, Divides
<1> HIDE DEF s, t
<1>5. base * s = s * base
  BY <1>1, <1>4
<1> QED
  BY <1>2, <1>3, <1>4, <1>5 DEF t

\* A digit of a base is one of the sixteen and stands for its value.
LEMMA DigitIn ==
    ASSUME NEW base \in 1 .. 16, NEW d \in 0 .. base - 1
    PROVE  /\ HexDigits[1 + d] \in RadixDigits(base) /\ HexDigits[1 + d] \in HexDigit
           /\ DigitValue[HexDigits[1 + d]] = d
<1>1. d \in 0 .. 15 /\ 1 + d = d + 1 /\ 1 + d \in 1 .. base
  OBVIOUS
<1> QED
  BY <1>1, DigitOf DEF RadixDigits

\* A device number keeps its value through the digits of its base.
LEMMA DigitsSurvive ==
    ASSUME NEW base \in RadixBases, NEW n \in {6, 8}, NEW v \in Nat, v \div Power(base, n - 1) < base
    PROVE  /\ Digits(v, n, base) \in Seq(RadixDigits(base) \cap HexDigit)
           /\ Len(Digits(v, n, base)) = n
           /\ FromDigits(Digits(v, n, base), base) = v
<1> DEFINE e == Digits(v, n, base)
           d(k) == (v \div Power(base, k)) % base
           w == [i \in 0 .. n |-> v \div Power(base, n - i)]
<1>1. IsPowers(base, 7) /\ base \in 1 .. 16 /\ n \in 1 .. 8 /\ 7 \in Nat
  <2>1. n \in 1 .. 8 /\ 7 \in Nat
    OBVIOUS
  <2> QED
    BY <2>1, RadixPowers
<1>2. ASSUME NEW i \in 1 .. n
      PROVE  n - i \in 0 .. 7 /\ (n - i) + 1 = n - (i - 1)
  BY <1>1
<1>3. e = [i \in 1 .. n |-> HexDigits[1 + d(n - i)]]
  BY DEF Digits, Power
<1>4. ASSUME NEW i \in 1 .. n
      PROVE  d(n - i) \in 0 .. base - 1
  BY <1>1, <1>2, Place
<1> HIDE DEF e, d
<1>5. ASSUME NEW i \in 1 .. n
      PROVE  e[i] \in RadixDigits(base) \cap HexDigit /\ DigitValue[e[i]] = d(n - i)
  BY <1>1, <1>3, <1>4, DigitIn
<1>6. e \in Seq(RadixDigits(base) \cap HexDigit) /\ Len(e) = n
  BY <1>1, <1>3, <1>5
<1>7. w \in [0 .. n -> Nat]
  <2>1. ASSUME NEW i \in 0 .. n PROVE v \div Power(base, n - i) \in Nat
    <3>1. CASE i = 0
      <4>1. n - 1 \in 0 .. 7 /\ (n - 1) + 1 = n - i
        BY <1>1, <3>1
      <4> QED
        BY <1>1, <4>1, Place
    <3>2. CASE i # 0
      <4>1. n - i \in 0 .. 7
        BY <1>2, <3>2
      <4> QED
        BY <1>1, <4>1, Place
    <3> QED
      BY <3>1, <3>2
  <2> QED
    BY <2>1
<1>8. ASSUME NEW i \in 1 .. n
      PROVE  w[i] = w[i - 1] * base + DigitValue[e[i]]
  <2>1. v \div Power(base, n - i) = (v \div Power(base, (n - i) + 1)) * base + d(n - i)
    BY <1>1, <1>2, Place DEF d
  <2>2. i - 1 \in 0 .. n /\ i \in 0 .. n
    BY <1>1
  <2>3. w[i] = v \div Power(base, n - i) /\ w[i - 1] = v \div Power(base, (n - i) + 1)
    BY <1>2, <2>2
  <2> HIDE DEF w
  <2> QED
    BY <1>5, <2>1, <2>3
<1>9. w[0] = 0
  <2>1. n - 1 \in 0 .. 7 /\ (n - 1) + 1 = n - 0
    BY <1>1
  <2>2. w[0] = v \div Power(base, (n - 1) + 1)
    BY <1>1, <2>1
  <2> DEFINE x == v \div Power(base, (n - 1) + 1)
             y == v \div Power(base, n - 1)
             z == y % base
  <2>3. x \in Nat /\ z \in 0 .. base - 1 /\ y = x * base + z /\ y < base
    BY <1>1, <2>1, Place
  <2> HIDE DEF x, y, z
  <2>4. x = 0
    <3>1. CASE x >= 1
      <4>1. x * base >= base
        BY <1>1, <2>3, <3>1
      <4> QED
        BY <1>1, <2>3, <4>1
    <3> QED
      BY <2>3, <3>1
  <2> QED
    BY <2>2, <2>4 DEF x
<1>10. w[n] = v
  <2>1. Power(base, 0) = 1 /\ n - n = 0 /\ n \in 0 .. n
    BY <1>1 DEF IsPowers
  <2> QED
    BY <2>1, One
<1> HIDE DEF w
<1>11. base \in Nat
  BY <1>1
<1>12. FromDigits(e, base) = v
  BY <1>1, <1>6, <1>7, <1>8, <1>9, <1>10, <1>11, HornerDigits
<1> QED
  BY <1>6, <1>12 DEF e

\* A device number keeps its value through its octets.
LEMMA OctetsSurvive ==
    ASSUME NEW n \in {3, 4}, NEW v \in Nat, v < Power(256, n)
    PROVE  /\ LittleEndian(v, n) \in Seq(0 .. 255)
           /\ Len(LittleEndian(v, n)) = n
           /\ FromLittleEndian(LittleEndian(v, n)) = v
<1> DEFINE e == LittleEndian(v, n)
           w == [i \in 1 .. n + 1 |-> v \div Power(256, i - 1)]
<1>1. IsPowers(256, 3)
  BY PowersOf256
<1>2. e = [i \in 1 .. n |-> (v \div Power(256, i - 1)) % 256]
  BY DEF LittleEndian, Power
<1> HIDE DEF e
<1>3. ASSUME NEW i \in 1 .. n
      PROVE  /\ e[i] \in 0 .. 255 /\ v \div Power(256, i - 1) \in Nat /\ v \div Power(256, i) \in Nat
             /\ v \div Power(256, i - 1) = (v \div Power(256, i)) * 256 + e[i]
  <2>1. PICK k \in 0 .. 3 : k = i - 1 /\ k + 1 = i
    OBVIOUS
  <2>2. /\ v \div Power(256, k) \in Nat /\ v \div Power(256, k + 1) \in Nat
        /\ (v \div Power(256, k)) % 256 \in 0 .. 256 - 1
        /\ v \div Power(256, k) = (v \div Power(256, k + 1)) * 256 + ((v \div Power(256, k)) % 256)
    <3>1. PICK b : b = 256
      OBVIOUS
    <3>2. 3 \in Nat /\ IsPowers(b, 3)
      BY <1>1, <3>1
    <3>3. /\ v \div Power(b, k) \in Nat /\ v \div Power(b, k + 1) \in Nat
          /\ (v \div Power(b, k)) % b \in 0 .. b - 1
          /\ v \div Power(b, k) = (v \div Power(b, k + 1)) * b + ((v \div Power(b, k)) % b)
      BY <3>2, Place
    <3> QED
      BY <3>1, <3>3
  <2>3. e[i] = (v \div Power(256, k)) % 256
    BY <1>2, <2>1
  <2> HIDE DEF w
  <2> QED
    BY <2>1, <2>2, <2>3
<1>4. e \in Seq(0 .. 255) /\ Len(e) = n
  <2> DEFINE f(i) == (v \div Power(256, i - 1)) % 256
  <2>1. e = [i \in 1 .. n |-> f(i)]
    BY <1>2
  <2> HIDE DEF f, w
  <2>2. n \in Nat /\ \A i \in 1 .. n : f(i) \in 0 .. 255
    BY <1>3, <2>1
  <2> QED
    BY <2>1, <2>2
<1>5. w[n + 1] = 0
  <2>1. n + 1 \in 1 .. n + 1 /\ (n + 1) - 1 = n
    OBVIOUS
  <2>2. v \div Power(256, n) = 0
    <3>1. n - 1 \in 0 .. 7 /\ (n - 1) + 1 = n
      OBVIOUS
    <3>2. Power(256, n - 1) \in Nat \ {0} /\ Power(256, n) = Power(256, n - 1) * 256
      BY <1>1, <3>1 DEF IsPowers
    <3>3. Power(256, n) \in Nat \ {0}
      BY <3>2
    <3> DEFINE m == Power(256, n)
    <3> HIDE DEF m
    <3>4. m \in Nat \ {0} /\ v < m /\ v = m * 0 + v
      BY <3>3 DEF m
    <3>5. v \div m = 0
      BY <3>4, Quotient
    <3> QED
      BY <3>5 DEF m
  <2> QED
    BY <2>1, <2>2
<1>6. w \in [1 .. n + 1 -> Nat]
  <2>1. ASSUME NEW i \in 1 .. n + 1 PROVE v \div Power(256, i - 1) \in Nat
    <3>1. CASE i \in 1 .. n
      BY <1>3, <3>1
    <3>2. CASE i = n + 1
      BY <1>5, <3>2
    <3> QED
      BY <3>1, <3>2
  <2> QED
    BY <2>1
<1>7. ASSUME NEW i \in 1 .. n
      PROVE  w[i] = w[i + 1] * 256 + e[i]
  <2>1. i \in 1 .. n + 1 /\ i + 1 \in 1 .. n + 1 /\ (i + 1) - 1 = i
    OBVIOUS
  <2>2. w[i] = v \div Power(256, i - 1) /\ w[i + 1] = v \div Power(256, i)
    BY <2>1
  <2> HIDE DEF w
  <2> QED
    BY <1>3, <2>2
<1>8. w[1] = v
  <2>1. 1 \in 1 .. n + 1 /\ 1 - 1 = 0 /\ Power(256, 0) = 1
    BY <1>1 DEF IsPowers
  <2> QED
    BY <2>1, One
<1> HIDE DEF w
<1>9. FromLittleEndian(e) = v
  <2>1. n \in 1 .. 4
    OBVIOUS
  <2>2. RunsDown(e, n, w)
    BY <1>4, <1>5, <1>6, <1>7, <2>1 DEF RunsDown
  <2> QED
    BY <1>8, <2>2, HornerOctets
<1> QED
  BY <1>4, <1>9 DEF e

\* The number of every family on the wire.
LEMMA LongCodes ==
    /\ Device_B.code_long = 160 /\ Device_BL.code_long = 220 /\ Device_CC.code_long = 195
    /\ Device_CN.code_long = 197 /\ Device_CS.code_long = 196 /\ Device_D.code_long = 168
    /\ Device_DX.code_long = 162 /\ Device_DY.code_long = 163 /\ Device_F.code_long = 147
    /\ Device_G.code_long = 171 /\ Device_L.code_long = 146 /\ Device_LCC.code_long = 84
    /\ Device_LCN.code_long = 86 /\ Device_LCS.code_long = 85 /\ Device_LSTC.code_long = 88
    /\ Device_LSTN.code_long = 90 /\ Device_LSTS.code_long = 89 /\ Device_LTC.code_long = 80
    /\ Device_LTN.code_long = 82 /\ Device_LTS.code_long = 81 /\ Device_LZ.code_long = 98
    /\ Device_M.code_long = 144 /\ Device_R.code_long = 175 /\ Device_RD.code_long = 44
    /\ Device_S.code_long = 152 /\ Device_SB.code_long = 161 /\ Device_SD.code_long = 169
    /\ Device_SM.code_long = 145 /\ Device_STC.code_long = 198 /\ Device_STN.code_long = 200
    /\ Device_STS.code_long = 199 /\ Device_SW.code_long = 181 /\ Device_TC.code_long = 192
    /\ Device_TN.code_long = 194 /\ Device_TS.code_long = 193 /\ Device_V.code_long = 148
    /\ Device_W.code_long = 180 /\ Device_X.code_long = 156 /\ Device_Y.code_long = 157
    /\ Device_Z.code_long = 204 /\ Device_ZR.code_long = 176
BY DEF
  Device_B, Device_BL, Device_CC, Device_CN, Device_CS, Device_D, Device_DX, Device_DY,
  Device_F, Device_G, Device_L, Device_LCC, Device_LCN, Device_LCS, Device_LSTC, Device_LSTN,
  Device_LSTS, Device_LTC, Device_LTN, Device_LTS, Device_LZ, Device_M, Device_R, Device_RD,
  Device_S, Device_SB, Device_SD, Device_SM, Device_STC, Device_STN, Device_STS, Device_SW,
  Device_TC, Device_TN, Device_TS, Device_V, Device_W, Device_X, Device_Y, Device_Z, Device_ZR,
  DeviceType

\* No two families have the same number.
LEMMA LongCodesDiffer ==
    ASSUME NEW a \in DEVICE_TABLE, NEW b \in DEVICE_TABLE, a.code_long = b.code_long
    PROVE  a = b
BY LongCodes, SMTT(120) DEF DEVICE_TABLE

\* The letters a family has on the wire, with its padding.
Lettered(dt, p, q, r, s) ==
    Ascii4(dt)[1] = p /\ Ascii4(dt)[2] = q /\ Ascii4(dt)[3] = r /\ Ascii4(dt)[4] = s
LetteredShort(dt, p, q) ==
    /\ Len(dt.ascii2) = 2 /\ dt.ascii2[1] = p /\ dt.ascii2[2] = q
    /\ dt.ascii2 = [i \in 1 .. 2 |-> dt.ascii2[i]]

\* The four letters of every family ...
LEMMA LongMnemonics ==
    /\ Lettered(Device_B, "B", "*", "*", "*") /\ Lettered(Device_BL, "B", "L", "*", "*")
    /\ Lettered(Device_CC, "C", "C", "*", "*") /\ Lettered(Device_CN, "C", "N", "*", "*")
    /\ Lettered(Device_CS, "C", "S", "*", "*") /\ Lettered(Device_D, "D", "*", "*", "*")
    /\ Lettered(Device_DX, "D", "X", "*", "*") /\ Lettered(Device_DY, "D", "Y", "*", "*")
    /\ Lettered(Device_F, "F", "*", "*", "*") /\ Lettered(Device_G, "G", "*", "*", "*")
    /\ Lettered(Device_L, "L", "*", "*", "*") /\ Lettered(Device_LCC, "L", "C", "C", "*")
    /\ Lettered(Device_LCN, "L", "C", "N", "*") /\ Lettered(Device_LCS, "L", "C", "S", "*")
    /\ Lettered(Device_LSTC, "L", "S", "T", "C") /\ Lettered(Device_LSTN, "L", "S", "T", "N")
    /\ Lettered(Device_LSTS, "L", "S", "T", "S") /\ Lettered(Device_LTC, "L", "T", "C", "*")
    /\ Lettered(Device_LTN, "L", "T", "N", "*") /\ Lettered(Device_LTS, "L", "T", "S", "*")
    /\ Lettered(Device_LZ, "L", "Z", "*", "*") /\ Lettered(Device_M, "M", "*", "*", "*")
    /\ Lettered(Device_R, "R", "*", "*", "*") /\ Lettered(Device_RD, "R", "D", "*", "*")
    /\ Lettered(Device_S, "S", "*", "*", "*") /\ Lettered(Device_SB, "S", "B", "*", "*")
    /\ Lettered(Device_SD, "S", "D", "*", "*") /\ Lettered(Device_SM, "S", "M", "*", "*")
    /\ Lettered(Device_STC, "S", "T", "C", "*") /\ Lettered(Device_STN, "S", "T", "N", "*")
    /\ Lettered(Device_STS, "S", "T", "S", "*") /\ Lettered(Device_SW, "S", "W", "*", "*")
    /\ Lettered(Device_TC, "T", "C", "*", "*") /\ Lettered(Device_TN, "T", "N", "*", "*")
    /\ Lettered(Device_TS, "T", "S", "*", "*") /\ Lettered(Device_V, "V", "*", "*", "*")
    /\ Lettered(Device_W, "W", "*", "*", "*") /\ Lettered(Device_X, "X", "*", "*", "*")
    /\ Lettered(Device_Y, "Y", "*", "*", "*") /\ Lettered(Device_Z, "Z", "*", "*", "*")
    /\ Lettered(Device_ZR, "Z", "R", "*", "*")
BY DEF Lettered, Ascii4,
  Device_B, Device_BL, Device_CC, Device_CN, Device_CS, Device_D, Device_DX, Device_DY,
  Device_F, Device_G, Device_L, Device_LCC, Device_LCN, Device_LCS, Device_LSTC, Device_LSTN,
  Device_LSTS, Device_LTC, Device_LTN, Device_LTS, Device_LZ, Device_M, Device_R, Device_RD,
  Device_S, Device_SB, Device_SD, Device_SM, Device_STC, Device_STN, Device_STS, Device_SW,
  Device_TC, Device_TN, Device_TS, Device_V, Device_W, Device_X, Device_Y, Device_Z, Device_ZR, 
  DeviceType

\* ... and the two, where it has two.
LEMMA ShortMnemonics ==
    /\ LetteredShort(Device_B, "B", "*") /\ LetteredShort(Device_BL, "B", "L")
    /\ LetteredShort(Device_CC, "C", "C") /\ LetteredShort(Device_CN, "C", "N")
    /\ LetteredShort(Device_CS, "C", "S") /\ LetteredShort(Device_D, "D", "*")
    /\ LetteredShort(Device_DX, "D", "X") /\ LetteredShort(Device_DY, "D", "Y")
    /\ LetteredShort(Device_F, "F", "*") /\ LetteredShort(Device_G, "G", "*")
    /\ LetteredShort(Device_L, "L", "*") /\ LetteredShort(Device_M, "M", "*")
    /\ LetteredShort(Device_R, "R", "*") /\ LetteredShort(Device_S, "S", "*")
    /\ LetteredShort(Device_SB, "S", "B") /\ LetteredShort(Device_SD, "S", "D")
    /\ LetteredShort(Device_SM, "S", "M") /\ LetteredShort(Device_STC, "S", "C")
    /\ LetteredShort(Device_STN, "S", "N") /\ LetteredShort(Device_STS, "S", "S")
    /\ LetteredShort(Device_SW, "S", "W") /\ LetteredShort(Device_TC, "T", "C")
    /\ LetteredShort(Device_TN, "T", "N") /\ LetteredShort(Device_TS, "T", "S")
    /\ LetteredShort(Device_V, "V", "*") /\ LetteredShort(Device_W, "W", "*")
    /\ LetteredShort(Device_X, "X", "*") /\ LetteredShort(Device_Y, "Y", "*")
    /\ LetteredShort(Device_Z, "Z", "*") /\ LetteredShort(Device_ZR, "Z", "R")
    /\ Len(Device_LCC.ascii2) = 0 /\ Len(Device_LCN.ascii2) = 0 /\ Len(Device_LCS.ascii2) = 0
    /\ Len(Device_LSTC.ascii2) = 0 /\ Len(Device_LSTN.ascii2) = 0 /\ Len(Device_LSTS.ascii2) = 0
    /\ Len(Device_LTC.ascii2) = 0 /\ Len(Device_LTN.ascii2) = 0 /\ Len(Device_LTS.ascii2) = 0
    /\ Len(Device_LZ.ascii2) = 0 /\ Len(Device_RD.ascii2) = 0
BY DEF LetteredShort,
  Device_B, Device_BL, Device_CC, Device_CN, Device_CS, Device_D, Device_DX, Device_DY,
  Device_F, Device_G, Device_L, Device_LCC, Device_LCN, Device_LCS, Device_LSTC, Device_LSTN,
  Device_LSTS, Device_LTC, Device_LTN, Device_LTS, Device_LZ, Device_M, Device_R, Device_RD,
  Device_S, Device_SB, Device_SD, Device_SM, Device_STC, Device_STN, Device_STS, Device_SW,
  Device_TC, Device_TN, Device_TS, Device_V, Device_W, Device_X, Device_Y, Device_Z, Device_ZR, 
  DeviceType

\* No two families have the same four letters ...
LEMMA LongMnemonicsDiffer ==
    ASSUME NEW a \in DEVICE_TABLE, NEW b \in DEVICE_TABLE, Ascii4(a) = Ascii4(b)
    PROVE  a = b
BY LongMnemonics, SMTT(120) DEF DEVICE_TABLE, Lettered

\* ... nor the same two.
LEMMA ShortMnemonicsDiffer ==
    ASSUME NEW a \in DEVICE_TABLE, NEW b \in DEVICE_TABLE, a.ascii2 = b.ascii2, Len(a.ascii2) = 2
    PROVE  a = b
BY ShortMnemonics, SMTT(120) DEF DEVICE_TABLE, LetteredShort

\* A field of letters with its padding behind them.
IsField(f, n) ==
    /\ n \in {2, 4}
    /\ f = [i \in 1 .. n |-> f[i]]
    /\ \A i \in 1 .. n : f[i] \in Letter \cup {"*"}
    /\ f[1] # "*"
    /\ \A i \in 1 .. n : \A j \in 1 .. n : i < j /\ f[i] = "*" => f[j] = "*"

\* What pads is no letter.
LEMMA PaddingIsNoLetter == Letter \cap Padding = {}
BY DEF Letter, Padding

\* What is left of a field without its padding is its letters.
LEMMA MnemonicOf ==
    ASSUME NEW n, NEW f, IsField(f, n)
    PROVE  \E k \in 1 .. n :
              /\ Mnemonic(f) = [i \in 1 .. k |-> f[i]]
              /\ \A i \in 1 .. n : i > k => f[i] = "*"
<1> DEFINE kept == {i \in DOMAIN f : f[i] \notin Padding}
<1>1. /\ n \in {2, 4} /\ f = [i \in 1 .. n |-> f[i]] /\ DOMAIN f = 1 .. n
      /\ \A i \in 1 .. n : f[i] \in Letter \cup {"*"}
      /\ f[1] # "*"
      /\ \A i \in 1 .. n : \A j \in 1 .. n : i < j /\ f[i] = "*" => f[j] = "*"
  BY DEF IsField
<1>2. \A i \in 1 .. n : i \in kept <=> f[i] # "*"
  BY <1>1, PaddingIsNoLetter DEF Padding
<1>3. kept \subseteq 1 .. n /\ 1 \in kept
  BY <1>1, <1>2
<1>4. PICK k \in 1 .. n : /\ k \in kept /\ \A i \in 1 .. n : i > k => i \notin kept
  <2> HIDE DEF kept
  <2>1. CASE n = 2
    <3>1. CASE 2 \in kept
      BY <1>3, <2>1, <3>1
    <3>2. CASE 2 \notin kept
      BY <1>3, <2>1, <3>2
    <3> QED
      BY <3>1, <3>2
  <2>2. CASE n = 4
    <3>1. CASE 4 \in kept
      BY <1>3, <2>2, <3>1
    <3>2. CASE 4 \notin kept /\ 3 \in kept
      BY <1>3, <2>2, <3>2
    <3>3. CASE 4 \notin kept /\ 3 \notin kept /\ 2 \in kept
      BY <1>3, <2>2, <3>3
    <3>4. CASE 4 \notin kept /\ 3 \notin kept /\ 2 \notin kept
      BY <1>3, <2>2, <3>4
    <3> QED
      BY <3>1, <3>2, <3>3, <3>4
  <2> QED
    BY <1>1, <2>1, <2>2
<1>5. \A i \in 1 .. k : f[i] \in Letter
  BY <1>1, <1>2, <1>4
<1>6. Max(kept) = k
  <2> HIDE DEF kept
  <2>1. k \in kept /\ \A y \in kept : k >= y
    BY <1>1, <1>3, <1>4
  <2>2. Max(kept) \in kept /\ \A y \in kept : Max(kept) >= y
    BY <2>1 DEF Max
  <2>3. Max(kept) \in Int /\ k \in Int
    BY <1>1, <1>3, <2>1, <2>2
  <2> QED
    BY <2>1, <2>2, <2>3
<1>7. SubSeq(f, 1, k) = [i \in 1 .. k |-> f[i]]
  <2>1. f \in Seq(Letter \cup {"*"}) /\ Len(f) = n
    BY <1>1
  <2>2. k \in Nat /\ k <= n /\ 1 \in Nat
    BY <1>1
  <2> QED
    BY <2>1, <2>2
<1>8. Range(SubSeq(f, 1, k)) \subseteq Letter \cup HexDigit
  BY <1>5, <1>7 DEF Range
<1>9. kept # {}
  BY <1>3
<1>10. Mnemonic(f) = SubSeq(f, 1, k)
  BY <1>6, <1>8, <1>9 DEF Mnemonic
<1> HIDE DEF kept
<1>11. \A i \in 1 .. n : i > k => f[i] = "*"
  BY <1>2, <1>4
<1> QED
  BY <1>7, <1>10, <1>11

\* Two fields that mean the same letters are the same.
LEMMA MnemonicsDiffer ==
    ASSUME NEW n, NEW f, NEW g, IsField(f, n), IsField(g, n), Mnemonic(f) = Mnemonic(g)
    PROVE  f = g
<1>1. PICK k \in 1 .. n : /\ Mnemonic(f) = [i \in 1 .. k |-> f[i]]
                          /\ \A i \in 1 .. n : i > k => f[i] = "*"
  BY MnemonicOf
<1>2. PICK l \in 1 .. n : /\ Mnemonic(g) = [i \in 1 .. l |-> g[i]]
                          /\ \A i \in 1 .. n : i > l => g[i] = "*"
  BY MnemonicOf
<1>3. n \in Nat
  BY DEF IsField
<1>4. k = l
  <2>1. 1 .. k = 1 .. l
    BY <1>1, <1>2
  <2> QED
    BY <1>3, <2>1
<1>5. ASSUME NEW i \in 1 .. n PROVE f[i] = g[i]
  <2>1. CASE i > k
    BY <1>1, <1>2, <1>4, <2>1
  <2>2. CASE ~(i > k)
    <3>1. i \in 1 .. k
      BY <1>3, <2>2
    <3>2. Mnemonic(f)[i] = f[i] /\ Mnemonic(g)[i] = g[i]
      BY <1>1, <1>2, <1>4, <3>1
    <3> QED
      BY <3>2
  <2> QED
    BY <2>1, <2>2
<1> QED
  BY <1>5 DEF IsField

\* The mnemonics of the table are such fields.
LEMMA LongFields ==
    ASSUME NEW dt \in DEVICE_TABLE
    PROVE  IsField(Ascii4(dt), 4)
<1> DEFINE f == Ascii4(dt)
<1>1. f = [i \in 1 .. 4 |-> f[i]]
  BY DEF Ascii4
<1> HIDE DEF f
<1>2. /\ f[1] \in Letter /\ f[2] \in Letter \cup {"*"} /\ f[3] \in Letter \cup {"*"}
      /\ f[4] \in Letter \cup {"*"} /\ f[1] # "*"
      /\ f[2] = "*" => f[3] = "*" /\ f[4] = "*"
      /\ f[3] = "*" => f[4] = "*"
  BY LongMnemonics, SMTT(60) DEF DEVICE_TABLE, Lettered, Letter, f
<1> QED
  BY <1>1, <1>2 DEF IsField, f

\* ... the short ones as well.
LEMMA ShortFields ==
    ASSUME NEW dt \in DEVICE_TABLE, Len(dt.ascii2) = 2
    PROVE  IsField(dt.ascii2, 2)
<1> DEFINE f == dt.ascii2
<1>1. f[1] \in Letter /\ f[2] \in Letter \cup {"*"} /\ f[1] # "*"
  BY ShortMnemonics, SMTT(60) DEF DEVICE_TABLE, LetteredShort, Letter
<1>2. f = [i \in 1 .. 2 |-> f[i]]
  BY ShortMnemonics, SMTT(60) DEF DEVICE_TABLE, LetteredShort
<1> HIDE DEF f
<1>3. \A i \in 1 .. 2 : f[i] \in Letter \cup {"*"}
  BY <1>1
<1>4. \A i \in 1 .. 2 : \A j \in 1 .. 2 : i < j /\ f[i] = "*" => f[j] = "*"
  BY <1>1
<1> QED
  BY <1>1, <1>2, <1>3, <1>4 DEF IsField, f

\* What every row of the table has: a base, and the short number that is the long one, if any.
LEMMA TableRows ==
    ASSUME NEW dt \in DEVICE_TABLE
    PROVE  dt.radix \in {DECIMAL, HEXADECIMAL} /\ dt.code_short \in {NoNumber, dt.code_long}
BY SMTT(60) DEF DEVICE_TABLE,
  Device_B, Device_BL, Device_CC, Device_CN, Device_CS, Device_D, Device_DX, Device_DY,
  Device_F, Device_G, Device_L, Device_LCC, Device_LCN, Device_LCS, Device_LSTC, Device_LSTN,
  Device_LSTS, Device_LTC, Device_LTN, Device_LTS, Device_LZ, Device_M, Device_R, Device_RD,
  Device_S, Device_SB, Device_SD, Device_SM, Device_STC, Device_STN, Device_STS, Device_SW,
  Device_TC, Device_TN, Device_TS, Device_V, Device_W, Device_X, Device_Y, Device_Z, Device_ZR,
  DeviceType

\* The one-byte number, where there is one, is the other.
LEMMA ShortCodes ==
    ASSUME NEW dt \in DEVICE_TABLE
    PROVE  /\ dt.code_long \in 0 .. 255
           /\ dt.code_short # NoNumber => dt.code_short = dt.code_long
<1>1. dt.code_long \in 0 .. 255
  BY LongCodes, SMTT(60) DEF DEVICE_TABLE
<1>2. dt.code_short \in {NoNumber, dt.code_long}
  BY TableRows
<1> QED
  BY <1>1, <1>2

\* The code of a family is as long as its field and of its coding.
LEMMA CodeUnits ==
    ASSUME NEW c \in Codecs, NEW spec \in {"short", "long"}, NEW dt \in DEVICE_TABLE,
           HasDeviceCode(c, dt, spec)
    PROVE  /\ DeviceCode(c, dt, spec) \in Seq(UnitOf(c))
           /\ Len(DeviceCode(c, dt, spec)) = DeviceCodeLen(c, spec)
<1> DEFINE code == DeviceCode(c, dt, spec)
<1>1. CASE c = "binary" /\ spec = "short"
  <2>1. code = <<dt.code_short>> /\ dt.code_short # NoNumber
    BY <1>1 DEF DeviceCode, HasDeviceCode
  <2>2. dt.code_short \in UnitOf(c)
    BY <1>1, <2>1, ShortCodes DEF UnitOf
  <2> HIDE DEF code
  <2>3. code \in Seq(UnitOf(c)) /\ Len(code) = 1
    BY <2>1, <2>2
  <2> QED
    BY <1>1, <2>3 DEF DeviceCodeLen, Width, code
<1>2. CASE c = "binary" /\ spec = "long"
  <2>1. code = Number(c, dt.code_long, 16)
    <3>1. 16 \div 8 = 2
      OBVIOUS
    <3> QED
      BY <1>2, <3>1 DEF DeviceCode, Number
  <2>2. dt.code_long \in Nat /\ dt.code_long < Values(16)
    BY ShortCodes DEF Values
  <2>3. code \in Seq(Unit(c)) /\ Len(code) = NumberLen(c, 16)
    BY <2>1, <2>2, NumbersSurvive
  <2>4. Unit(c) = UnitOf(c) /\ NumberLen(c, 16) = DeviceCodeLen(c, spec)
    BY <1>2 DEF Unit, UnitOf, NumberLen, DeviceCodeLen, Width
  <2> QED
    BY <2>3, <2>4
<1>3. CASE c = "ascii" /\ spec = "short"
  <2>1. code = dt.ascii2 /\ Len(dt.ascii2) = 2
    BY <1>3 DEF DeviceCode, HasDeviceCode
  <2>2. IsField(code, 2)
    BY <2>1, ShortFields
  <2> HIDE DEF code
  <2>3. code \in Seq(Letter \cup {"*"}) /\ Len(code) = 2
    BY <2>2 DEF IsField
  <2>4. Letter \cup {"*"} \subseteq UnitOf(c)
    BY <1>3 DEF UnitOf, Padding
  <2>5. code \in Seq(UnitOf(c))
    BY <2>3, <2>4, SeqMonotonic
  <2> QED
    BY <1>3, <2>3, <2>5 DEF DeviceCodeLen, Width, code
<1>4. CASE c = "ascii" /\ spec = "long"
  <2>1. code = Ascii4(dt)
    BY <1>4 DEF DeviceCode
  <2>2. IsField(code, 4)
    BY <2>1, LongFields
  <2> HIDE DEF code
  <2>3. code \in Seq(Letter \cup {"*"}) /\ Len(code) = 4
    BY <2>2 DEF IsField
  <2>4. Letter \cup {"*"} \subseteq UnitOf(c)
    BY <1>4 DEF UnitOf, Padding
  <2>5. code \in Seq(UnitOf(c))
    BY <2>3, <2>4, SeqMonotonic
  <2> QED
    BY <1>4, <2>3, <2>5 DEF DeviceCodeLen, Width, code
<1> QED
  BY <1>1, <1>2, <1>3, <1>4 DEF Codecs

\* No code is that of two families: one parser, one family, in every format.
LEMMA CodesDiffer ==
    ASSUME NEW c \in Codecs, NEW spec \in {"short", "long"},
           NEW a \in DEVICE_TABLE, NEW b \in DEVICE_TABLE,
           HasDeviceCode(c, a, spec), HasDeviceCode(c, b, spec),
           IF c = "binary" THEN DeviceCode(c, a, spec) = DeviceCode(c, b, spec)
           ELSE Mnemonic(DeviceCode(c, a, spec)) = Mnemonic(DeviceCode(c, b, spec))
    PROVE  a = b
<1>1. CASE c = "binary" /\ spec = "short"
  <2>1. /\ a.code_short # NoNumber /\ b.code_short # NoNumber
        /\ <<a.code_short>> = <<b.code_short>>
    BY <1>1 DEF DeviceCode, HasDeviceCode
  <2>2. a.code_short = b.code_short
    BY <2>1
  <2> QED
    BY <2>1, <2>2, ShortCodes, LongCodesDiffer
<1>2. CASE c = "binary" /\ spec = "long"
  <2>1. /\ DeviceCode(c, a, spec) = Number(c, a.code_long, 16)
        /\ DeviceCode(c, b, spec) = Number(c, b.code_long, 16)
    <3>1. 16 \div 8 = 2
      OBVIOUS
    <3> QED
      BY <1>2, <3>1 DEF DeviceCode, Number
  <2>2. /\ a.code_long \in Nat /\ a.code_long < Values(16)
        /\ b.code_long \in Nat /\ b.code_long < Values(16)
    BY ShortCodes DEF Values
  <2>3. Raw2Number(c, Number(c, a.code_long, 16)) = a.code_long
    BY <2>2, NumbersSurvive
  <2>4. Raw2Number(c, Number(c, b.code_long, 16)) = b.code_long
    BY <2>2, NumbersSurvive
  <2> QED
    BY <1>2, <2>1, <2>3, <2>4, LongCodesDiffer
<1>3. CASE c = "ascii" /\ spec = "short"
  <2>1. /\ Len(a.ascii2) = 2 /\ Len(b.ascii2) = 2 /\ Mnemonic(a.ascii2) = Mnemonic(b.ascii2)
    BY <1>3 DEF DeviceCode, HasDeviceCode
  <2> QED
    BY <2>1, ShortFields, MnemonicsDiffer, ShortMnemonicsDiffer
<1>4. CASE c = "ascii" /\ spec = "long"
  <2>1. Mnemonic(Ascii4(a)) = Mnemonic(Ascii4(b))
    BY <1>4 DEF DeviceCode
  <2> QED
    BY <2>1, LongFields, MnemonicsDiffer, LongMnemonicsDiffer
<1> QED
  BY <1>1, <1>2, <1>3, <1>4 DEF Codecs

\* Three octets hold what 24 bits do.
LEMMA TwentyFourBits == 2 ^ 24 = Power(256, 3)
BY DEF Power

\* The bases of the families, by the table.
LEMMA TableBases == ASSUME NEW dt \in DEVICE_TABLE PROVE dt.radix \in RadixBases
BY TableRows DEF RadixBases

\* The number of a point is as long as its field, of its coding, and keeps its value.
LEMMA DeviceNumbersSurvive ==
    ASSUME NEW c \in Codecs, NEW spec \in {"short", "long"}, NEW base \in RadixBases,
           NEW index \in Nat, index < Power(256, 4), HasDeviceNumber(c, index, spec, base)
    PROVE  /\ DeviceNumber(c, index, spec, base) \in Seq(UnitOf(c))
           /\ Len(DeviceNumber(c, index, spec, base)) = DeviceNumberLen(c, spec)
           /\ c = "binary" => FromLittleEndian(DeviceNumber(c, index, spec, base)) = index
           /\ c = "ascii" =>
                 /\ Range(DeviceNumber(c, index, spec, base)) \subseteq RadixDigits(base)
                 /\ FromDigits(DeviceNumber(c, index, spec, base), base) = index
<1> DEFINE n == DeviceNumberLen(c, spec)
           number == DeviceNumber(c, index, spec, base)
<1>1. CASE c = "binary"
  <2>1. n \in {3, 4} /\ (spec = "short" => n = 3) /\ (spec = "long" => n = 4)
    BY <1>1 DEF DeviceNumberLen
  <2>2. index < Power(256, n)
    <3>1. CASE spec = "short"
      <4>1. 8 * 3 = 24 /\ 24 < 31
        OBVIOUS
      <4>2. FitsUnsigned(index, 24)
        BY <1>1, <2>1, <3>1, <4>1 DEF HasDeviceNumber
      <4>3. index < 2 ^ 24
        BY <4>1, <4>2 DEF FitsUnsigned
      <4> QED
        BY <2>1, <3>1, <4>3, TwentyFourBits
    <3>2. CASE spec = "long"
      BY <2>1, <3>2
    <3> QED
      BY <3>1, <3>2
  <2>3. number = LittleEndian(index, n)
    BY <1>1 DEF DeviceNumber
  <2> HIDE DEF n, number
  <2>4. /\ LittleEndian(index, n) \in Seq(0 .. 255) /\ Len(LittleEndian(index, n)) = n
        /\ FromLittleEndian(LittleEndian(index, n)) = index
    BY <2>1, <2>2, OctetsSurvive
  <2>5. UnitOf(c) = 0 .. 255
    BY <1>1 DEF UnitOf
  <2>6. c # "ascii"
    BY <1>1
  <2>7. number \in Seq(UnitOf(c)) /\ Len(number) = n /\ FromLittleEndian(number) = index
    BY <2>3, <2>4, <2>5
  <2> QED
    BY <2>6, <2>7 DEF n, number
<1>2. CASE c = "ascii"
  <2>1. n \in {6, 8}
    BY <1>2 DEF DeviceNumberLen
  <2>2. index \div Power(base, n - 1) < base
    BY <1>2 DEF HasDeviceNumber, Power
  <2>3. number = Digits(index, n, base)
    BY <1>2 DEF DeviceNumber
  <2> HIDE DEF n, number
  <2>4. /\ number \in Seq(RadixDigits(base) \cap HexDigit) /\ Len(number) = n
        /\ FromDigits(number, base) = index
    BY <2>1, <2>2, <2>3, DigitsSurvive
  <2>5. RadixDigits(base) \cap HexDigit \subseteq UnitOf(c)
    BY <1>2 DEF UnitOf
  <2>6. number \in Seq(UnitOf(c))
    BY <2>4, <2>5, SeqMonotonic
  <2>7. Range(number) \subseteq RadixDigits(base)
    BY <2>4, RangeOfSeq
  <2>8. c # "binary"
    BY <1>2
  <2> QED
    BY <2>4, <2>6, <2>7, <2>8 DEF n, number
<1> QED
  BY <1>1, <1>2 DEF Codecs

\* A target that knows the whole table reads a code as the family it was written for.
LEMMA OneClaim ==
    ASSUME NEW s, s.codec \in Codecs, s.spec \in {"short", "long"},
           DOMAIN s.target.profile.devices = DEVICE_TABLE,
           NEW dt \in DEVICE_TABLE, HasDeviceCode(s.codec, dt, s.spec)
    PROVE  Claims(s, DeviceCode(s.codec, dt, s.spec)) = {dt}
<1> DEFINE c == s.codec
           spec == s.spec
           Same(a) == IF c = "binary" THEN DeviceCode(c, a, spec) = DeviceCode(c, dt, spec)
                      ELSE Mnemonic(DeviceCode(c, a, spec)) = Mnemonic(DeviceCode(c, dt, spec))
<1>1. Claims(s, DeviceCode(c, dt, spec)) =
         {a \in DEVICE_TABLE : HasDeviceCode(c, a, spec) /\ Same(a)}
  BY DEF Claims
<1>2. Same(dt)
  OBVIOUS
<1>3. \A a \in DEVICE_TABLE : HasDeviceCode(c, a, spec) /\ Same(a) => a = dt
  BY CodesDiffer
<1> HIDE DEF Same, c, spec
<1>4. HasDeviceCode(c, dt, spec)
  BY DEF c, spec
<1>5. {a \in DEVICE_TABLE : HasDeviceCode(c, a, spec) /\ Same(a)} = {dt}
  BY <1>2, <1>3, <1>4
<1> QED
  BY <1>1, <1>5 DEF c, spec

\* Both parts of a specification are where they were put.
LEMMA SpecParts ==
    ASSUME NEW S, NEW m \in Seq(S), NEW off \in Nat, NEW a \in Seq(S), NEW b \in Seq(S),
           At(m, off, a \o b)
    PROVE  /\ HasSpan(m, off, Len(a)) /\ Span(m, off, Len(a)) = a
           /\ HasSpan(m, off, Len(a) + Len(b)) /\ Span(m, off + Len(a), Len(b)) = b
<1>1. a \o b \in Seq(S) /\ Len(a \o b) = Len(a) + Len(b) /\ Len(a) \in Nat /\ Len(b) \in Nat
  BY LenProperties, ConcatProperties
<1>2. At(a \o b, 0, a) /\ At(a \o b, Len(a), b)
  BY AtTheEnds
<1>3. At(m, off + 0, a) /\ At(m, off + Len(a), b)
  BY <1>1, <1>2, AtWithin
<1>4. off + 0 = off /\ off + Len(a) \in Nat
  BY <1>1
<1>5. HasSpan(m, off, Len(a)) /\ Span(m, off, Len(a)) = a /\ Span(m, off + Len(a), Len(b)) = b
  BY <1>3, <1>4, SpanAt
<1>6. HasSpan(m, off, Len(a \o b))
  BY <1>1, SpanAt
<1> QED
  BY <1>1, <1>5, <1>6

\* What a specification that is not refused has.
LEMMA SpecHolds ==
    ASSUME NEW c, NEW address, NEW spec, NEW notation,
           DeviceSpecFault(c, address, spec, notation) = "none"
    PROVE  /\ HasDeviceNumber(c, address.index, spec, EmitBase(address.type, notation))
           /\ HasDeviceCode(c, address.type, spec)
BY DEF DeviceSpecFault

\* An index that fits is less than the power of the octets that hold it.
LEMMA IndexBelow ==
    ASSUME NEW index, IndexFits(index)
    PROVE  index \in Nat /\ index < Power(256, 4)
<1>1. /\ Power(256, 0) = 1
      /\ Power(256, 1) = Power(256, 0) * 256 /\ Power(256, 2) = Power(256, 1) * 256
      /\ Power(256, 3) = Power(256, 2) * 256 /\ Power(256, 4) = Power(256, 3) * 256
  BY DEF Power
<1>2. index \in Nat /\ index \div 65536 < 65536
  BY DEF IndexFits, Values
<1>3. index = 65536 * (index \div 65536) + (index % 65536) /\ index % 65536 \in Nat /\ index % 65536 < 65536
  BY <1>2
<1> QED
  BY <1>1, <1>2, <1>3

\* The device specification (wire/devspec.py encode, testing/dispatch.py read_device): where both
\* sides count in the same base, the CPU reads the point the client named, whatever the coding,
\* the format, the family and the index, wherever it stands in a payload, and nothing beyond it.
THEOREM DeviceArrives ==
    ASSUME NEW s, s.codec \in Codecs, s.spec \in {"short", "long"},
           DOMAIN s.target.profile.devices = DEVICE_TABLE,
           NEW dt \in DEVICE_TABLE, NEW index, IndexFits(index), NEW notation,
           DeviceSpecFault(s.codec, Address(dt, index), s.spec, notation) = "none",
           EmitBase(dt, notation) = NumberBase(s, dt),
           NEW k, k.fault = "none", k.at \in Nat, k.payload \in Seq(UnitOf(s.codec)),
           At(k.payload, k.at, EncodeDeviceSpec(s.codec, Address(dt, index), s.spec, notation))
    PROVE  TakeDevice(s, k) = Found(k, DevspecLen(s.codec, s.spec), Address(dt, index))
<1> DEFINE c == s.codec
           spec == s.spec
           base == NumberBase(s, dt)
           code == DeviceCode(c, dt, spec)
           number == DeviceNumber(c, index, spec, base)
           m == k.payload
           U == UnitOf(c)
<1>1. Address(dt, index).type = dt /\ Address(dt, index).index = index
  BY DEF Address
<1>2. HasDeviceNumber(c, index, spec, base) /\ HasDeviceCode(c, dt, spec)
  BY <1>1, SpecHolds
<1>3. base \in RadixBases
  BY TableBases DEF NumberBase, RadixBases
<1>4. index \in Nat /\ index < Power(256, 4)
  BY IndexBelow
<1>5. EncodeDeviceSpec(c, Address(dt, index), spec, notation)
         = IF c = "binary" THEN number \o code ELSE code \o number
  BY <1>1 DEF EncodeDeviceSpec
<1>6. DevspecLen(c, spec) = DeviceCodeLen(c, spec) + DeviceNumberLen(c, spec)
  BY DEF DevspecLen
<1>7. Claims(s, code) = {dt}
  BY <1>2, OneClaim
<1>8. (CHOOSE a \in {dt} : TRUE) = dt /\ {dt} # {}
  OBVIOUS
<1>9. code \in Seq(U) /\ Len(code) = DeviceCodeLen(c, spec)
  BY <1>2, CodeUnits
<1>10. /\ number \in Seq(U) /\ Len(number) = DeviceNumberLen(c, spec)
       /\ c = "binary" => FromLittleEndian(number) = index
       /\ c = "ascii" => Range(number) \subseteq RadixDigits(base) /\ FromDigits(number, base) = index
  <2> HIDE DEF base
  <2> QED
    BY <1>2, <1>3, <1>4, DeviceNumbersSurvive
<1>11. TakeIndex(s, k, dt, number, base) = Found(k, DevspecLen(c, spec), Address(dt, index))
  <2>1. CASE c = "binary"
    <3>1. c # "ascii"
      BY <2>1
    <3> HIDE DEF number, base
    <3> QED
      BY <2>1, <3>1, <1>10 DEF TakeIndex, DecodedDevice, Address
  <2>2. CASE c = "ascii"
    <3>1. c # "binary"
      BY <2>2
    <3> HIDE DEF number, base
    <3> QED
      BY <2>2, <3>1, <1>10 DEF TakeIndex, DecodedDevice, Address
  <2> QED
    BY <2>1, <2>2 DEF Codecs
<1>12. TakeDevice(s, k) = TakeSplit(s, k, DevspecLen(c, spec),
                                    IF c = "binary" THEN DeviceNumberLen(c, spec) ELSE DeviceCodeLen(c, spec))
  BY DEF TakeDevice
<1>13. Len(code) \in Nat /\ Len(number) \in Nat /\ k.at \in Nat
  BY <1>9, <1>10, LenProperties
<1>14. /\ c = "binary" => At(m, k.at, number \o code)
       /\ c = "ascii"  => At(m, k.at, code \o number)
  BY <1>5
<1>15. m \in Seq(U)
  OBVIOUS
<1> HIDE DEF code, number, base, m, U
<1>16. CASE c = "binary"
  <2> DEFINE n == Len(number)
             units == DevspecLen(c, spec)
  <2>1. units = n + Len(code) /\ units - n = Len(code) /\ n = DeviceNumberLen(c, spec)
    BY <1>6, <1>9, <1>10, <1>13
  <2>2. /\ HasSpan(m, k.at, n) /\ Span(m, k.at, n) = number
        /\ HasSpan(m, k.at, units) /\ Span(m, k.at + n, units - n) = code
    <3>1. /\ HasSpan(m, k.at, Len(number)) /\ Span(m, k.at, Len(number)) = number
          /\ HasSpan(m, k.at, Len(number) + Len(code)) /\ Span(m, k.at + Len(number), Len(code)) = code
      <4>1. At(m, k.at, number \o code) /\ k.at \in Nat /\ number \in Seq(U) /\ code \in Seq(U)
        BY <1>9, <1>10, <1>13, <1>14, <1>16
      <4> QED
        BY <1>15, <4>1, SpecParts
    <3> QED
      BY <2>1, <3>1
  <2>3. c # "ascii"
    BY <1>16
  <2> HIDE DEF n, units
  <2>4. TakeSplit(s, k, units, n) = TakeIndex(s, k, dt, number, base)
    BY <1>7, <1>8, <1>16, <2>2, <2>3 DEF TakeSplit, m, base
  <2> QED
    BY <1>11, <1>12, <1>16, <2>1, <2>4 DEF units
<1>17. CASE c = "ascii"
  <2> DEFINE n == Len(code)
             units == DevspecLen(c, spec)
  <2>1. units = n + Len(number) /\ units - n = Len(number) /\ n = DeviceCodeLen(c, spec)
    BY <1>6, <1>9, <1>10, <1>13
  <2>2. /\ HasSpan(m, k.at, n) /\ Span(m, k.at, n) = code
        /\ HasSpan(m, k.at, units) /\ Span(m, k.at + n, units - n) = number
    <3>1. /\ HasSpan(m, k.at, Len(code)) /\ Span(m, k.at, Len(code)) = code
          /\ HasSpan(m, k.at, Len(code) + Len(number)) /\ Span(m, k.at + Len(code), Len(number)) = number
      <4>1. At(m, k.at, code \o number) /\ k.at \in Nat /\ code \in Seq(U) /\ number \in Seq(U)
        BY <1>9, <1>10, <1>13, <1>14, <1>17
      <4> QED
        BY <1>15, <4>1, SpecParts
    <3> QED
      BY <2>1, <3>1
  <2>3. c # "binary"
    BY <1>17
  <2> HIDE DEF n, units
  <2>4. TakeSplit(s, k, units, n) = TakeIndex(s, k, dt, number, base)
    BY <1>7, <1>8, <1>17, <2>2, <2>3 DEF TakeSplit, m, base
  <2> QED
    BY <1>11, <1>12, <1>17, <2>1, <2>3, <2>4 DEF units
<1> QED
  BY <1>16, <1>17 DEF Codecs

\* No family of the table counts in octal.
LEMMA NoOctalFamily == ASSUME NEW dt \in DEVICE_TABLE PROVE dt.radix # OCTAL
BY TableRows DEF OCTAL, DECIMAL, HEXADECIMAL

\* The two CPUs of the simulator and the profiles made for them agree on it, in every encoding
\* that the profile allows (Profile.notation_for, dispatch.py device_number_base): octal for the
\* X and Y of an FX5U whose ASCII is octal, and the base of the table for all the rest.
THEOREM ShippedBasesAgree ==
    ASSUME NEW s, s.target \in {R04CPU, FX5U_32MT_DS}, NEW ctx, IsContext(ctx),
           ctx.profile = s.target.profile, ctx.encoding = s.encoding
    PROVE  SameBases(s, ctx)
<1> DEFINE p == ctx.profile
           enc == ctx.encoding
<1> SUFFICES ASSUME NEW dt \in DEVICE_TABLE
             PROVE  EmitBase(dt, NotationFor(p, dt, enc)) = NumberBase(s, dt)
  BY DEF SameBases
<1>1. enc \in p.allowed_encodings /\ s.encoding = enc
  BY DEF IsContext
<1>2. dt.radix # OCTAL
  BY NoOctalFamily
<1>3. CASE s.target = R04CPU
  <2>1. p.allowed_encodings = {"binary", "ascii-xy-hex"} /\ ~s.target.xy_ascii_octal
    BY <1>3 DEF R04CPU, IQ_R, IQRProfile, SlmpRefProfile
  <2>2. enc # "ascii-xy-oct"
    BY <1>1, <2>1
  <2>3. NotationFor(p, dt, enc) = "value"
    BY <1>1, <2>2 DEF NotationFor
  <2> QED
    BY <2>1, <2>3 DEF EmitBase, NumberBase
<1>4. CASE s.target = FX5U_32MT_DS
  <2>1. p.radix_overrides = Each({Device_X, Device_Y}, OCTAL) /\ s.target.xy_ascii_octal
    BY <1>4 DEF FX5U_32MT_DS, FX5U, IQFProfile
  <2>2. RadixFor(p, dt) = IF dt \in OctalNotation THEN OCTAL ELSE dt.radix
    BY <2>1 DEF RadixFor, RadixOn, Each, OctalNotation
  <2>3. NotationFor(p, dt, enc) =
           IF enc = "ascii-xy-oct" /\ dt \in OctalNotation THEN "octal-digits" ELSE "value"
    BY <1>1, <1>2, <2>2 DEF NotationFor
  <2> QED
    BY <1>1, <2>1, <2>3 DEF EmitBase, NumberBase
<1> QED
  BY <1>3, <1>4

-----------------------------------------------------------------------------
(***************************************************************************)
(* Batch access, from the command to the memory and back.                  *)
(***************************************************************************)

\* A request is served in the coding, the format and the bases it was written in, by a CPU
\* whose profile has no hole in it.
Served(s, ctx) ==
    /\ ctx.codec \in Codecs /\ ctx.spec \in {"short", "long"}
    /\ s.codec = ctx.codec /\ s.spec = ctx.spec
    /\ IsProfile(s.target.profile) /\ SameBases(s, ctx)

\* What was named is not refused, and is written in the units of the coding.
LEMMA NamedSpec ==
    ASSUME NEW ctx, ctx.codec \in Codecs, ctx.spec \in {"short", "long"}, NEW s, SameBases(s, ctx),
           NEW cmd, NEW address, Denotes(ctx, cmd, address)
    PROVE  LET notation == NotationFor(ctx.profile, address.type, ctx.encoding)
           IN  /\ SpecOf(ctx, cmd.address) = EncodeDeviceSpec(ctx.codec, address, ctx.spec, notation)
               /\ DeviceSpecFault(ctx.codec, address, ctx.spec, notation) = "none"
               /\ EmitBase(address.type, notation) = NumberBase(s, address.type)
               /\ SpecOf(ctx, cmd.address) \in Seq(UnitOf(ctx.codec))
               /\ Len(SpecOf(ctx, cmd.address)) = DevspecLen(ctx.codec, ctx.spec)
<1> DEFINE notation == NotationFor(ctx.profile, address.type, ctx.encoding)
           c == ctx.codec
           base == NumberBase(s, address.type)
           code == DeviceCode(c, address.type, ctx.spec)
           number == DeviceNumber(c, address.index, ctx.spec, base)
           U == UnitOf(c)
<1>1. /\ address.type \in DEVICE_TABLE /\ address.index \in Nat /\ address.index < Power(256, 4)
      /\ Resolve(ctx, cmd.address) = address /\ SpecFault(ctx, cmd.address) = "none"
  BY IndexBelow DEF Denotes
<1>2. SpecOf(ctx, cmd.address) = EncodeDeviceSpec(c, address, ctx.spec, notation)
  BY <1>1 DEF SpecOf, SpecOfAddress
<1>3. DeviceSpecFault(c, address, ctx.spec, notation) = "none"
  <2>1. UsageError(DeviceSpecFault(c, address, ctx.spec, notation)) = "none"
    BY <1>1 DEF SpecFault, AddressSpecFault
  <2> QED
    BY <2>1 DEF UsageError, DeviceSpecFault
<1>4. EmitBase(address.type, notation) = base
  BY <1>1 DEF SameBases
<1>5. HasDeviceNumber(c, address.index, ctx.spec, base) /\ HasDeviceCode(c, address.type, ctx.spec)
  BY <1>3, <1>4, SpecHolds
<1>6. base \in RadixBases
  BY <1>1, TableBases DEF NumberBase, RadixBases
<1>7. code \in Seq(U) /\ Len(code) = DeviceCodeLen(c, ctx.spec)
  BY <1>1, <1>5, CodeUnits
<1>8. number \in Seq(U) /\ Len(number) = DeviceNumberLen(c, ctx.spec)
  <2> HIDE DEF base
  <2> QED
    BY <1>1, <1>5, <1>6, DeviceNumbersSurvive
<1>9. EncodeDeviceSpec(c, address, ctx.spec, notation)
         = IF c = "binary" THEN number \o code ELSE code \o number
  BY <1>4 DEF EncodeDeviceSpec
<1>10. DevspecLen(c, ctx.spec) = DeviceCodeLen(c, ctx.spec) + DeviceNumberLen(c, ctx.spec)
  BY DEF DevspecLen
<1> HIDE DEF code, number, base, U, notation
<1>11. /\ EncodeDeviceSpec(c, address, ctx.spec, notation) \in Seq(U)
       /\ Len(EncodeDeviceSpec(c, address, ctx.spec, notation)) = DevspecLen(c, ctx.spec)
  <2>1. /\ number \o code \in Seq(U) /\ Len(number \o code) = Len(number) + Len(code)
        /\ code \o number \in Seq(U) /\ Len(code \o number) = Len(code) + Len(number)
        /\ Len(code) \in Nat /\ Len(number) \in Nat
    BY <1>7, <1>8, LenProperties, ConcatProperties
  <2> QED
    BY <1>7, <1>8, <1>9, <1>10, <2>1
<1> QED
  BY <1>2, <1>3, <1>4, <1>11 DEF notation, base, U

\* The units of a number are units of the coding.
LEMMA UnitsOfNumbers ==
    ASSUME NEW c \in Codecs
    PROVE  Unit(c) \subseteq UnitOf(c)
BY DEF Unit, UnitOf

\* The second value that is found comes behind the first.
LEMMA SecondOfTwo == ASSUME NEW a, NEW b PROVE Append(<<a>>, b) = <<a, b>>
<1> DEFINE S == {a, b}
<1>1. <<a>> \in Seq(S) /\ <<a, b>> \in Seq(S) /\ Len(<<a>>) = 1 /\ Len(<<a, b>>) = 2
  OBVIOUS
<1>2. b \in S
  OBVIOUS
<1> HIDE DEF S
<1>3. /\ Append(<<a>>, b) \in Seq(S) /\ Len(Append(<<a>>, b)) = 2
      /\ Append(<<a>>, b)[1] = a /\ Append(<<a>>, b)[2] = b
  BY <1>1, <1>2, AppendProperties
<1>4. \A i \in 1 .. 2 : Append(<<a>>, b)[i] = <<a, b>>[i]
  BY <1>3
<1> QED
  BY <1>1, <1>3, <1>4, SeqEqual

\* A cursor that has read a point and a number and stands at what comes behind them.
StandsBehind(k, m, address, n, rest) ==
    /\ Len(m) = k.at + Len(rest) /\ k.at \in Nat /\ At(m, k.at, rest)
    /\ k.payload = m /\ k.fault = "none" /\ k.out = <<address, n>>

\* The head of a batch command (commands/batch.py): the CPU reads the point and the count that
\* the client wrote, and stands at what comes behind them.
LEMMA BatchHeadArrives ==
    ASSUME NEW s, NEW ctx, Served(s, ctx), NEW cmd, NEW address, Denotes(ctx, cmd, address),
           CountFits(BatchPoints(cmd)), NEW rest \in Seq(UnitOf(ctx.codec))
    PROVE  /\ BatchHead(cmd, ctx) \o rest \in Seq(UnitOf(ctx.codec))
           /\ StandsBehind(TakeNumber(s, TakeDevice(s, Start(BatchHead(cmd, ctx) \o rest)), 16),
                           BatchHead(cmd, ctx) \o rest, address, BatchPoints(cmd), rest)
<1> DEFINE c == ctx.codec
           U == UnitOf(c)
           notation == NotationFor(ctx.profile, address.type, ctx.encoding)
           spec == SpecOf(ctx, cmd.address)
           n == BatchPoints(cmd)
           number == Number(c, n, 16)
           head == spec \o number
           m == head \o rest
           k0 == Start(m)
           k1 == Found(k0, DevspecLen(c, ctx.spec), address)
           k2 == Found(k1, NumberLen(c, 16), n)
<1>1. /\ c \in Codecs /\ ctx.spec \in {"short", "long"} /\ s.codec = c /\ s.spec = ctx.spec
      /\ DOMAIN s.target.profile.devices = DEVICE_TABLE /\ SameBases(s, ctx)
  BY DEF Served, IsProfile
<1>2. /\ address.type \in DEVICE_TABLE /\ IndexFits(address.index)
      /\ address = Address(address.type, address.index)
  BY DEF Denotes
<1>3. /\ spec = EncodeDeviceSpec(c, address, ctx.spec, notation)
      /\ DeviceSpecFault(c, address, ctx.spec, notation) = "none"
      /\ EmitBase(address.type, notation) = NumberBase(s, address.type)
      /\ spec \in Seq(U) /\ Len(spec) = DevspecLen(c, ctx.spec)
  BY <1>1, NamedSpec
<1>4. n \in Nat /\ n < Values(16)
  BY DEF CountFits
<1>5. number \in Seq(U) /\ Len(number) = NumberLen(c, 16) /\ Unit(c) \subseteq U
  <2> HIDE DEF n
  <2>1. n \in Int /\ number \in Seq(Unit(c)) /\ Len(number) = NumberLen(c, 16)
    BY <1>1, <1>4, NumberUnits
  <2> QED
    BY <1>1, <2>1, UnitsOfNumbers, SeqMonotonic
<1>6. BatchHead(cmd, ctx) = head /\ m = BatchHead(cmd, ctx) \o rest
  BY DEF BatchHead
<1>7. rest \in Seq(U)
  OBVIOUS
<1> HIDE DEF spec, number, n, U, notation
<1>8. /\ Len(spec) \in Nat /\ Len(number) \in Nat /\ Len(rest) \in Nat
      /\ head \in Seq(U) /\ Len(head) = Len(spec) + Len(number)
  BY <1>3, <1>5, <1>7, LenProperties, ConcatProperties
<1>9. At(head, 0, spec) /\ At(head, Len(spec), number)
  BY <1>3, <1>5, AtTheEnds
<1> HIDE DEF head
<1>10. m \in Seq(U) /\ Len(m) = Len(head) + Len(rest)
  BY <1>7, <1>8, LenProperties, ConcatProperties
<1>11. At(m, 0, head) /\ At(m, Len(head), rest)
  BY <1>7, <1>8, AtTheEnds
<1> HIDE DEF m
<1>12. At(m, 0, spec) /\ At(m, Len(spec), number)
  <2>1. 0 \in Nat /\ Len(spec) \in Nat /\ 0 + 0 = 0 /\ 0 + Len(spec) = Len(spec)
    BY <1>8
  <2>2. At(m, 0 + 0, spec)
    BY <1>3, <1>8, <1>9, <1>10, <1>11, <2>1, AtWithin
  <2>3. At(m, 0 + Len(spec), number)
    BY <1>5, <1>8, <1>9, <1>10, <1>11, <2>1, AtWithin
  <2> QED
    BY <2>1, <2>2, <2>3
<1>13. TakeDevice(s, k0) = k1
  <2>1. k0.fault = "none" /\ k0.at = 0 /\ k0.payload = m
    BY DEF Start
  <2> HIDE DEF k0
  <2> DEFINE dt == address.type
             index == address.index
  <2>2. /\ k0.at \in Nat /\ k0.payload \in Seq(UnitOf(s.codec))
        /\ At(k0.payload, k0.at, EncodeDeviceSpec(s.codec, Address(dt, index), s.spec, notation))
    BY <1>1, <1>2, <1>3, <1>10, <1>12, <2>1 DEF U
  <2>3. /\ dt \in DEVICE_TABLE /\ IndexFits(index)
        /\ DeviceSpecFault(s.codec, Address(dt, index), s.spec, notation) = "none"
        /\ EmitBase(dt, notation) = NumberBase(s, dt)
        /\ s.codec \in Codecs /\ s.spec \in {"short", "long"}
    BY <1>1, <1>2, <1>3
  <2> HIDE DEF dt, index
  <2>4. TakeDevice(s, k0) = Found(k0, DevspecLen(s.codec, s.spec), Address(dt, index))
    BY <1>1, <2>1, <2>2, <2>3, DeviceArrives
  <2> QED
    BY <1>1, <1>2, <2>4 DEF dt, index
<1>14. k1.fault = "none" /\ k1.payload = m /\ k1.at = Len(spec) /\ k1.out = <<address>>
  <2>1. /\ k0.fault = "none" /\ k0.at = 0 /\ k0.payload = m /\ k0.out = <<>>
        /\ k0 = [payload |-> m, at |-> 0, out |-> <<>>, fault |-> "none"]
    BY DEF Start
  <2>2. k1.fault = "none" /\ k1.payload = m /\ k1.at = 0 + DevspecLen(c, ctx.spec) /\ k1.out = Append(<<>>, address)
    BY <2>1 DEF Found
  <2> QED
    BY <1>3, <1>8, <2>2
<1>15. TakeNumber(s, k1, 16) = k2
  <2>1. ReadNumber(c, m, Len(spec), 16) = n
    BY <1>1, <1>4, <1>5, <1>8, <1>10, <1>12, NumberAt DEF number
  <2>2. HasSpan(m, Len(spec), NumberLen(c, 16))
    BY <1>5, <1>8, <1>10, <1>12, SpanAt
  <2>3. n # NoNumber
    BY <1>4 DEF NoNumber
  <2> HIDE DEF k1
  <2> QED
    BY <1>1, <1>14, <2>1, <2>2, <2>3 DEF TakeNumber, TakeField
<1>16. k2.fault = "none" /\ k2.payload = m /\ k2.at = Len(head) /\ k2.out = <<address, n>>
  <2>1. k2 = [k1 EXCEPT !.at = @ + NumberLen(c, 16), !.out = Append(@, n)]
    BY DEF Found
  <2>2. DOMAIN k1 = {"payload", "at", "out", "fault"}
    BY DEF Found, Start
  <2> HIDE DEF k1, k2
  <2>3. /\ k2.fault = k1.fault /\ k2.payload = k1.payload
        /\ k2.at = k1.at + NumberLen(c, 16) /\ k2.out = Append(k1.out, n)
    BY <2>1, <2>2
  <2>4. k1.at = Len(spec) /\ k1.out = <<address>> /\ k1.fault = "none" /\ k1.payload = m
    BY <1>14
  <2>5. k2.at = Len(head)
    BY <1>5, <1>8, <2>3, <2>4
  <2>6. Append(<<address>>, n) = <<address, n>>
    BY SecondOfTwo
  <2> QED
    BY <2>3, <2>4, <2>5, <2>6
<1> HIDE DEF k0, k1, k2
<1>17. TakeNumber(s, TakeDevice(s, Start(m)), 16) = k2
  BY <1>13, <1>15 DEF k0
<1>18. StandsBehind(k2, m, address, n, rest)
  BY <1>8, <1>10, <1>11, <1>16 DEF StandsBehind
<1> QED
  BY <1>6, <1>10, <1>17, <1>18 DEF U, n

\* A sequence is where it begins.
LEMMA AtItself == ASSUME NEW S, NEW a \in Seq(S) PROVE At(a, 0, a)
<1>1. Len(a) \in Nat /\ 0 + Len(a) <= Len(a)
  BY LenProperties
<1>2. \A i \in 1 .. Len(a) : 0 + i = i
  OBVIOUS
<1> QED
  BY <1>1, <1>2 DEF At

\* A read has nothing behind its head.
LEMMA BatchReadHead ==
    ASSUME NEW s, NEW ctx, Served(s, ctx), NEW cmd, cmd.name \in {"ReadWords", "ReadBits"},
           NEW address, Denotes(ctx, cmd, address), CountFits(cmd.count)
    PROVE  LET k == Finish(TakeNumber(s, TakeDevice(s, Start(EncodeBatch(cmd, ctx))), 16))
           IN  k.fault = "none" /\ Field(k, 1) = address /\ Field(k, 2) = cmd.count
<1> DEFINE U == UnitOf(ctx.codec)
           rest == <<>>
           m == BatchHead(cmd, ctx) \o rest
           k == TakeNumber(s, TakeDevice(s, Start(m)), 16)
<1>1. BatchPoints(cmd) = cmd.count /\ CountFits(BatchPoints(cmd))
  BY DEF BatchPoints
<1>2. EncodeBatch(cmd, ctx) = m
  BY DEF EncodeBatch
<1>3. rest \in Seq(U) /\ Len(rest) = 0
  OBVIOUS
<1> HIDE DEF rest
<1>4. /\ Len(m) = k.at + Len(rest) /\ k.at \in Nat
      /\ k.payload = m /\ k.fault = "none" /\ k.out = <<address, BatchPoints(cmd)>>
  <2>1. StandsBehind(k, m, address, BatchPoints(cmd), rest)
    BY <1>1, <1>3, BatchHeadArrives
  <2> QED
    BY <2>1 DEF StandsBehind
<1> HIDE DEF m, k
<1>5. Finish(k) = k
  BY <1>3, <1>4 DEF Finish
<1>6. Field(k, 1) = address /\ Field(k, 2) = cmd.count
  BY <1>1, <1>4 DEF Field
<1> QED
  BY <1>2, <1>4, <1>5, <1>6 DEF k

\* What a handler comes to where two of its checks are in a row.
LEMMA UnlessTwice ==
    ASSUME NEW s, NEW a, NEW b, NEW o
    PROVE  Unless(s, a, Unless(s, b, o)) = Unless(s, a ?? b, o)
BY DEF Unless, ??

\* Reading words (commands/batch.py, dispatch.py handle_batch_read): the CPU checks the very point
\* and count that the caller named, and the caller gets what the CPU has there, in the order of
\* the devices, in every coding and format.
THEOREM WordsAreRead ==
    ASSUME NEW s, NEW ctx, Served(s, ctx), s.unit = "word", NEW cmd, cmd.name = "ReadWords",
           NEW address, Denotes(ctx, cmd, address), CountFits(cmd.count),
           IsWords(WordsAt(s, address, cmd.count))
    PROVE  LET there == WordsAt(s, address, cmd.count)
           IN  /\ HandleBatchRead(s, Start(EncodeBatch(cmd, ctx)))
                     = Unless(s, CheckBatch(s, cmd.count) ?? ReadFault(s, address, cmd.count),
                              Reply(s, Words(ctx.codec, there)))
               /\ DecodeBatch(cmd, Words(ctx.codec, there), ctx) = there
<1> DEFINE c == ctx.codec
           count == cmd.count
           k == Finish(TakeNumber(s, TakeDevice(s, Start(EncodeBatch(cmd, ctx))), 16))
           values == WordsAt(s, address, count)
           payload == Words(c, values)
           fault == CheckBatch(s, count) ?? ReadFault(s, address, count)
           answer == HandleBatchRead(s, Start(EncodeBatch(cmd, ctx)))
<1>1. k.fault = "none" /\ Field(k, 1) = address /\ Field(k, 2) = count
  BY BatchReadHead
<1>2. c \in Codecs /\ s.codec = c /\ s.unit # "bit"
  BY DEF Served
<1> HIDE DEF k
<1>3. answer = Unless(s, k.fault ?? CheckBatch(s, Field(k, 2)),
                      Unless(s, ReadFault(s, Field(k, 1), Field(k, 2)),
                             Reply(s, Words(s.codec, WordsAt(s, Field(k, 1), Field(k, 2))))))
  BY <1>2 DEF HandleBatchRead, k
<1>4. k.fault ?? CheckBatch(s, count) = CheckBatch(s, count)
  BY <1>1, NoFault
<1>5. answer = Unless(s, fault, Reply(s, payload))
  <2>1. answer = Unless(s, CheckBatch(s, count), Unless(s, ReadFault(s, address, count), Reply(s, payload)))
    BY <1>1, <1>2, <1>3, <1>4
  <2> HIDE DEF answer, payload
  <2> QED
    BY <2>1, UnlessTwice
<1>7. Len(values) = count /\ IsWords(values)
  <2>1. values = [i \in 1 .. count |-> values[i]]
    BY DEF WordsAt, MemoryWords
  <2>2. count \in Nat
    BY DEF CountFits
  <2> QED
    BY <2>1, <2>2
<1> HIDE DEF values
<1>8. payload \in Seq(Unit(c))
  BY <1>2, <1>7, WordsUnits
<1>9. At(payload, 0, payload)
  BY <1>8, AtItself
<1>10. ReadWords(c, payload, 0, count) = values
  <2>1. ReadWords(c, payload, 0, Len(values)) = values
    BY <1>2, <1>7, <1>8, <1>9, WordsArrive
  <2> QED
    BY <1>7, <2>1
<1>11. DecodeBatch(cmd, payload, ctx) = values
  BY <1>10 DEF DecodeBatch
<1> QED
  BY <1>5, <1>11 DEF answer, fault, payload, values

\* Reading bits: the same, for the points of a bit device.
THEOREM BitsAreRead ==
    ASSUME NEW s, NEW ctx, Served(s, ctx), s.unit = "bit", NEW cmd, cmd.name = "ReadBits",
           NEW address, Denotes(ctx, cmd, address), CountFits(cmd.count),
           IsBits(MemoryBits(s.memory, address.type, address.index, cmd.count))
    PROVE  LET there == MemoryBits(s.memory, address.type, address.index, cmd.count)
           IN  /\ HandleBatchRead(s, Start(EncodeBatch(cmd, ctx)))
                     = Unless(s, CheckBatch(s, cmd.count)
                                 ?? (RequireBitDevice(address) ?? BitSpanFault(s, address, cmd.count)),
                              Reply(s, Bits(ctx.codec, there)))
               /\ DecodeBatch(cmd, Bits(ctx.codec, there), ctx) = there
<1> DEFINE c == ctx.codec
           count == cmd.count
           k == Finish(TakeNumber(s, TakeDevice(s, Start(EncodeBatch(cmd, ctx))), 16))
           values == MemoryBits(s.memory, address.type, address.index, count)
           payload == Bits(c, values)
           fault == CheckBatch(s, count) ?? (RequireBitDevice(address) ?? BitSpanFault(s, address, count))
           answer == HandleBatchRead(s, Start(EncodeBatch(cmd, ctx)))
<1>1. k.fault = "none" /\ Field(k, 1) = address /\ Field(k, 2) = count
  BY BatchReadHead
<1>2. c \in Codecs /\ s.codec = c
  BY DEF Served
<1> HIDE DEF k
<1>3. answer = Unless(s, k.fault ?? CheckBatch(s, Field(k, 2)),
                      Unless(s, RequireBitDevice(Field(k, 1)) ?? BitSpanFault(s, Field(k, 1), Field(k, 2)),
                             Reply(s, Bits(s.codec, MemoryBits(s.memory, Field(k, 1).type,
                                                               Field(k, 1).index, Field(k, 2))))))
  BY DEF HandleBatchRead, k
<1>4. k.fault ?? CheckBatch(s, count) = CheckBatch(s, count)
  BY <1>1, NoFault
<1>5. answer = Unless(s, fault, Reply(s, payload))
  <2>1. answer = Unless(s, CheckBatch(s, count), Unless(s, RequireBitDevice(address) ?? BitSpanFault(s, address, count), Reply(s, payload)))
    BY <1>1, <1>2, <1>3, <1>4
  <2> HIDE DEF answer, payload
  <2> QED
    BY <2>1, UnlessTwice
<1>7. Len(values) = count /\ IsBits(values)
  <2>1. values = [i \in 1 .. count |-> values[i]]
    BY DEF MemoryBits
  <2>2. count \in Nat
    BY DEF CountFits
  <2> QED
    BY <2>1, <2>2
<1> HIDE DEF values
<1>8. payload \in Seq(Unit(c))
  BY <1>2, <1>7, BitsUnits
<1>9. At(payload, 0, payload)
  BY <1>8, AtItself
<1>10. ReadBits(c, payload, 0, count) = values
  <2>1. ReadBits(c, payload, 0, Len(values)) = values
    BY <1>2, <1>7, <1>8, <1>9, BitsArrive
  <2> QED
    BY <1>7, <2>1
<1>11. DecodeBatch(cmd, payload, ctx) = values
  BY <1>10 DEF DecodeBatch
<1> QED
  BY <1>5, <1>11 DEF answer, fault, payload, values

\* Once more a value is found, behind the two of the head.
LEMMA ThirdOfThree == ASSUME NEW a, NEW b, NEW d PROVE Append(<<a, b>>, d) = <<a, b, d>>
<1> DEFINE S == {a, b, d}
           t == <<a, b>>
           u == <<a, b, d>>
<1>1. /\ t \in Seq(S) /\ u \in Seq(S) /\ Len(t) = 2 /\ Len(u) = 3
      /\ t[1] = a /\ t[2] = b /\ u[1] = a /\ u[2] = b /\ u[3] = d /\ d \in S
  OBVIOUS
<1> HIDE DEF S, t, u
<1>2. /\ Append(t, d) \in Seq(S) /\ Len(Append(t, d)) = 3
      /\ Append(t, d)[1] = a /\ Append(t, d)[2] = b /\ Append(t, d)[3] = d
  <2>1. /\ Append(t, d) \in Seq(S) /\ Len(Append(t, d)) = Len(t) + 1
        /\ \A i \in 1 .. Len(t) : Append(t, d)[i] = t[i]
        /\ Append(t, d)[Len(t) + 1] = d
    <3>1. t \in Seq(S) /\ d \in S
      BY <1>1
    <3> QED
      BY <3>1, AppendProperties
  <2>2. Len(t) + 1 = 3 /\ 1 \in 1 .. Len(t) /\ 2 \in 1 .. Len(t)
    BY <1>1
  <2> QED
    BY <1>1, <2>1, <2>2
<1>3. \A i \in 1 .. 3 : Append(t, d)[i] = u[i]
  BY <1>1, <1>2
<1>4. Append(t, d) = u
  BY <1>1, <1>2, <1>3, SeqEqual
<1> QED
  BY <1>4 DEF t, u

\* A cursor with the three fields of a write.
HasRead(whole, address, n, value) ==
    /\ whole.fault = "none"
    /\ Field(whole, 1) = address /\ Field(whole, 2) = n /\ Field(whole, 3) = value

\* What is behind the head is found whole, and nothing is left over.
LEMMA TakesTheRest ==
    ASSUME NEW k, NEW m, NEW address, NEW n, NEW rest, Len(rest) \in Nat, k.at \in Nat,
           DOMAIN k = {"payload", "at", "out", "fault"},
           StandsBehind(k, m, address, n, rest), NEW value
    PROVE  HasRead(Finish(TakeField(k, Len(rest), TRUE, value)), address, n, value)
<1> DEFINE f == Found(k, Len(rest), value)
<1>1. /\ Len(m) = k.at + Len(rest)
      /\ k.payload = m /\ k.fault = "none" /\ k.out = <<address, n>>
  BY DEF StandsBehind
<1>2. HasSpan(k.payload, k.at, Len(rest))
  BY <1>1 DEF HasSpan
<1>3. TakeField(k, Len(rest), TRUE, value) = f
  BY <1>1, <1>2 DEF TakeField
<1>4. /\ f.fault = k.fault /\ f.payload = k.payload
      /\ f.at = k.at + Len(rest) /\ f.out = Append(k.out, value)
  BY DEF Found
<1> HIDE DEF f
<1>5. f.fault = "none" /\ f.at = Len(f.payload)
  BY <1>1, <1>4
<1>6. Finish(f) = f
  BY <1>5 DEF Finish
<1>7. f.out = <<address, n, value>>
  BY <1>1, <1>4, ThirdOfThree
<1>8. Field(f, 1) = address /\ Field(f, 2) = n /\ Field(f, 3) = value
  BY <1>7 DEF Field
<1> QED
  BY <1>3, <1>5, <1>6, <1>8 DEF HasRead

\* A cursor that has read something is still a cursor.
LEMMA StillACursor ==
    ASSUME NEW s, NEW payload, NEW bits
    PROVE  DOMAIN TakeNumber(s, TakeDevice(s, Start(payload)), bits) = {"payload", "at", "out", "fault"}
<1> DEFINE IsCursor(k) == DOMAIN k = {"payload", "at", "out", "fault"}
<1>1. IsCursor(Start(payload))
  BY DEF Start
<1>2. ASSUME NEW k, IsCursor(k), NEW name PROVE IsCursor(Fault(k, name))
  BY <1>2 DEF Fault
<1>3. ASSUME NEW k, IsCursor(k), NEW units, NEW value PROVE IsCursor(Found(k, units, value))
  BY <1>3 DEF Found
<1> HIDE DEF IsCursor
<1>4. ASSUME NEW k, IsCursor(k) PROVE IsCursor(TakeDevice(s, k))
  BY <1>2, <1>3, <1>4 DEF TakeDevice, TakeSplit, TakeIndex
<1>5. ASSUME NEW k, IsCursor(k) PROVE IsCursor(TakeNumber(s, k, bits))
  BY <1>2, <1>3, <1>5 DEF TakeNumber, TakeField
<1> QED
  BY <1>1, <1>4, <1>5 DEF IsCursor

\* A negative register travels as its two's complement.
TwosComplement(values) == [i \in DOMAIN values |-> values[i] % 65536]

\* The octets and the digits of a word do not see beyond it: v is the word r and q words more.
IsBeyond(v, q, r) == v \in Int /\ q \in Int /\ r \in Nat /\ r < 65536 /\ v = 65536 * q + r

\* Every number is a word and words more.
LEMMA WordOf == ASSUME NEW v \in Int PROVE IsBeyond(v, v \div 65536, v % 65536)
<1>1. v \div 65536 \in Int /\ v % 65536 \in Nat /\ v % 65536 < 65536 /\ v = 65536 * (v \div 65536) + (v % 65536)
  OBVIOUS
<1> QED
  BY <1>1 DEF IsBeyond

\* What lies beyond the word stays beyond its places ...
LEMMA QuotientsBeyond ==
    ASSUME NEW v, NEW q, NEW r, IsBeyond(v, q, r)
    PROVE  /\ v \div 16 = 4096 * q + (r \div 16) /\ v \div 256 = 256 * q + (r \div 256)
           /\ v \div 4096 = 16 * q + (r \div 4096)
           /\ r \div 16 \in Nat /\ r \div 256 \in Nat /\ r \div 4096 \in Nat
BY DEF IsBeyond

\* ... so that no place sees it.
LEMMA BeyondTheWord ==
    ASSUME NEW v, NEW q, NEW r, IsBeyond(v, q, r)
    PROVE  /\ (v \div 1) % 256 = (r \div 1) % 256 /\ (v \div 256) % 256 = (r \div 256) % 256
           /\ (v \div 1) % 16 = (r \div 1) % 16 /\ (v \div 16) % 16 = (r \div 16) % 16
           /\ (v \div 256) % 16 = (r \div 256) % 16 /\ (v \div 4096) % 16 = (r \div 4096) % 16
<1>1. /\ v \in Int /\ q \in Int /\ r \in Nat /\ v = 65536 * q + r
  BY DEF IsBeyond
<1>2. v \div 1 = v /\ r \div 1 = r
  BY <1>1
<1>3. ASSUME NEW x \in Nat, NEW p \in Int
      PROVE  /\ (256 * p + x) % 256 = x % 256 /\ (256 * p + x) % 16 = x % 16
             /\ (16 * p + x) % 16 = x % 16
  OBVIOUS
<1>4. v = 256 * (256 * q) + r /\ 4096 * q = 256 * (16 * q) /\ 256 * q \in Int /\ 16 * q \in Int
  BY <1>1
<1>5. /\ v % 256 = r % 256 /\ v % 16 = r % 16
  BY <1>1, <1>3, <1>4
<1> DEFINE a == r \div 16
           b == r \div 256
           d == r \div 4096
<1>6. /\ v \div 16 = 4096 * q + a /\ v \div 256 = 256 * q + b /\ v \div 4096 = 16 * q + d
      /\ a \in Nat /\ b \in Nat /\ d \in Nat
  BY QuotientsBeyond
<1> HIDE DEF a, b, d
<1>7. (v \div 16) % 16 = a % 16
  BY <1>1, <1>3, <1>4, <1>6
<1>8. (v \div 256) % 256 = b % 256 /\ (v \div 256) % 16 = b % 16
  BY <1>1, <1>3, <1>6
<1>9. (v \div 4096) % 16 = d % 16
  BY <1>1, <1>3, <1>6
<1> QED
  BY <1>2, <1>5, <1>7, <1>8, <1>9 DEF a, b, d

\* A number and its two's complement travel as the same units ...
LEMMA SameNumber ==
    ASSUME NEW c \in Codecs, NEW v \in Int
    PROVE  Number(c, v, 16) = Number(c, v % 65536, 16)
<1> DEFINE r == v % 65536
           q == v \div 65536
<1>0. 16 \div 8 = 2 /\ 16 \div 4 = 4
  OBVIOUS
<1>b. IsBeyond(v, q, r)
  BY WordOf
<1> HIDE DEF q, r
<1>c. /\ (v \div 1) % 256 = (r \div 1) % 256 /\ (v \div 256) % 256 = (r \div 256) % 256
      /\ (v \div 1) % 16 = (r \div 1) % 16 /\ (v \div 16) % 16 = (r \div 16) % 16
      /\ (v \div 256) % 16 = (r \div 256) % 16 /\ (v \div 4096) % 16 = (r \div 4096) % 16
  BY <1>b, BeyondTheWord
<1>1. LittleEndian(v, 2) = LittleEndian(r, 2)
  <2>1. ASSUME NEW i \in 1 .. 2 PROVE (v \div 256 ^ (i - 1)) % 256 = (r \div 256 ^ (i - 1)) % 256
    <3>1. CASE i = 1
      <4>1. 256 ^ (i - 1) = 1
        BY <3>1, Places
      <4> QED
        BY <1>c, <4>1
    <3>2. CASE i = 2
      <4>1. 256 ^ (i - 1) = 256
        BY <3>2, Places
      <4> QED
        BY <1>c, <4>1
    <3> QED
      BY <3>1, <3>2
  <2> QED
    BY <2>1 DEF LittleEndian
<1>2. Digits(v, 4, 16) = Digits(r, 4, 16)
  <2>1. ASSUME NEW i \in 1 .. 4 PROVE (v \div 16 ^ (4 - i)) % 16 = (r \div 16 ^ (4 - i)) % 16
    <3>1. CASE i = 4
      <4>1. 16 ^ (4 - i) = 1
        BY <3>1, Places
      <4> QED
        BY <1>c, <4>1
    <3>2. CASE i = 3
      <4>1. 16 ^ (4 - i) = 16
        BY <3>2, Places
      <4> QED
        BY <1>c, <4>1
    <3>3. CASE i = 2
      <4>1. 16 ^ (4 - i) = 256
        BY <3>3, Places
      <4> QED
        BY <1>c, <4>1
    <3>4. CASE i = 1
      <4>1. 16 ^ (4 - i) = 4096
        BY <3>4, Places
      <4> QED
        BY <1>c, <4>1
    <3> QED
      BY <3>1, <3>2, <3>3, <3>4
  <2> QED
    BY <2>1 DEF Digits
<1> QED
  BY <1>0, <1>1, <1>2 DEF Number, r

\* ... and so do rows of them.
LEMMA SameWords ==
    ASSUME NEW c \in Codecs, NEW values \in Seq(Int)
    PROVE  /\ Words(c, values) = Words(c, TwosComplement(values))
           /\ IsWords(TwosComplement(values)) /\ Len(TwosComplement(values)) = Len(values)
<1> DEFINE w == TwosComplement(values)
           n == NumberLen(c, 16)
           count == Len(values)
<1>2. DOMAIN values = 1 .. count /\ count \in Nat /\ w = [i \in 1 .. count |-> values[i] % 65536]
  BY DEF TwosComplement
<1>1. ASSUME NEW i \in 1 .. count
      PROVE  /\ values[i] \in Int /\ w[i] = values[i] % 65536
             /\ w[i] \in Nat /\ w[i] < 65536
  <2>1. values[i] \in Int
    BY ElementOfSeq
  <2> DEFINE v == values[i]
  <2> HIDE DEF v
  <2>2. v % 65536 \in Nat /\ v % 65536 < 65536
    BY <2>1, WordOf DEF IsBeyond, v
  <2> QED
    BY <1>2, <2>1, <2>2 DEF v
<1>3. w \in Seq(Nat) /\ Len(w) = count /\ IsWords(w)
  <2>1. \A i \in 1 .. count : w[i] \in Nat /\ w[i] < 65536
    <3> HIDE DEF w, count
    <3>1. ASSUME NEW i \in 1 .. count PROVE w[i] \in Nat /\ w[i] < 65536
      BY <1>1
    <3> QED
      BY <3>1
  <2>2. w \in Seq(Nat) /\ Len(w) = count
    <3> HIDE DEF count
    <3>1. w = [i \in 1 .. count |-> w[i]] /\ count \in Nat
      BY <1>2
    <3>2. \A i \in 1 .. count : w[i] \in Nat
      BY <2>1
    <3> HIDE DEF w
    <3>3. w \in [1 .. count -> Nat]
      BY <3>1, <3>2
    <3>4. w \in Seq(Nat)
      BY <3>1, <3>3, SeqDef
    <3>5. Len(w) \in Nat /\ 1 .. Len(w) = 1 .. count
      BY <3>3, <3>4, LenProperties
    <3>6. Len(w) = count
      BY <3>1, <3>5
    <3> QED
      BY <3>4, <3>6
  <2> HIDE DEF w
  <2> QED
    BY <1>2, <2>1, <2>2 DEF IsWords, IsWord, Values
<1>4. n \in {2, 4} /\ WordDataLen(c, count) = n * count
  <2> HIDE DEF w, n, count
  <2>1. n \in {2, 4} /\ WordDataLen(c, Len(w)) = n * Len(w)
    BY <1>3, WordsUnits DEF n
  <2> QED
    BY <1>3, <2>1
<1> HIDE DEF w, n, count
<1>5. ASSUME NEW u \in 1 .. n * count
      PROVE  Number(c, values[1 + ((u - 1) \div n)], 16) = Number(c, w[1 + ((u - 1) \div n)], 16)
  <2> DEFINE i == 1 + ((u - 1) \div n)
  <2>1. i \in 1 .. count
    BY <1>2, <1>4, UnitOfWord
  <2> HIDE DEF i
  <2>2. w[i] = values[i] % 65536 /\ values[i] \in Int
    BY <1>1, <1>2, <2>1
  <2>3. Number(c, values[i], 16) = Number(c, w[i], 16)
    BY <2>2, SameNumber
  <2> QED
    BY <2>3 DEF i
<1>6. Words(c, values) = [u \in 1 .. n * count |->
                            Number(c, values[1 + ((u - 1) \div n)], 16)[1 + ((u - 1) % n)]]
  BY <1>4 DEF Words, n, count
<1>7. Words(c, w) = [u \in 1 .. n * count |->
                            Number(c, w[1 + ((u - 1) \div n)], 16)[1 + ((u - 1) % n)]]
  BY <1>3, <1>4 DEF Words, n
<1>8. Words(c, values) = Words(c, w)
  BY <1>5, <1>6, <1>7
<1> QED
  BY <1>3, <1>8 DEF w, count

\* Writing words (commands/batch.py, dispatch.py handle_batch_write): the CPU looks at the count
\* and then writes what the caller gave it, value for value, at the very point the caller named;
\* of a negative value the two's complement.
THEOREM WordsAreWritten ==
    ASSUME NEW s, NEW ctx, Served(s, ctx), s.unit = "word", NEW cmd, cmd.name = "WriteWords",
           NEW address, Denotes(ctx, cmd, address), CountFits(Len(cmd.values)), cmd.values \in Seq(Int)
    PROVE  HandleBatchWrite(s, Start(EncodeBatch(cmd, ctx)))
              = Unless(s, CheckBatch(s, Len(cmd.values)),
                       Written(s, <<[device |-> address, values |-> TwosComplement(cmd.values)]>>))
<1> DEFINE c == ctx.codec
           values == TwosComplement(cmd.values)
           n == Len(values)
           rest == Words(c, values)
           m == BatchHead(cmd, ctx) \o rest
           k == TakeNumber(s, TakeDevice(s, Start(m)), 16)
           whole == Finish(TakeWords(s, k, n))
           written == Written(s, <<[device |-> address, values |-> values]>>)
<1>1. c \in Codecs /\ s.codec = c /\ s.unit # "bit" /\ IsWords(values)
      /\ Words(c, cmd.values) = rest /\ Len(cmd.values) = n /\ BatchPoints(cmd) = n
  <2>1. c \in Codecs /\ s.codec = c /\ s.unit # "bit" /\ BatchPoints(cmd) = Len(cmd.values)
    BY DEF Served, BatchPoints
  <2> QED
    BY <2>1, SameWords
<1>2. EncodeBatch(cmd, ctx) = m
  BY <1>1 DEF EncodeBatch
<1> HIDE DEF values
<1>3. /\ rest \in Seq(Unit(c)) /\ Len(rest) = WordDataLen(c, n) /\ Unit(c) \subseteq UnitOf(c)
      /\ Len(rest) \in Nat
  <2>1. rest \in Seq(Unit(c)) /\ Len(rest) = WordDataLen(c, n)
    BY <1>1, WordsUnits
  <2> HIDE DEF rest
  <2> QED
    BY <1>1, <2>1, UnitsOfNumbers, LenProperties
<1>4. rest \in Seq(UnitOf(c))
  BY <1>3, SeqMonotonic
<1>5. CountFits(BatchPoints(cmd))
  BY <1>1 DEF values
<1> HIDE DEF rest
<1>6. m \in Seq(UnitOf(c)) /\ StandsBehind(k, m, address, BatchPoints(cmd), rest)
  BY <1>4, <1>5, BatchHeadArrives
<1>7. /\ k.at \in Nat /\ At(m, k.at, rest) /\ k.payload = m /\ k.fault = "none"
      /\ Field(k, 1) = address /\ Field(k, 2) = n
  BY <1>1, <1>6 DEF StandsBehind, Field
<1>8. DOMAIN k = {"payload", "at", "out", "fault"}
  BY StillACursor
<1> HIDE DEF m, k, n
<1>9. Span(m, k.at, Len(rest)) = rest
  BY <1>4, <1>6, <1>7, SpanAt
<1>10. Legible(c, rest)
  BY <1>3 DEF Legible, Unit, Range
<1>11. ReadWords(c, m, k.at, n) = values
  BY <1>1, <1>3, <1>6, <1>7, WordsArrive DEF rest, n
<1>12. TakeWords(s, k, n) = TakeField(k, Len(rest), TRUE, values)
  BY <1>1, <1>3, <1>7, <1>9, <1>10, <1>11 DEF TakeWords
<1>13. /\ whole.fault = "none" /\ Field(whole, 1) = address /\ Field(whole, 2) = BatchPoints(cmd)
       /\ Field(whole, 3) = values
  <2>1. HasRead(Finish(TakeField(k, Len(rest), TRUE, values)), address, BatchPoints(cmd), values)
    BY <1>3, <1>6, <1>7, <1>8, TakesTheRest
  <2> QED
    BY <1>12, <2>1 DEF HasRead
<1> HIDE DEF whole
<1>14. (k.fault ?? CheckBatch(s, n)) ?? "none" = CheckBatch(s, n)
  BY <1>7 DEF ??
<1>15. HandleBatchWrite(s, Start(m))
          = Unless(s, k.fault ?? CheckBatch(s, Field(k, 2)) ?? "none",
                   Unless(s, whole.fault,
                          Written(s, <<[device |-> Field(whole, 1), values |-> Field(whole, 3)]>>)))
  BY <1>1, <1>7 DEF HandleBatchWrite, k, whole
<1>16. Unless(s, whole.fault, written) = written
  BY <1>13 DEF Unless
<1> QED
  BY <1>1, <1>2, <1>7, <1>13, <1>14, <1>15, <1>16 DEF values

\* Writing bits: the count, the family and the span, and then the points, one by one.
THEOREM BitsAreWritten ==
    ASSUME NEW s, NEW ctx, Served(s, ctx), s.unit = "bit", NEW cmd, cmd.name = "WriteBits",
           NEW address, Denotes(ctx, cmd, address), CountFits(Len(cmd.values)), IsBits(cmd.values)
    PROVE  HandleBatchWrite(s, Start(EncodeBatch(cmd, ctx)))
              = Unless(s, CheckBatch(s, Len(cmd.values)) ?? RequireBitDevice(address),
                       Unless(s, BitSpanFault(s, address, Len(cmd.values)),
                              Reply([s EXCEPT !.memory = WriteCells(@, address.type, address.index,
                                                                    cmd.values)], <<>>)))
<1> DEFINE c == ctx.codec
           values == cmd.values
           n == Len(values)
           rest == Bits(c, values)
           m == BatchHead(cmd, ctx) \o rest
           k == TakeNumber(s, TakeDevice(s, Start(m)), 16)
           whole == Finish(TakeBits(s, k, n))
           Stored(a, i, vs) ==
              Unless(s, BitSpanFault(s, a, i),
                     Reply([s EXCEPT !.memory = WriteCells(@, a.type, a.index, vs)], <<>>))
<1>1. c \in Codecs /\ s.codec = c /\ s.unit # "word" /\ BatchPoints(cmd) = n /\ IsBits(values)
  BY DEF Served, BatchPoints
<1>2. EncodeBatch(cmd, ctx) = m
  BY DEF EncodeBatch
<1> HIDE DEF values
<1>3. /\ rest \in Seq(Unit(c)) /\ Len(rest) = BitDataLen(c, n) /\ Unit(c) \subseteq UnitOf(c)
      /\ Len(rest) \in Nat
  <2>1. rest \in Seq(Unit(c)) /\ Len(rest) = BitDataLen(c, n)
    BY <1>1, BitsUnits
  <2> HIDE DEF rest
  <2> QED
    BY <1>1, <2>1, UnitsOfNumbers, LenProperties
<1>4. rest \in Seq(UnitOf(c))
  BY <1>3, SeqMonotonic
<1>5. CountFits(BatchPoints(cmd))
  BY <1>1 DEF values
<1> HIDE DEF rest
<1>6. m \in Seq(UnitOf(c)) /\ StandsBehind(k, m, address, BatchPoints(cmd), rest)
  BY <1>4, <1>5, BatchHeadArrives
<1>7. /\ k.at \in Nat /\ At(m, k.at, rest) /\ k.payload = m /\ k.fault = "none"
      /\ Field(k, 1) = address /\ Field(k, 2) = n
  BY <1>1, <1>6 DEF StandsBehind, Field
<1>8. DOMAIN k = {"payload", "at", "out", "fault"}
  BY StillACursor
<1> HIDE DEF m, k, n
<1>9. ReadBits(c, m, k.at, n) = values
  BY <1>1, <1>3, <1>6, <1>7, BitsArrive DEF rest, n
<1>10. values # NoPoints
  <2>1. \A i \in DOMAIN values : values[i] \in {0, 1}
    BY <1>1 DEF IsBits
  <2>2. 1 \in DOMAIN NoPoints /\ NoPoints[1] \notin {0, 1}
    BY DEF NoPoints, NoNumber
  <2> QED
    BY <2>1, <2>2
<1>11. TakeBits(s, k, n) = TakeField(k, Len(rest), TRUE, values)
  BY <1>1, <1>3, <1>7, <1>9, <1>10 DEF TakeBits
<1>12. /\ whole.fault = "none" /\ Field(whole, 1) = address /\ Field(whole, 2) = BatchPoints(cmd)
       /\ Field(whole, 3) = values
  <2>1. HasRead(Finish(TakeField(k, Len(rest), TRUE, values)), address, BatchPoints(cmd), values)
    BY <1>3, <1>6, <1>7, <1>8, TakesTheRest
  <2> QED
    BY <1>11, <2>1 DEF HasRead
<1> HIDE DEF whole
<1>13. k.fault ?? CheckBatch(s, n) = CheckBatch(s, n)
  BY <1>7, NoFault
<1>14. HandleBatchWrite(s, Start(m))
          = Unless(s, k.fault ?? CheckBatch(s, Field(k, 2)) ?? RequireBitDevice(Field(k, 1)),
                   Unless(s, whole.fault, Stored(Field(whole, 1), Field(whole, 2), Field(whole, 3))))
  BY <1>1, <1>7 DEF HandleBatchWrite, k, whole
<1>15. Unless(s, whole.fault, Stored(address, n, values)) = Stored(address, n, values)
  BY <1>12 DEF Unless
<1> HIDE DEF Stored
<1>16. HandleBatchWrite(s, Start(m))
          = Unless(s, CheckBatch(s, n) ?? RequireBitDevice(address), Stored(address, n, values))
  BY <1>1, <1>7, <1>12, <1>13, <1>14, <1>15
<1> QED
  BY <1>2, <1>16 DEF n, values, Stored

-----------------------------------------------------------------------------
(***************************************************************************)
(* Calls over the wire.                                                    *)
(***************************************************************************)

\* A request on its way is the one that was built for the call, and its accumulator is new.
AskedWell ==
    phase = "asked" =>
        /\ Sendable(call.cmd, Ctx)
        /\ wire = RequestUnits(Client(call), call.cmd, call.serial)
        /\ acc = Accumulator(Client(call).frame, Ctx.codec, call.serial)

\* An answer on its way is whole, the accumulator holds what has come of it, and but
\* for the stale reply pathology it is the answer to this request.
AnsweredWell ==
    phase = "answered" =>
        /\ IsAnswer(Client(call), wire)
        /\ Arrived \in 0 .. Len(wire)
        /\ Holds(acc, Client(call).frame, Ctx.codec, wire, Arrived)
        /\ acc.expect = call.serial
        /\ ~ThePlant.stale => ParseFault(Client(call).frame, Ctx.codec, wire, call.serial) = "none"

\* What a CPU with the pathology keeps back is an answer to the one client it has.
LastWell ==
    last # <<>> =>
        ThePlant.stale /\ \A e \in DOMAIN ThePlant.entries : IsAnswer(ThePlant.entries[e], last)

\* Nothing has become of a call that is under way; and the frames of a CPU that answers
\* in order are refused for nothing, but that a datagram may be cut off by its buffer.
OutcomeWell ==
    /\ phase # "idle" => outcome.kind = "none" /\ calls # 0
    /\ outcome.kind = "protocol" /\ ~ThePlant.stale =>
           outcome.why = "short" /\ Client(call).transport = "udp"

\* The invariant of the wire.
WireInv == WireTypeOK /\ AskedWell /\ AnsweredWell /\ LastWell /\ OutcomeWell

\* A read of a block goes on at the entry it began at.
PlanWell ==
    Reading =>
        /\ plan \in [doing : {"read"}, entry : DOMAIN ThePlant.entries, binding : {plan.binding},
                     readers : {plan.readers}, next : {plan.next}, into : {plan.into},
                     before : {plan.before}]
        /\ outcome.kind = "none"

\* A verb at hand is one that its entry knows and whose arguments were looked at.
TaskWell ==
    ~Is("none") =>
        /\ ~Reading
        /\ task \in [at : {"next", "waiting", "over"}, entry : DOMAIN ThePlant.entries,
                     verb : {task.verb}, got : {task.got}, before : {task.before}]
        /\ task.verb \in VerbsOf(ThePlant.entries[task.entry])
        /\ ~Is("over") => VerbFault(task.verb, ThePlant.entries[task.entry].ctx) = "none"
        /\ Is("next") => phase = "idle"

\* The inductive invariant of Calls, and so of Wire and BlockPlan within it.
CallsInv == WireInv /\ PlanWell /\ TaskWell

-----------------------------------------------------------------------------
\* Who is being served, and with which serial.
LEMMA TheClient ==
    ASSUME WireTypeOK, phase # "idle", calls # 0
    PROVE  IsEntry(Client(call)) /\ SerialOf(Client(call).frame, call.serial)
<1>1. /\ plant \in DOMAIN Plants /\ call.entry \in DOMAIN ThePlant.entries /\ calls \in Nat
      /\ call.serial = SerialFor(Client(call).frame, calls)
  BY DEF WireTypeOK
<1>2. IsEntry(ThePlant.entries[call.entry])
  BY <1>1, EntriesAreWell
<1>3. Client(call) = ThePlant.entries[call.entry]
  BY DEF Client
<1>4. Client(call).frame \in Frames
  BY <1>2, <1>3 DEF IsEntry
<1> QED
  BY <1>1, <1>2, <1>3, <1>4, NextSerial

\* Whose call it is does not change on its way.
LEMMA SamePlant ==
    ASSUME UNCHANGED plant
    PROVE  ThePlant' = ThePlant /\ (UNCHANGED call => Client(call)' = Client(call) /\ Ctx' = Ctx)
BY DEF ThePlant, Client, Ctx

\* What the invariant asks of an idle client.
LEMMA IdleIsWell ==
    ASSUME WireInv, UNCHANGED plant, phase' = "idle", calls' \in Nat, segment' \in Nat,
           IsState(state'), LastWell', OutcomeWell'
    PROVE  WireInv'
<1>1. plant' \in DOMAIN Plants
  BY DEF WireInv, WireTypeOK
<1>2. WireTypeOK'
  BY <1>1 DEF WireTypeOK, IsState
<1>3. AskedWell' /\ AnsweredWell'
  BY DEF AskedWell, AnsweredWell
<1> QED
  BY <1>2, <1>3 DEF WireInv

\* What is kept back is kept.
LEMMA SameLast ==
    ASSUME LastWell, UNCHANGED <<plant, last>>
    PROVE  LastWell'
BY SamePlant DEF LastWell

\* A call that comes to its end.
LEMMA EndIsWell ==
    ASSUME WireInv, UNCHANGED <<plant, calls, call, last>>, IsState(state'), NEW o, End(o),
           o.kind = "protocol" /\ ~ThePlant.stale =>
               o.why = "short" /\ Client(call).transport = "udp"
    PROVE  WireInv'
<1>1. phase' = "idle" /\ segment' = 0 /\ outcome' = o
  BY DEF End
<1>2. calls' \in Nat /\ segment' \in Nat /\ LastWell'
  BY <1>1, SameLast DEF WireInv, WireTypeOK
<1>3. OutcomeWell'
  BY <1>1, SamePlant DEF OutcomeWell
<1> QED
  BY <1>1, <1>2, <1>3, IdleIsWell

\* The state is one.
LEMMA StateIsState ==
    ASSUME WireInv PROVE IsState(state)
BY DEF WireInv, WireTypeOK, IsState

\* A call that is refused.
LEMMA RefusedIsWell ==
    ASSUME WireInv, NEW e, NEW cmd, NEW refusal, RefuseToSend(e, cmd, refusal)
    PROVE  WireInv' /\ phase' = "idle" /\ UNCHANGED <<plant, state, memory>>
<1>1. /\ phase' = "idle" /\ segment' = 0 /\ outcome' = Outcome("refused", refusal, <<>>)
      /\ calls' = calls + 1 /\ UNCHANGED <<plant, memory, state, last>>
  BY DEF RefuseToSend, Begin, End
<1>2. calls' \in Nat /\ segment' \in Nat /\ LastWell' /\ IsState(state')
  BY <1>1, SameLast, StateIsState DEF WireInv, WireTypeOK
<1>3. OutcomeWell'
  BY <1>1 DEF OutcomeWell, Outcome
<1> QED
  BY <1>1, <1>2, <1>3, IdleIsWell

\* A request that is sent.
LEMMA SentIsWell ==
    ASSUME WireInv, NEW e \in DOMAIN ThePlant.entries, NEW cmd, Sendable(cmd, ThePlant.entries[e].ctx),
           NEW serial, serial = SerialFor(ThePlant.entries[e].frame, calls + 1),
           Begin(e, cmd, serial), phase' = "asked",
           wire' = RequestUnits(ThePlant.entries[e], cmd, serial),
           acc' = Accumulator(ThePlant.entries[e].frame, ThePlant.entries[e].ctx.codec, serial),
           outcome'.kind = "none", UNCHANGED segment
    PROVE  WireInv'
<1>1. /\ calls' = calls + 1 /\ UNCHANGED <<plant, memory, state, last>>
      /\ call'.entry = e /\ call'.cmd = cmd /\ call'.serial = serial
  BY DEF Begin
<1>2. ThePlant' = ThePlant /\ Client(call)' = ThePlant.entries[e] /\ Ctx' = ThePlant.entries[e].ctx
  BY <1>1, SamePlant DEF Client, Ctx
<1>3. calls' \in Nat /\ calls' # 0 /\ LastWell' /\ plant' \in DOMAIN Plants /\ segment' \in Nat
  BY <1>1, SameLast DEF WireInv, WireTypeOK
<1>4. WireTypeOK'
  BY <1>1, <1>2, <1>3 DEF WireInv, WireTypeOK
<1>5. AskedWell' /\ AnsweredWell' /\ OutcomeWell'
  BY <1>1, <1>2, <1>3 DEF AskedWell, AnsweredWell, OutcomeWell
<1> QED
  BY <1>3, <1>4, <1>5 DEF WireInv

\* A command that may be asked for: one of the table, or one its caller knows and may send.
MayBeAsked(cmd, ctx) ==
    \/ Known(cmd)
    \/ Honest(cmd) /\ (Code(cmd) \in RemoteCodes => ctx.allow_remote_control)

\* A call, refused or sent.
LEMMA AskIsWell ==
    ASSUME WireInv, NEW e \in DOMAIN ThePlant.entries, NEW cmd,
           MayBeAsked(cmd, ThePlant.entries[e].ctx), Ask(e, cmd)
    PROVE  WireInv' /\ UNCHANGED <<plant, state, memory>> /\ phase = "idle"
<1> DEFINE entry == ThePlant.entries[e]
           refusal == Refused(cmd, entry.ctx)
<1>1. CASE refusal # "none"
  <2>1. RefuseToSend(e, cmd, refusal)
    BY <1>1 DEF Ask
  <2> QED
    BY <2>1, RefusedIsWell DEF RefuseToSend, Begin
<1>2. CASE refusal = "none"
  <2>1. Send(e, entry, cmd, SerialFor(entry.frame, calls + 1))
    BY <1>2 DEF Ask
  <2>2. Sendable(cmd, entry.ctx)
    BY <1>2, NotRefusedIsSendable DEF MayBeAsked
  <2>3. outcome'.kind = "none"
    BY <2>1 DEF Send, NoOutcome, Outcome
  <2> QED
    BY <2>1, <2>2, <2>3, SentIsWell DEF Send, Begin
<1> QED
  BY <1>1, <1>2

\* A request that is served, as its CPU reads it.
LEMMA ServedRequest ==
    ASSUME WireInv, MessagesFit, phase = "asked", NEW request, NEW served,
           request = RawRequest(Client(call).frame, Ctx.codec, wire),
           served = Handle(Target, memory, state, Ctx.encoding, request)
    PROVE  /\ request.command = Code(call.cmd) /\ Sendable(call.cmd, Ctx)
           /\ request.subcommand = SubcommandOf(call.cmd, Ctx) /\ request.payload = Encode(call.cmd, Ctx)
           /\ IsServed(Client(call), request, call.serial, served)
<1> DEFINE entry == Client(call)
           cmd == call.cmd
           serial == call.serial
<1>1. /\ Sendable(cmd, entry.ctx) /\ wire = RequestUnits(entry, cmd, serial)
      /\ calls # 0 /\ Ctx = entry.ctx
  BY DEF WireInv, AskedWell, OutcomeWell, Ctx
<1>2. IsEntry(entry) /\ SerialOf(entry.frame, serial)
  BY <1>1, TheClient DEF WireInv
<1>3. /\ Encode(cmd, entry.ctx) \in Seq(UnitOf(entry.ctx.codec))
      /\ Fits(entry.ctx.codec, AbnormalMinUnits * Width(entry.ctx.codec), served.payload)
      /\ served.end_code \in 0 .. UINT16_MAX
  BY <1>1 DEF MessagesFit, Fits
<1>4. request = RawRequest(entry.frame, entry.ctx.codec, RequestUnits(entry, cmd, serial))
  BY <1>1
<1> HIDE DEF entry, cmd, serial
<1>5. /\ request.serial = serial /\ request.route = Copy(entry.route)
      /\ request.command = Code(cmd) /\ request.subcommand = SubcommandOf(cmd, entry.ctx)
      /\ request.payload = Encode(cmd, entry.ctx)
  <2>1. /\ IsEntry(entry) /\ Sendable(cmd, entry.ctx) /\ SerialOf(entry.frame, serial)
        /\ Encode(cmd, entry.ctx) \in Seq(UnitOf(entry.ctx.codec))
        /\ request = RawRequest(entry.frame, entry.ctx.codec, RequestUnits(entry, cmd, serial))
    BY <1>1, <1>2, <1>3, <1>4
  <2> QED
    BY <2>1, WhatIsAsked
<1>6. IsRoute(Copy(entry.route))
  BY <1>2, RouteFits DEF IsEntry
<1>7. IsServed(entry, request, serial, served)
  BY <1>1, <1>2, <1>3, <1>5, <1>6 DEF IsServed, Sendable
<1> QED
  BY <1>1, <1>5, <1>7 DEF entry, cmd, serial

\* A cut of an answer.
LEMMA AnswerLength ==
    ASSUME NEW entry, IsEntry(entry), NEW m, IsAnswer(entry, m), NEW n \in Segments(entry, m)
    PROVE  n \in Nat
<1>1. Len(m) \in Nat
  BY LenProperties DEF IsAnswer
<1>2. PrefixUnits(entry.frame, entry.ctx.codec) \in Nat \ {0}
  BY Widths DEF IsEntry
<1> QED
  BY <1>1, <1>2 DEF Segments

\* What is answered is whole, and what is kept back is too.
LEMMA AnsweredIsWell ==
    ASSUME WireInv, UNCHANGED <<plant, calls, call>>, phase = "asked", IsState(state'),
           NEW raw, IsAnswer(Client(call), raw),
           ParseFault(Client(call).frame, Ctx.codec, raw, call.serial) = "none",
           Answer(Client(call), raw)
    PROVE  WireInv'
<1> DEFINE entry == Client(call)
<1>1. /\ phase' = "answered" /\ UNCHANGED <<acc, outcome>> /\ segment' \in Segments(entry, wire')
      /\ ThePlant.stale => wire' = (IF last # <<>> THEN last ELSE raw) /\ last' = raw
      /\ ~ThePlant.stale => wire' = raw /\ last' = last
  BY DEF Answer
<1>2. /\ calls # 0 /\ calls \in Nat /\ outcome.kind = "none" /\ plant \in DOMAIN Plants
      /\ call.entry \in DOMAIN ThePlant.entries /\ call.serial = SerialFor(entry.frame, calls)
      /\ entry = ThePlant.entries[call.entry] /\ Ctx = entry.ctx
  BY DEF WireInv, WireTypeOK, OutcomeWell, Client, Ctx
<1>3. IsEntry(entry) /\ ThePlant \in Range(Plants)
  BY <1>2, TheClient DEF WireInv, ThePlant, Range
<1>4. IsAnswer(entry, wire')
  BY <1>1, <1>2 DEF WireInv, LastWell
<1>5. ThePlant' = ThePlant /\ Client(call)' = entry /\ Ctx' = Ctx
  BY SamePlant
<1>6. LastWell'
  <2>1. CASE ThePlant.stale
    <3>1. \A e \in DOMAIN ThePlant.entries : e = call.entry
      BY <1>2, <1>3, <2>1, PlantsAssumption
    <3> QED
      BY <1>1, <1>2, <1>5, <2>1, <3>1 DEF LastWell
  <2>2. CASE ~ThePlant.stale
    BY <1>1, <2>2, SameLast DEF WireInv
  <2> QED
    BY <2>1, <2>2
<1>7. segment' \in Nat
  BY <1>1, <1>3, <1>4, AnswerLength
<1>8. WireTypeOK'
  BY <1>1, <1>2, <1>5, <1>7 DEF WireTypeOK, IsState
<1>9. OutcomeWell' /\ AskedWell'
  BY <1>1, <1>2 DEF OutcomeWell, AskedWell
<1>10. AnsweredWell'
  <2>1. acc = Accumulator(entry.frame, entry.ctx.codec, call.serial)
    BY <1>2 DEF WireInv, AskedWell
  <2>2. acc'.buf = <<>> /\ acc'.expect = call.serial
    BY <1>1, <2>1 DEF Accumulator
  <2>3. Arrived' = 0
    BY <2>2, EmptySeq DEF Arrived
  <2>4. 0 \in 0 .. Len(wire')
    <3>1. Len(wire') \in Nat
      BY <1>4, LenProperties DEF IsAnswer
    <3> QED
      BY <3>1
  <2>5. Holds(acc', entry.frame, entry.ctx.codec, wire', 0)
    BY <1>1, <1>3, <2>1, BeginsEmpty DEF IsEntry
  <2>6. ~ThePlant.stale => ParseFault(entry.frame, Ctx.codec, wire', call.serial) = "none"
    BY <1>1
  <2> HIDE DEF entry
  <2> QED
    BY <1>2, <1>4, <1>5, <2>2, <2>3, <2>4, <2>5, <2>6 DEF AnsweredWell
<1> QED
  BY <1>6, <1>8, <1>9, <1>10 DEF WireInv

\* A request that is served changes what its command may change, and is answered.
LEMMA ServeIsWell ==
    ASSUME WireInv, MessagesFit, Serve
    PROVE  /\ WireInv' /\ UNCHANGED plant /\ phase = "asked"
           /\ ~Mutates(call.cmd) => state' = state /\ memory' = PublishState(memory, state)
           /\ ~Ctx.allow_remote_control => state'.remote_request = state.remote_request
<1> DEFINE entry == Client(call)
           request == RawRequest(entry.frame, entry.ctx.codec, wire)
           served == Handle(Target, memory, state, entry.ctx.encoding, request)
           raw == AnswerUnits(entry, request, served)
<1>1. /\ phase = "asked" /\ UNCHANGED <<plant, calls, call>>
      /\ memory' = served.memory /\ state' = served.state
      /\ \/ \E o : End(o) /\ o.kind # "protocol" /\ UNCHANGED last
         \/ Answer(entry, raw)
  BY DEF Serve, Outcome
<1>2. Ctx = entry.ctx
  BY DEF Ctx
<1> HIDE DEF request, served, raw
<1>3. /\ request.command = Code(call.cmd) /\ Sendable(call.cmd, Ctx)
      /\ IsServed(entry, request, call.serial, served)
  BY <1>1, <1>2, ServedRequest DEF request, served
<1>4. /\ MovesNothing(request.command) =>
             served.state = state /\ served.memory = PublishState(memory, state)
      /\ request.command \notin RemoteCodes => served.state.remote_request = state.remote_request
      /\ IsState(served.state)
  BY StateIsState, HandleTouches DEF served
<1>5. ~Mutates(call.cmd) => state' = state /\ memory' = PublishState(memory, state)
  BY <1>1, <1>3, <1>4, HarmlessCode DEF Sendable
<1>6. ~Ctx.allow_remote_control => state'.remote_request = state.remote_request
  BY <1>1, <1>3, <1>4 DEF Sendable
<1>7. CASE \E o : End(o) /\ o.kind # "protocol" /\ UNCHANGED last
  <2>1. PICK o : End(o) /\ o.kind # "protocol" /\ UNCHANGED last
    BY <1>7
  <2>2. WireInv'
    BY <1>1, <1>4, <2>1, EndIsWell
  <2> QED
    BY <1>1, <1>5, <1>6, <2>2
<1>8. CASE Answer(entry, raw)
  <2>1. IsAnswer(entry, raw) /\ ParseFault(entry.frame, entry.ctx.codec, raw, call.serial) = "none"
    BY <1>3, WhatIsAnswered DEF raw
  <2>2. WireInv'
    BY <1>1, <1>2, <1>4, <1>8, <2>1, AnsweredIsWell
  <2> QED
    BY <1>1, <1>5, <1>6, <2>2
<1> QED
  BY <1>1, <1>7, <1>8

\* Feeding leaves the serial that is expected.
LEMMA FeedKeepsExpect ==
    ASSUME NEW f, NEW c, NEW m, NEW n, NEW a, Holds(a, f, c, m, n), NEW units
    PROVE  Feed(a, units).expect = a.expect
<1> DEFINE b == Buffered(a, units)
           head == SubSeq(m, 1, n)
           more == head \o units
<1>1. /\ a \in [frame : {f}, codec : {c}, expect : {a.expect}, buf : {head}, known : BOOLEAN,
                taken : {FALSE}]
      /\ a.buf = head
  BY DEF Holds
<1>2. b = [a EXCEPT !.buf = more]
  BY <1>1 DEF Buffered
<1> HIDE DEF b, head, more
<1>3. b \in [frame : {f}, codec : {c}, expect : {a.expect}, buf : {more}, known : BOOLEAN,
            taken : {FALSE}]
  BY <1>1, <1>2
<1>4. Feed(a, units) = [b EXCEPT !.known = @ \/ Due2Decode(b)]
  BY DEF Feed, b
<1> QED
  BY <1>3, <1>4

\* What the client is told of an answer by the accumulator that has heard so much of it.
LEMMA Heard ==
    ASSUME WireInv, phase = "answered"
    PROVE  /\ IsEntry(Client(call)) /\ wire \in Seq(Range(wire)) /\ Len(wire) \in Nat
           /\ Message(Client(call).frame, Ctx.codec, wire)
           /\ Arrived \in 0 .. Len(wire)
           /\ Holds(acc, Client(call).frame, Ctx.codec, wire, Arrived)
           /\ BytesNeeded(acc) \in 0 .. Len(wire) - Arrived
           /\ BytesNeeded(acc) = 0 <=> Arrived = Len(wire)
           /\ Complete(acc) <=> Arrived = Len(wire)
           /\ \A k \in 0 .. Len(wire) - Arrived :
                  LET piece == Span(wire, Arrived, k)
                  IN  /\ FeedFault(acc, piece) = "none"
                      /\ Holds(Feed(acc, piece), Client(call).frame, Ctx.codec, wire, Arrived + k)
<1> DEFINE entry == Client(call)
           f == entry.frame
           c == Ctx.codec
           n == Arrived
           S == Range(wire)
<1>1. /\ IsAnswer(entry, wire) /\ n \in 0 .. Len(wire) /\ Holds(acc, f, c, wire, n)
      /\ calls # 0 /\ Ctx = entry.ctx
  BY DEF WireInv, AnsweredWell, OutcomeWell, Ctx
<1>2. IsEntry(entry)
  BY <1>1, TheClient DEF WireInv
<1>3. /\ f \in Frames /\ c \in Codecs /\ wire \in Seq(S) /\ Message(f, c, wire) /\ Len(wire) \in Nat
  BY <1>1, <1>2, LenProperties DEF IsAnswer, IsEntry
<1> HIDE DEF entry, f, c, n, S
<1>4. /\ BytesNeeded(acc) \in 0 .. Len(wire) - n
      /\ BytesNeeded(acc) = 0 <=> n = Len(wire)
      /\ Complete(acc) <=> n = Len(wire)
      /\ \A k \in 0 .. Len(wire) - n :
           LET piece == SubSeq(wire, n + 1, n + k)
           IN  /\ FeedFault(acc, piece) = "none"
               /\ Holds(Feed(acc, piece), f, c, wire, n + k)
  BY <1>1, <1>3, AnyPieces
<1> QED
  BY <1>1, <1>2, <1>3, <1>4 DEF entry, f, c, n, S, Span

\* One piece more.
LEMMA FedIsWell ==
    ASSUME WireInv, phase = "answered", NEW k \in 0 .. Len(wire) - Arrived, NEW whole \in BOOLEAN,
           Fed(Span(wire, Arrived, k), whole), whole => Client(call).transport = "udp"
    PROVE  WireInv' /\ UNCHANGED <<plant, state, memory>>
<1> DEFINE units == Span(wire, Arrived, k)
           fed == Feed(acc, units)
<1>1. /\ wire \in Seq(Range(wire)) /\ Len(wire) \in Nat /\ Arrived \in 0 .. Len(wire)
      /\ FeedFault(acc, units) = "none"
      /\ Holds(acc, Client(call).frame, Ctx.codec, wire, Arrived)
      /\ Holds(fed, Client(call).frame, Ctx.codec, wire, Arrived + k)
  BY Heard
<1>2. UNCHANGED <<plant, memory, state, calls, call, last>>
  BY DEF Fed
<1>3. \/ whole /\ Broken("short")
      \/ acc' = fed /\ UNCHANGED <<phase, wire, segment, outcome>>
  BY <1>1 DEF Fed
<1> HIDE DEF units
<1>4. CASE whole /\ Broken("short")
  <2>1. End(Outcome("protocol", "short", <<>>))
    BY <1>4 DEF Broken
  <2>2. IsState(state')
    BY <1>2, StateIsState
  <2>3. Outcome("protocol", "short", <<>>).why = "short"
    BY DEF Outcome
  <2> QED
    BY <1>2, <1>4, <2>1, <2>2, <2>3, EndIsWell
<1>5. CASE acc' = fed /\ UNCHANGED <<phase, wire, segment, outcome>>
  <2>1. ThePlant' = ThePlant /\ Client(call)' = Client(call) /\ Ctx' = Ctx
    BY <1>2, SamePlant
  <2>2. WireTypeOK' /\ LastWell' /\ OutcomeWell' /\ AskedWell'
    BY <1>2, <1>5, <2>1, SameLast DEF WireInv, WireTypeOK, OutcomeWell, AskedWell
  <2>3. fed.buf = SubSeq(wire, 1, Arrived + k) /\ Arrived + k \in 0 .. Len(wire)
    BY <1>1 DEF Holds
  <2>4. Arrived' = Arrived + k
    BY <1>1, <1>5, <2>3, HeadLength DEF Arrived
  <2>5. fed.expect = acc.expect
    BY <1>1, FeedKeepsExpect
  <2> HIDE DEF fed
  <2>6. AnsweredWell'
    BY <1>1, <1>2, <1>5, <2>1, <2>3, <2>4, <2>5 DEF WireInv, AnsweredWell
  <2> QED
    BY <1>2, <2>2, <2>6 DEF WireInv
<1> QED
  BY <1>2, <1>3, <1>4, <1>5

\* A piece of a stream arrives.
LEMMA StreamIsWell ==
    ASSUME WireInv, ReceiveStream
    PROVE  WireInv' /\ UNCHANGED <<plant, state, memory>> /\ phase = "answered"
<1> DEFINE due == (IF Arrived < segment THEN segment ELSE Len(wire)) - Arrived
           k == Smaller(Smaller(due, BytesNeeded(acc)), BufferCapacity)
<1>1. phase = "answered" /\ Fed(Span(wire, Arrived, k), FALSE)
  BY DEF ReceiveStream, Piece
<1>2. /\ Len(wire) \in Nat /\ Arrived \in 0 .. Len(wire)
      /\ BytesNeeded(acc) \in 0 .. Len(wire) - Arrived
  BY <1>1, Heard
<1>3. segment \in Nat /\ BufferCapacity \in Nat
  BY PlantsAssumption DEF WireInv, WireTypeOK
<1>4. k \in 0 .. Len(wire) - Arrived
  BY <1>2, <1>3 DEF Smaller
<1> HIDE DEF k
<1> QED
  BY <1>1, <1>4, FedIsWell

\* A datagram arrives.
LEMMA DatagramIsWell ==
    ASSUME WireInv, ReceiveDatagram
    PROVE  WireInv' /\ UNCHANGED <<plant, state, memory>> /\ phase = "answered"
<1> DEFINE k == Smaller(Len(wire), BufferCapacity)
<1>1. /\ phase = "answered" /\ Fed(Span(wire, Arrived, k), TRUE)
      /\ Client(call).transport = "udp" /\ Arrived = 0
  BY DEF ReceiveDatagram, Datagram
<1>2. Len(wire) \in Nat
  BY <1>1, Heard
<1>3. BufferCapacity \in Nat
  BY PlantsAssumption
<1>4. k \in 0 .. Len(wire) - Arrived
  BY <1>1, <1>2, <1>3 DEF Smaller
<1> HIDE DEF k
<1> QED
  BY <1>1, <1>4, FedIsWell

\* A whole answer is taken for nothing but what it is.
LEMMA TakenIsWell ==
    ASSUME WireInv, phase = "answered", BytesNeeded(acc) = 0, ~ThePlant.stale
    PROVE  TakeFault(acc) = "none"
<1>1. /\ wire \in Seq(Range(wire)) /\ Len(wire) \in Nat
      /\ Arrived = Len(wire) /\ Complete(acc)
      /\ Holds(acc, Client(call).frame, Ctx.codec, wire, Arrived)
  BY Heard
<1>2. /\ acc.expect = call.serial
      /\ ParseFault(Client(call).frame, Ctx.codec, wire, call.serial) = "none"
  BY DEF WireInv, AnsweredWell
<1>3. /\ acc.frame = Client(call).frame /\ acc.codec = Ctx.codec /\ acc.taken = FALSE
      /\ acc.buf = SubSeq(wire, 1, Len(wire))
  BY <1>1 DEF Holds
<1>4. SubSeq(wire, 1, Len(wire)) = wire
  BY <1>1, SubSeqFull
<1> QED
  BY <1>1, <1>2, <1>3, <1>4 DEF TakeFault

\* An answer is taken.
LEMMA ConcludeIsWell ==
    ASSUME WireInv, Conclude
    PROVE  WireInv' /\ UNCHANGED <<plant, state, memory>> /\ phase = "answered"
<1>1. /\ phase = "answered" /\ BytesNeeded(acc) = 0 /\ End(Conclusion)
      /\ UNCHANGED <<plant, memory, state, calls, call, last>>
  BY DEF Conclude
<1>2. \A cmd, payload, ctx : Meaning(cmd, payload, ctx).kind # "protocol"
  BY DEF Meaning, Outcome
<1>3. TakeFault(acc) = "none" => Conclusion.kind # "protocol"
  BY <1>2 DEF Conclusion, Outcome
<1>4. ~ThePlant.stale => Conclusion.kind # "protocol"
  BY <1>1, <1>3, TakenIsWell
<1>5. IsState(state')
  BY <1>1, StateIsState
<1> QED
  BY <1>1, <1>4, <1>5, EndIsWell

\* Of the steps of a verb, those that ask.
LEMMA Asking ==
    ASSUME NEW cmd, NEW value
    PROVE  /\ AskFor(cmd).cmd = cmd /\ AskFor(cmd).do = "ask"
           /\ Return(value).do # "ask" /\ Raise(value).do # "ask"
BY DEF AskFor, Return, Raise

\* The requests of verbs are commands of the table.
LEMMA CommandsOfVerbs ==
    ASSUME NEW v, NEW x, NEW y
    PROVE  /\ Known(ReadWordsOf(x, y)) /\ Known(ReadBitsOf(x, y)) /\ Known(ReadRandomOf(x))
           /\ Known(WriteWordsOf(x, y)) /\ Known(WriteBitsOf(x, y)) /\ Known(WriteRandomOf(x))
BY KnownNames DEF ReadWordsOf, ReadBitsOf, ReadRandomOf, WriteWordsOf, WriteBitsOf, WriteRandomOf

\* What read asks for ...
LEMMA ReadingAsks ==
    ASSUME NEW v, NEW got, ReadSteps(v, got).do = "ask"
    PROVE  Known(ReadSteps(v, got).cmd)
<1>1. \A spec, value : Judged(spec, value).do # "ask"
  BY Asking DEF Judged, CheckReading
<1>2. got = <<>>
  BY <1>1 DEF ReadSteps
<1>3. ReadSteps(v, got).cmd = ReadCommand(v)
  BY <1>2, Asking DEF ReadSteps
<1> QED
  BY <1>3, CommandsOfVerbs DEF ReadCommand

\* ... and write ...
LEMMA WritingAsks ==
    ASSUME NEW v, NEW got, WriteSteps(v, got).do = "ask"
    PROVE  Known(WriteSteps(v, got).cmd)
<1>1. CASE got = <<>>
  <2>1. WriteSteps(v, got).cmd = WriteCommand(v)
    BY <1>1, Asking DEF WriteSteps
  <2> QED
    BY <2>1, CommandsOfVerbs DEF WriteCommand
<1>2. CASE got # <<>>
  <2> DEFINE back == ReadSteps([v EXCEPT !.spec.bounds = NoBounds], Tail(got))
  <2>1. WriteSteps(v, got) =
            IF ~v.verify THEN Return(<<>>) ELSE IF back.do = "ask" THEN back ELSE Check(v.value, back)
    BY <1>2 DEF WriteSteps
  <2>2. back.do = "ask" => Known(back.cmd)
    BY ReadingAsks
  <2> HIDE DEF back
  <2>3. back.do # "ask" => Check(v.value, back).do # "ask"
    BY Asking DEF Check
  <2>4. WriteSteps(v, got) = back /\ back.do = "ask"
    BY <2>1, <2>3, Asking
  <2> QED
    BY <2>2, <2>4
<1> QED
  BY <1>1, <1>2

\* ... and the arrays and random access ...
LEMMA ArraysAsk ==
    ASSUME NEW v, NEW got, NEW ctx
    PROVE  /\ ArrayReadSteps(v, got).do = "ask" => Known(ArrayReadSteps(v, got).cmd)
           /\ ArrayWriteSteps(v, got).do = "ask" => Known(ArrayWriteSteps(v, got).cmd)
           /\ RandomReadSteps(v, ctx, got).do = "ask" => Known(RandomReadSteps(v, ctx, got).cmd)
           /\ RandomWriteSteps(v, got).do = "ask" => Known(RandomWriteSteps(v, got).cmd)
<1>1. ArrayReadSteps(v, got).do = "ask" => Known(ArrayReadSteps(v, got).cmd)
  BY Asking, CommandsOfVerbs DEF ArrayReadSteps
<1>2. ArrayWriteSteps(v, got).do = "ask" => Known(ArrayWriteSteps(v, got).cmd)
  BY Asking, CommandsOfVerbs DEF ArrayWriteSteps
<1>3. RandomReadSteps(v, ctx, got).do = "ask" => Known(RandomReadSteps(v, ctx, got).cmd)
  <2> DEFINE chunk == IF v.allow_split THEN Ceiling(ctx) ELSE Len(v.points)
             begin == Len(got) * chunk
             cmd == ReadRandomOf(Span(v.points, begin, Min({chunk, Len(v.points) - begin})))
  <2>1. RandomReadSteps(v, ctx, got) \in {AskFor(cmd), Return(FlattenSeq(got))}
    BY DEF RandomReadSteps
  <2>2. Known(cmd)
    BY CommandsOfVerbs
  <2> HIDE DEF cmd
  <2> QED
    BY <2>1, <2>2, Asking
<1>4. RandomWriteSteps(v, got).do = "ask" => Known(RandomWriteSteps(v, got).cmd)
  BY Asking, CommandsOfVerbs DEF RandomWriteSteps
<1> QED
  BY <1>1, <1>2, <1>3, <1>4

\* ... and the status and the diagnostics ...
LEMMA StatusAsks ==
    ASSUME NEW got
    PROVE  /\ StatusSteps(got).do = "ask" => Known(StatusSteps(got).cmd)
           /\ DiagnosticsSteps(got).do = "ask" => Known(DiagnosticsSteps(got).cmd)
<1>1. Known(CpuStatusCommand)
  BY CommandsOfVerbs DEF CpuStatusCommand
<1>2. StatusSteps(got).do = "ask" => StatusSteps(got) = AskFor(CpuStatusCommand)
  BY Asking DEF StatusSteps
<1>3. DiagnosticsSteps(got).do = "ask" => DiagnosticsSteps(got) = AskFor(ReadRandomOf(CpuDiagnosticsPoints))
  <2>1. \/ DiagnosticsSteps(got) = AskFor(ReadRandomOf(CpuDiagnosticsPoints))
        \/ DiagnosticsSteps(got) = Return(<<DecodeDiagnostics(got[1])>>)
        \/ DiagnosticsSteps(got) = Raise("shape")
    BY DEF DiagnosticsSteps
  <2> QED
    BY <2>1, Asking
<1>4. Known(ReadRandomOf(CpuDiagnosticsPoints))
  BY CommandsOfVerbs
<1> QED
  BY <1>1, <1>2, <1>3, <1>4, Asking

\* ... and the remote verbs.
LEMMA RemotesAsk ==
    ASSUME NEW v, v.cmd.name \in Remotes, NEW got, NEW step \in RemoteSteps(v, got), step.do = "ask"
    PROVE  Known(step.cmd)
<1>1. Known(CpuStatusCommand) /\ Known(v.cmd)
  BY CommandsOfVerbs, KnownNames DEF CpuStatusCommand
<1>2. step \in {AskFor(v.cmd), AskFor(CpuStatusCommand)}
  BY Asking DEF RemoteSteps
<1> QED
  BY <1>1, <1>2, Asking

\* Whatever a verb asks for may be asked for.
LEMMA VerbsAsk ==
    ASSUME plant \in DOMAIN Plants, NEW e \in DOMAIN ThePlant.entries,
           NEW v \in VerbsOf(ThePlant.entries[e]), NEW ctx, VerbFault(v, ctx) = "none",
           NEW got, NEW step \in NextSteps(v, ctx, got), step.do = "ask"
    PROVE  MayBeAsked(step.cmd, ctx)
<1>1. ThePlant \in Range(Plants) /\ ThePlant.entries[e] \in Range(ThePlant.entries)
  BY DEF ThePlant, Range
<1>2. /\ v.verb \in {"read", "write", "read_f32_array", "write_f32_array", "read_random",
                     "write_random", "read_cpu_status", "remote", "read_diagnostics", "raw_command"}
      /\ v.verb = "remote" => v.cmd.name \in Remotes
      /\ v.verb = "raw_command" => Honest(v.cmd)
  BY <1>1, VerbsAssumption DEF Honest
<1>3. CASE v.verb = "raw_command"
  <2>1. NextSteps(v, ctx, got) = {RawSteps(v, got)} /\ VerbFault(v, ctx) = RawFault(v, ctx)
    BY <1>3 DEF NextSteps, VerbFault
  <2>2. step.cmd = v.cmd
    BY <2>1, Asking DEF RawSteps
  <2>3. RawFault(v, ctx) = "none"
    BY <2>1
  <2>4. ~(Code(v.cmd) \in REMOTE_CONTROL_COMMANDS /\ ~ctx.allow_remote_control)
    BY <2>3 DEF RawFault, Refuse
  <2> QED
    BY <1>2, <1>3, <2>2, <2>4, RemoteCodesOf DEF MayBeAsked
<1>4. CASE v.verb = "remote"
  <2>1. step \in RemoteSteps(v, got)
    BY <1>4 DEF NextSteps
  <2> QED
    BY <1>2, <1>4, <2>1, RemotesAsk DEF MayBeAsked
<1>5. CASE v.verb = "read"
  BY <1>5, ReadingAsks DEF NextSteps, MayBeAsked
<1>6. CASE v.verb = "write"
  BY <1>6, WritingAsks DEF NextSteps, MayBeAsked
<1>7. CASE v.verb \in {"read_f32_array", "write_f32_array", "read_random", "write_random"}
  BY <1>7, ArraysAsk DEF NextSteps, MayBeAsked
<1>8. CASE v.verb \in {"read_cpu_status", "read_diagnostics"}
  BY <1>8, StatusAsks DEF NextSteps, MayBeAsked
<1> QED
  BY <1>2, <1>3, <1>4, <1>5, <1>6, <1>7, <1>8

\* What HarmlessIsHarmless asks of a step.
Harmless ==
    phase = "asked" =>
        /\ ~Mutates(call.cmd) => state' = state /\ memory' = PublishState(memory, state)
        /\ ~Ctx.allow_remote_control => UNCHANGED state.remote_request

\* A step of the wire as HarmlessIsHarmless wants it.
HarmlessStep == Harmless \/ UNCHANGED vars

\* Nothing happens on the wire.
LEMMA QuietIsWell ==
    ASSUME WireInv, UNCHANGED <<plant, memory, state, calls, call, phase, wire, segment, acc, last>>,
           OutcomeWell'
    PROVE  WireInv'
<1>1. ThePlant' = ThePlant /\ Client(call)' = Client(call) /\ Ctx' = Ctx
  BY SamePlant
<1>2. WireTypeOK' /\ AskedWell'
  BY <1>1 DEF WireInv, WireTypeOK, AskedWell
<1>3. AnsweredWell' /\ LastWell'
  BY <1>1, SameLast DEF WireInv, AnsweredWell, Arrived
<1> QED
  BY <1>2, <1>3 DEF WireInv

\* Nothing happens on the wire.
LEMMA StutterIsWell ==
    ASSUME WireInv, UNCHANGED vars
    PROVE  WireInv'
<1>1. UNCHANGED <<plant, memory, state, calls, call, phase, wire, segment, acc, last, outcome>>
  BY DEF vars
<1>2. OutcomeWell'
  BY <1>1, SamePlant DEF WireInv, OutcomeWell
<1> QED
  BY <1>1, <1>2, QuietIsWell

\* A request is served, or an answer read.
LEMMA TravelIsWell ==
    ASSUME WireInv, MessagesFit, Travel
    PROVE  WireInv' /\ UNCHANGED plant /\ phase # "idle" /\ Harmless
<1>1. CASE Serve
  <2>1. UNCHANGED state.remote_request <=> state'.remote_request = state.remote_request
    OBVIOUS
  <2> QED
    BY <1>1, <2>1, ServeIsWell DEF Harmless
<1>2. CASE ReceiveStream
  BY <1>2, StreamIsWell DEF Harmless
<1>3. CASE ReceiveDatagram
  BY <1>3, DatagramIsWell DEF Harmless
<1> QED
  BY <1>1, <1>2, <1>3 DEF Travel

\* Every step of Wire.
LEMMA WireNextIsWell ==
    ASSUME WireInv, MessagesFit, WireNext
    PROVE  WireInv' /\ UNCHANGED plant /\ HarmlessStep
<1>1. ASSUME calls < MaxCalls, NEW e \in DOMAIN ThePlant.entries,
             NEW cmd \in Asks(calls + 1, ThePlant.entries[e]), Ask(e, cmd)
      PROVE  WireInv' /\ UNCHANGED plant /\ HarmlessStep
  <2>1. /\ calls + 1 \in 1 .. MaxCalls /\ ThePlant \in Range(Plants)
        /\ ThePlant.entries[e] \in Range(ThePlant.entries)
    BY <1>1, PlantsAssumption DEF WireInv, WireTypeOK, ThePlant, Range
  <2>2. MayBeAsked(cmd, ThePlant.entries[e].ctx)
    BY <2>1, AsksAssumption DEF MayBeAsked, Known
  <2> QED
    BY <1>1, <2>2, AskIsWell DEF HarmlessStep, Harmless
<1>2. CASE Travel
  BY <1>2, TravelIsWell DEF HarmlessStep
<1>3. CASE Conclude
  BY <1>3, ConcludeIsWell DEF HarmlessStep, Harmless
<1>4. CASE Finished
  BY <1>4, StutterIsWell DEF Finished, HarmlessStep, vars
<1> QED
  BY <1>1, <1>2, <1>3, <1>4 DEF WireNext

\* A step of a block: the wire, and what is being read.
BlockWell == WireInv' /\ PlanWell' /\ UNCHANGED plant /\ HarmlessStep

\* A step of Wire beside the blocks.
LEMMA AsideIsWell ==
    ASSUME WireInv, PlanWell, MessagesFit, AsideFromBlocks
    PROVE  BlockWell
<1>1. plan' = IF calls' # calls \/ (Reading /\ phase' = "idle") THEN NoPlan ELSE plan
  BY DEF AsideFromBlocks
<1>2. WireInv' /\ UNCHANGED plant /\ HarmlessStep
  BY TravelIsWell, WireNextIsWell DEF AsideFromBlocks, HarmlessStep
<1>3. PlanWell'
  <2>1. CASE plan' = NoPlan
    BY <2>1 DEF PlanWell, Reading, NoPlan
  <2>2. CASE ~Reading /\ plan' = plan
    BY <2>2 DEF PlanWell, Reading
  <2>3. CASE Reading /\ plan' = plan /\ phase' # "idle"
    <3>1. outcome'.kind = "none"
      BY <1>2, <2>3 DEF WireInv, OutcomeWell
    <3>2. ThePlant' = ThePlant
      BY <1>2, SamePlant
    <3> QED
      BY <2>3, <3>1, <3>2 DEF PlanWell
  <2> QED
    BY <1>1, <2>1, <2>2, <2>3
<1> QED
  BY <1>2, <1>3 DEF BlockWell

\* A block is bound.
LEMMA BindIsWell ==
    ASSUME WireInv, PlanWell, NEW e \in DOMAIN ThePlant.entries, NEW b, Bind(e, b)
    PROVE  BlockWell
<1>1. phase = "idle"
  BY DEF Bind
<1>2. \/ \E fault : RefuseToSend(e, NoCommand, fault) /\ plan' = NoPlan
      \/ \E readers :
            /\ plan' = [doing |-> "read", entry |-> e, binding |-> b, readers |-> readers,
                        next |-> 1, into |-> NoBits, before |-> memory]
            /\ outcome' = NoOutcome
            /\ UNCHANGED <<plant, memory, state, calls, call, phase, wire, segment, acc, last>>
  BY DEF Bind
<1>3. CASE \E fault : RefuseToSend(e, NoCommand, fault) /\ plan' = NoPlan
  <2>1. PlanWell'
    BY <1>3 DEF PlanWell, Reading, NoPlan
  <2> QED
    BY <1>1, <1>3, <2>1, RefusedIsWell DEF BlockWell, HarmlessStep, Harmless
<1>4. ASSUME NEW readers,
             plan' = [doing |-> "read", entry |-> e, binding |-> b, readers |-> readers,
                      next |-> 1, into |-> NoBits, before |-> memory],
             outcome' = NoOutcome,
             UNCHANGED <<plant, memory, state, calls, call, phase, wire, segment, acc, last>>
      PROVE  BlockWell
  <2>1. ThePlant' = ThePlant /\ outcome'.kind = "none"
    BY <1>4, SamePlant DEF NoOutcome, Outcome
  <2>2. OutcomeWell'
    BY <1>1, <1>4, <2>1 DEF OutcomeWell
  <2>3. WireInv'
    BY <1>4, <2>2, QuietIsWell
  <2>4. PlanWell'
    BY <1>4, <2>1 DEF PlanWell
  <2> QED
    BY <1>1, <1>4, <2>3, <2>4 DEF BlockWell, HarmlessStep, Harmless
<1> QED
  BY <1>2, <1>3, <1>4

\* A part of a block is asked for.
LEMMA RequestPartIsWell ==
    ASSUME WireInv, PlanWell, MessagesFit', RequestPart
    PROVE  BlockWell
<1> DEFINE e == plan.entry
           entry == ThePlant.entries[e]
           cmd == ReaderCommand(TheReader)
           serial == SerialFor(entry.frame, calls + 1)
           S == UnitOf(entry.ctx.codec)
<1>1. /\ Begin(e, cmd, serial) /\ phase' = "asked"
      /\ wire' = Patched(entry, Prebuilt(entry, TheReader), serial)
      /\ acc' = Accumulator(entry.frame, entry.ctx.codec, serial)
      /\ Reading /\ UNCHANGED <<segment, outcome, plan>>
  BY DEF RequestPart
<1>2. /\ phase = "idle" /\ call'.cmd = cmd /\ call'.entry = e /\ UNCHANGED <<plant, memory, state>>
  BY <1>1 DEF Begin
<1>3. /\ e \in DOMAIN ThePlant.entries /\ outcome.kind = "none"
      /\ plant \in DOMAIN Plants /\ calls \in Nat
  BY <1>1 DEF PlanWell, WireInv, WireTypeOK
<1>4. ThePlant' = ThePlant /\ Ctx' = entry.ctx
  BY <1>2, SamePlant DEF Ctx, Client
<1>5. IsEntry(entry) /\ SerialOf(entry.frame, serial)
  <2>1. IsEntry(entry)
    BY <1>3, EntriesAreWell
  <2>2. calls + 1 \in Nat \ {0}
    BY <1>3
  <2> QED
    BY <2>1, <2>2, NextSerial DEF IsEntry
<1>6. Sendable(cmd, entry.ctx)
  BY ReadRandomIsSendable DEF ReaderCommand
<1>7. Encode(cmd, entry.ctx) \in Seq(S)
  BY <1>1, <1>2, <1>4 DEF MessagesFit, Fits
<1>8. wire' = RequestUnits(entry, cmd, serial)
  <2>1. Prebuilt(entry, TheReader)
            = RequestUnits(entry, cmd, IF entry.frame.carries_serial THEN 0 ELSE NoSerial)
    BY DEF Prebuilt
  <2> HIDE DEF entry, cmd, serial, S
  <2>2. UnitOf(entry.ctx.codec) \subseteq S
    BY DEF S
  <2> QED
    BY <1>1, <1>5, <1>6, <1>7, <2>1, <2>2, PatchedIsBuilt
<1>9. WireInv'
  BY <1>1, <1>3, <1>6, <1>8, SentIsWell
<1>10. PlanWell'
  BY <1>1, <1>3, <1>4 DEF PlanWell
<1> QED
  BY <1>2, <1>9, <1>10 DEF BlockWell, HarmlessStep, Harmless

\* The end of a part: the read is given up, or done, or goes on to the next one.
LEMMA FilledIsWell ==
    ASSUME WireInv, PlanWell, phase = "answered", Reading, NEW values, Fill(values),
           UNCHANGED <<plant, memory, state, calls, call, last>>
    PROVE  WireInv' /\ PlanWell'
<1>1. IsState(state')
  BY StateIsState
<1>2. PICK into : \/ End(Outcome("block", "none", into)) /\ plan' = [plan EXCEPT !.doing = "done", !.into = into]
                  \/ End(NoOutcome) /\ plan' = [plan EXCEPT !.next = @ + 1, !.into = into]
  BY DEF Fill
<1>3. /\ plan \in [doing : {"read"}, entry : DOMAIN ThePlant.entries, binding : {plan.binding},
                   readers : {plan.readers}, next : {plan.next}, into : {plan.into},
                   before : {plan.before}]
      /\ ThePlant' = ThePlant
  BY SamePlant DEF PlanWell
<1>4. /\ Outcome("block", "none", into).kind # "protocol"
      /\ NoOutcome.kind # "protocol" /\ NoOutcome.kind = "none"
  BY DEF NoOutcome, Outcome
<1>5. CASE End(Outcome("block", "none", into)) /\ plan' = [plan EXCEPT !.doing = "done", !.into = into]
  <2>1. plan'.doing = "done"
    BY <1>3, <1>5
  <2> QED
    BY <1>1, <1>4, <1>5, <2>1, EndIsWell DEF PlanWell, Reading
<1>6. CASE End(NoOutcome) /\ plan' = [plan EXCEPT !.next = @ + 1, !.into = into]
  <2>1. plan' \in [doing : {"read"}, entry : DOMAIN ThePlant.entries, binding : {plan'.binding},
                   readers : {plan'.readers}, next : {plan'.next}, into : {plan'.into},
                   before : {plan'.before}]
    BY <1>3, <1>6
  <2>2. outcome'.kind = "none"
    BY <1>4, <1>6 DEF End
  <2> QED
    BY <1>1, <1>3, <1>4, <1>6, <2>1, <2>2, EndIsWell DEF PlanWell
<1> QED
  BY <1>2, <1>5, <1>6

\* A part of a block is decoded.
LEMMA DecodePartIsWell ==
    ASSUME WireInv, PlanWell, DecodePart
    PROVE  BlockWell
<1>1. /\ phase = "answered" /\ Reading /\ BytesNeeded(acc) = 0
      /\ UNCHANGED <<plant, memory, state, calls, call, last>>
  BY DEF DecodePart
<1>2. \/ TakeFault(acc) # "none" /\ GivenUp(Outcome("protocol", TakeFault(acc), <<>>))
      \/ \E o : o.kind # "protocol" /\ GivenUp(o)
      \/ \E values : Fill(values)
  BY DEF DecodePart, Outcome
<1>3. IsState(state')
  BY <1>1, StateIsState
<1>4. CASE \E o : (o.kind = "protocol" => ThePlant.stale) /\ GivenUp(o)
  <2>1. PICK o : (o.kind = "protocol" => ThePlant.stale) /\ End(o) /\ plan' = NoPlan
    BY <1>4 DEF GivenUp
  <2>2. WireInv'
    BY <1>1, <1>3, <2>1, EndIsWell
  <2>3. PlanWell'
    BY <2>1 DEF PlanWell, Reading, NoPlan
  <2> QED
    BY <1>1, <2>2, <2>3 DEF BlockWell, HarmlessStep, Harmless
<1>5. CASE \E values : Fill(values)
  BY <1>1, <1>5, FilledIsWell DEF BlockWell, HarmlessStep, Harmless
<1>6. TakeFault(acc) # "none" => ThePlant.stale
  BY <1>1, TakenIsWell
<1> QED
  BY <1>2, <1>4, <1>5, <1>6

\* Fields of a block are written.
LEMMA WriteFieldsIsWell ==
    ASSUME WireInv, PlanWell, NEW e \in DOMAIN ThePlant.entries, NEW w, WriteFields(e, w)
    PROVE  BlockWell
<1>1. plan'.doing = "write"
  BY DEF WriteFields
<1>2. \/ \E fault : RefuseToSend(e, NoCommand, fault)
      \/ Ask(e, BlockWriteCommand(w.block, ThePlant.entries[e].ctx, w.given))
  BY DEF WriteFields
<1>3. PlanWell'
  BY <1>1 DEF PlanWell, Reading
<1>4. CASE \E fault : RefuseToSend(e, NoCommand, fault)
  <2>1. phase = "idle"
    BY <1>4 DEF RefuseToSend, Begin
  <2> QED
    BY <1>3, <1>4, <2>1, RefusedIsWell DEF BlockWell, HarmlessStep, Harmless
<1>5. CASE Ask(e, BlockWriteCommand(w.block, ThePlant.entries[e].ctx, w.given))
  <2> DEFINE cmd == BlockWriteCommand(w.block, ThePlant.entries[e].ctx, w.given)
  <2>1. MayBeAsked(cmd, ThePlant.entries[e].ctx) /\ Ask(e, cmd)
    BY <1>5, ABlockWriteIsKnown DEF MayBeAsked
  <2> HIDE DEF cmd
  <2> QED
    BY <1>3, <2>1, AskIsWell DEF BlockWell, HarmlessStep, Harmless
<1> QED
  BY <1>2, <1>4, <1>5

\* Every step of BlockPlan.
LEMMA BlockNextIsWell ==
    ASSUME WireInv, PlanWell, MessagesFit, MessagesFit', BlockNext
    PROVE  BlockWell
BY AsideIsWell, BindIsWell, WriteFieldsIsWell, RequestPartIsWell, DecodePartIsWell DEF BlockNext

\* A step of the calls.
CallWell == CallsInv' /\ UNCHANGED plant /\ HarmlessStep

\* A verb at hand stays what it is.
LEMMA TaskMovesOn ==
    ASSUME TaskWell, ~Is("none"), UNCHANGED <<plant, plan>>, NEW at \in {"next", "waiting", "over"},
           NEW got, task' = [task EXCEPT !.at = at, !.got = got],
           at = "over" \/ ~Is("over"), at = "next" => phase' = "idle"
    PROVE  TaskWell'
<1>1. /\ task \in [at : {"next", "waiting", "over"}, entry : DOMAIN ThePlant.entries,
                   verb : {task.verb}, got : {task.got}, before : {task.before}]
      /\ ThePlant' = ThePlant /\ Reading' = Reading
  BY SamePlant DEF TaskWell, Reading
<1>2. /\ task' \in [at : {at}, entry : {task.entry}, verb : {task.verb}, got : {got},
                    before : {task.before}]
  BY <1>1
<1> QED
  BY <1>1, <1>2 DEF TaskWell, Is

\* A plan that is not being carried out stays so.
LEMMA SamePlan ==
    ASSUME PlanWell, ~Reading, UNCHANGED plan
    PROVE  PlanWell'
BY DEF PlanWell, Reading

\* A verb is entered ...
LEMMA EnterIsWell ==
    ASSUME CallsInv, NEW e \in DOMAIN ThePlant.entries, NEW v \in VerbsOf(ThePlant.entries[e]),
           Enter(e, v)
    PROVE  CallWell
<1>1. /\ phase = "idle" /\ ~Reading /\ UNCHANGED plan
      /\ \E at \in {"next", "over"} :
            /\ task' = [at |-> at, entry |-> e, verb |-> v, got |-> <<>>, before |-> memory]
            /\ at = "next" => VerbFault(v, ThePlant.entries[e].ctx) = "none" /\ UNCHANGED vars
            /\ at = "over" => \E fault : RefuseToSend(e, NoCommand, fault)
  BY DEF Enter
<1>2. PICK at \in {"next", "over"} :
          /\ task' = [at |-> at, entry |-> e, verb |-> v, got |-> <<>>, before |-> memory]
          /\ at = "next" => VerbFault(v, ThePlant.entries[e].ctx) = "none" /\ UNCHANGED vars
          /\ at = "over" => \E fault : RefuseToSend(e, NoCommand, fault)
  BY <1>1
<1>3. WireInv' /\ UNCHANGED plant /\ phase' = "idle"
  BY <1>1, <1>2, StutterIsWell, RefusedIsWell DEF CallsInv, vars
<1>4. PlanWell'
  BY <1>1, SamePlan DEF CallsInv
<1>5. ThePlant' = ThePlant /\ ~Reading'
  BY <1>1, <1>3, SamePlant DEF Reading
<1>6. TaskWell'
  BY <1>2, <1>3, <1>5 DEF TaskWell, Is
<1> QED
  BY <1>1, <1>3, <1>4, <1>6 DEF CallWell, CallsInv, HarmlessStep, Harmless

\* ... asks for something or is done ...
LEMMA DecideIsWell ==
    ASSUME CallsInv, Decide
    PROVE  CallWell
<1>1. /\ Is("next") /\ UNCHANGED plan /\ ~Is("none") /\ ~Is("over")
      /\ \E step \in Steps : Request(step) \/ Tell(step)
  BY DEF Decide, Is
<1>2. /\ WireInv /\ PlanWell /\ TaskWell /\ ~Reading /\ phase = "idle" /\ plant \in DOMAIN Plants
      /\ task.entry \in DOMAIN ThePlant.entries
      /\ task.verb \in VerbsOf(ThePlant.entries[task.entry])
      /\ VerbFault(task.verb, ThePlant.entries[task.entry].ctx) = "none"
      /\ task \in [at : {"next", "waiting", "over"}, entry : DOMAIN ThePlant.entries,
                   verb : {task.verb}, got : {task.got}, before : {task.before}]
  BY <1>1 DEF CallsInv, TaskWell, WireInv, WireTypeOK
<1>3. PlanWell'
  BY <1>1, <1>2, SamePlan
<1>4. \A at : [task EXCEPT !.at = at] = [task EXCEPT !.at = at, !.got = task.got]
  BY <1>2
<1>5. ASSUME NEW step \in Steps, Request(step) PROVE CallWell
  <2>1. step.do = "ask" /\ Ask(task.entry, step.cmd) /\ task' = [task EXCEPT !.at = "waiting"]
    BY <1>5 DEF Request
  <2>2. MayBeAsked(step.cmd, ThePlant.entries[task.entry].ctx)
    BY <1>2, <1>5, <2>1, VerbsAsk DEF Steps
  <2>3. WireInv' /\ UNCHANGED plant
    BY <1>2, <2>1, <2>2, AskIsWell
  <2>4. task' = [task EXCEPT !.at = "waiting", !.got = task.got]
    BY <1>4, <2>1
  <2>5. TaskWell'
    BY <1>1, <1>2, <2>3, <2>4, TaskMovesOn
  <2> QED
    BY <1>2, <1>3, <2>3, <2>5 DEF CallWell, CallsInv, HarmlessStep, Harmless
<1>6. ASSUME NEW step \in Steps, Tell(step) PROVE CallWell
  <2>1. /\ \E o : o.kind # "protocol" /\ End(o)
        /\ task' = [task EXCEPT !.at = "over"]
        /\ UNCHANGED <<plant, memory, state, calls, call, last>>
    <3>1. Outcome("value", "none", step.value).kind # "protocol"
          /\ Outcome("raised", step.why, <<>>).kind # "protocol"
      BY DEF Outcome
    <3> QED
      BY <1>6, <3>1 DEF Tell
  <2>2. IsState(state')
    BY <1>2, <2>1, StateIsState
  <2>3. WireInv'
    BY <1>2, <2>1, <2>2, EndIsWell
  <2>4. task' = [task EXCEPT !.at = "over", !.got = task.got]
    BY <1>4, <2>1
  <2>5. TaskWell'
    BY <1>1, <1>2, <2>1, <2>4, TaskMovesOn
  <2> QED
    BY <1>2, <1>3, <2>1, <2>3, <2>5 DEF CallWell, CallsInv, HarmlessStep, Harmless
<1> QED
  BY <1>1, <1>5, <1>6

\* ... waits for its request ...
LEMMA AwaitIsWell ==
    ASSUME CallsInv, MessagesFit, Await
    PROVE  CallWell
<1>1. Is("waiting") /\ UNCHANGED <<task, plan>> /\ (Travel \/ Conclude)
  BY DEF Await
<1>2. WireInv' /\ UNCHANGED plant /\ HarmlessStep
  BY <1>1, TravelIsWell, ConcludeIsWell DEF CallsInv, HarmlessStep, Harmless
<1>3. ~Is("none") /\ ~Is("next") /\ ~Reading
  BY <1>1 DEF CallsInv, TaskWell, Is
<1>4. PlanWell'
  BY <1>1, <1>3, SamePlan DEF CallsInv
<1>5. ThePlant' = ThePlant
  BY <1>2, SamePlant
<1>6. TaskWell'
  BY <1>1, <1>3, <1>5 DEF CallsInv, TaskWell, Is, Reading
<1> QED
  BY <1>2, <1>4, <1>6 DEF CallWell, CallsInv

\* ... and uses its answer.
LEMMA ProceedIsWell ==
    ASSUME CallsInv, Proceed
    PROVE  CallWell
<1>1. /\ Is("waiting") /\ phase = "idle" /\ UNCHANGED vars /\ UNCHANGED plan
      /\ task' = IF outcome.kind \in {"returned", "silent"}
                 THEN [task EXCEPT !.at = "next", !.got = Append(@, outcome.values)]
                 ELSE [task EXCEPT !.at = "over"]
  BY DEF Proceed, planVars
<1>2. UNCHANGED plant /\ phase' = "idle"
  BY <1>1 DEF vars
<1>3. WireInv'
  BY <1>1, StutterIsWell DEF CallsInv
<1>4. /\ ~Is("none") /\ ~Is("over") /\ ~Reading
      /\ task \in [at : {"next", "waiting", "over"}, entry : DOMAIN ThePlant.entries,
                   verb : {task.verb}, got : {task.got}, before : {task.before}]
  BY <1>1 DEF CallsInv, TaskWell, Is
<1>5. PlanWell'
  BY <1>1, <1>4, SamePlan DEF CallsInv
<1>6. \E at \in {"next", "over"} : \E got : task' = [task EXCEPT !.at = at, !.got = got]
  <2>1. [task EXCEPT !.at = "over"] = [task EXCEPT !.at = "over", !.got = task.got]
    BY <1>4
  <2> QED
    BY <1>1, <2>1
<1>7. TaskWell'
  BY <1>1, <1>2, <1>4, <1>6, TaskMovesOn DEF CallsInv
<1> QED
  BY <1>1, <1>2, <1>3, <1>5, <1>7 DEF CallWell, CallsInv, HarmlessStep

\* Every step of Calls.
LEMMA CallsNextIsWell ==
    ASSUME CallsInv, MessagesFit, MessagesFit', [CallsNext]_callVars
    PROVE  CallWell
<1>1. ASSUME Is("none"), BlockNext, UNCHANGED task PROVE CallWell
  <2>1. BlockWell
    BY <1>1, BlockNextIsWell DEF CallsInv
  <2>2. TaskWell'
    BY <1>1 DEF TaskWell, Is
  <2> QED
    BY <2>1, <2>2 DEF BlockWell, CallWell, CallsInv
<1>2. CASE UNCHANGED callVars
  <2>1. UNCHANGED vars /\ UNCHANGED <<plan, task>>
    BY <1>2 DEF callVars, planVars
  <2>2. WireInv'
    BY <2>1, StutterIsWell DEF CallsInv
  <2>3. UNCHANGED <<plant, phase, outcome>>
    BY <2>1 DEF vars
  <2>4. ThePlant' = ThePlant
    BY <2>3, SamePlant
  <2>5. PlanWell' /\ TaskWell'
    BY <2>1, <2>3, <2>4 DEF CallsInv, PlanWell, TaskWell, Reading, Is
  <2> QED
    BY <2>1, <2>2, <2>3, <2>5 DEF CallWell, CallsInv, HarmlessStep
<1> QED
  BY <1>1, <1>2, EnterIsWell, DecideIsWell, AwaitIsWell, ProceedIsWell DEF CallsNext

\* The invariant holds at first.
LEMMA CallsBeginWell ==
    ASSUME CallsInit PROVE CallsInv
<1>1. /\ plant \in DOMAIN Plants /\ calls = 0 /\ phase = "idle" /\ segment = 0 /\ last = <<>>
      /\ outcome = NoOutcome /\ state = [SessionState EXCEPT !.switch_position = ThePlant.switch]
      /\ plan = NoPlan /\ task = NoTask
  BY DEF CallsInit, BlockInit, WireInit
<1>2. ThePlant \in Range(Plants)
  BY <1>1 DEF ThePlant, Range
<1>3. ThePlant.switch \in {RUN, STOP}
  BY <1>2, PlantsAssumption
<1>4. IsState(state)
  BY <1>1, <1>3 DEF IsState, SessionState
<1>5. WireTypeOK
  BY <1>1, <1>4 DEF WireTypeOK, IsState
<1>6. AskedWell /\ AnsweredWell /\ LastWell /\ OutcomeWell
  BY <1>1 DEF AskedWell, AnsweredWell, LastWell, OutcomeWell, NoOutcome, Outcome
<1>7. PlanWell /\ TaskWell
  BY <1>1 DEF PlanWell, TaskWell, Reading, Is, NoPlan, NoTask
<1> QED
  BY <1>5, <1>6, <1>7 DEF CallsInv, WireInv

\* As long as messages fit, every step keeps the invariant.
LEMMA CallsStayWell ==
    CallsSpec /\ []MessagesFit => [](CallsInv /\ MessagesFit)
<1>1. CallsInit => CallsInv
  BY CallsBeginWell
<1>2. CallsInv /\ MessagesFit /\ MessagesFit' /\ [CallsNext]_callVars => CallsInv'
  BY CallsNextIsWell DEF CallWell
<1> QED
  BY <1>1, <1>2, PTL DEF CallsSpec

\* The type invariant, and that a call is answered under its own serial, for any plants,
\* requests, blocks and verbs.
THEOREM WireTyped == CallsSpec /\ []MessagesFit => []WireTypeOK
<1>1. CallsInv => WireTypeOK
  BY DEF CallsInv, WireInv
<1> QED
  BY <1>1, CallsStayWell, PTL

\* A receiver asks for no more than is still to come and has the answer with its last
\* unit, and the frames of a CPU that answers in order are taken, for every plant, request
\* and answer that fits and every way the answer is cut (ResponseAccumulator).
THEOREM EveryAnswerIsTaken == CallsSpec /\ []MessagesFit => []AnswersAreTaken
<1>1. CallsInv => AnswersAreTaken
  BY Heard DEF CallsInv, WireInv, OutcomeWell, AnswersAreTaken
<1> QED
  BY <1>1, CallsStayWell, PTL

\* A command that does not mutate changes nothing at the CPU, and nothing starts or stops
\* it but for a client that may, for every request of every verb, block and caller whose
\* own commands are described as the table does (`COMMANDS`, `_transact`).
THEOREM HarmlessStaysHarmless == CallsSpec /\ []MessagesFit => HarmlessIsHarmless
<1>1. CallsInv /\ MessagesFit /\ MessagesFit' /\ [CallsNext]_callVars => [Harmless]_vars
  BY CallsNextIsWell DEF CallWell, HarmlessStep
<1> QED
  BY <1>1, CallsStayWell, PTL DEF CallsSpec, HarmlessIsHarmless, Harmless

-----------------------------------------------------------------------------
(***************************************************************************)
(* Batch calls, from the caller to the memory and back.                    *)
(***************************************************************************)

\* What a batch command returns of a memory, and the memory it leaves behind.
BatchThere(cmd, at, m) ==
    CASE cmd.name = "ReadWords" -> WordsFrom(m, at, cmd.count)
      [] cmd.name = "ReadBits"  -> BitsFrom(m, at, cmd.count)
      [] OTHER -> <<>>
BatchLeaves(cmd, at, m) ==
    CASE cmd.name = "WriteWords" -> WriteWordsAt(m, at.type, at.index, TwosComplement(cmd.values))
      [] cmd.name = "WriteBits"  -> WriteCells(m, at.type, at.index, cmd.values)
      [] OTHER -> m

\* What a batch command may be refused for.
BatchFaults ==
    {"unsupported_subcommand", "password_locked", "zero_point_count", "batch_word_limit",
     "batch_bit_limit", "device_absent", "address_out_of_range", "device_not_allowed_here"}

\* The CPU has refused, and nothing has changed; or it has done what it was asked.
IsRefusal(target, m, served) ==
    served.memory = m /\ \E fault \in BatchFaults : served.end_code = target.end_codes[fault]
IsDone(cmd, at, m, ctx, served) ==
    /\ served.end_code = 0 /\ served.memory = BatchLeaves(cmd, at, m)
    /\ DecodeFault(cmd, served.payload, ctx) = "none"
    /\ Decode(cmd, served.payload, ctx) = BatchThere(cmd, at, m)
IsHandled(s, cmd, at, ctx, served) ==
    IsRefusal(s.target, s.memory, served) \/ IsDone(cmd, at, s.memory, ctx, served)

\* Every one of them has an end code.
LEMMA FaultsHaveCodes == BatchFaults \subseteq DOMAIN EndCodePolicy /\ "none" \notin BatchFaults
BY DEF BatchFaults, EndCodePolicy

\* Either of two faults is a fault.
LEMMA EitherFault ==
    ASSUME NEW F, NEW a \in F \cup {"none"}, NEW b \in F \cup {"none"}
    PROVE  a ?? b \in F \cup {"none"}
BY DEF ??

\* The checks of a batch command give these.
LEMMA ChecksOfBatch ==
    ASSUME NEW s, NEW count, NEW device
    PROVE  /\ CheckBatch(s, count) \in BatchFaults \cup {"none"}
           /\ ReadFault(s, device, count) \in BatchFaults \cup {"none"}
           /\ RequireBitDevice(device) \in BatchFaults \cup {"none"}
           /\ BitSpanFault(s, device, count) \in BatchFaults \cup {"none"}
<1>1. CheckBatch(s, count) \in BatchFaults \cup {"none"}
  BY EitherFault DEF CheckBatch, CheckCount, Refuse, BatchFaults
<1>2. ReadFault(s, device, count) \in BatchFaults \cup {"none"}
  BY DEF ReadFault, WordsFault, BatchFaults
<1>3. RequireBitDevice(device) \in BatchFaults \cup {"none"}
  BY DEF RequireBitDevice, Refuse, BatchFaults
<1>4. BitSpanFault(s, device, count) \in BatchFaults \cup {"none"}
  BY DEF BitSpanFault, BitsFault, BatchFaults
<1> QED
  BY <1>1, <1>2, <1>3, <1>4

\* What is handled unless there is something against it is handled.
LEMMA UnlessHandled ==
    ASSUME NEW s, NEW fault \in BatchFaults \cup {"none"}, NEW o, NEW cmd, NEW at, NEW ctx,
           fault = "none" => IsHandled(s, cmd, at, ctx, o)
    PROVE  IsHandled(s, cmd, at, ctx, Unless(s, fault, o))
<1>1. CASE fault = "none"
  BY <1>1 DEF Unless
<1>2. CASE fault # "none"
  <2>1. Unless(s, fault, o) = Refusal(s, fault) /\ fault \in BatchFaults
    BY <1>2 DEF Unless
  <2>2. Refusal(s, fault).memory = s.memory /\ Refusal(s, fault).end_code = s.target.end_codes[fault]
    BY DEF Refusal, Reply
  <2> QED
    BY <2>1, <2>2 DEF IsHandled, IsRefusal
<1> QED
  BY <1>1, <1>2

\* A fold over one element is one step.
LEMMA OneWrite ==
    ASSUME NEW s, NEW w
    PROVE  LET fault == WordsFault(s.target.profile.devices, w.device.type, w.device.index, Len(w.values))
           IN  WriteInTurn(s, <<w>>)
                  = IF fault # "none" THEN [memory |-> s.memory, fault |-> fault]
                    ELSE [memory |-> WriteWordsAt(s.memory, w.device.type, w.device.index, w.values),
                          fault |-> "none"]
<1> DEFINE put(got, x) ==
              LET fault == WordsFault(s.target.profile.devices, x.device.type, x.device.index, Len(x.values))
              IN  CASE got.fault # "none" -> got
                    [] fault # "none" -> [got EXCEPT !.fault = fault]
                    [] OTHER -> [got EXCEPT !.memory = WriteWordsAt(@, x.device.type, x.device.index, x.values)]
           base == [memory |-> s.memory, fault |-> "none"]
           D == DOMAIN <<w>>
           F(f) == [S \in SUBSET D |-> IF S = {} THEN base ELSE put(f[S \ {Max(S)}], <<w>>[Max(S)])]
           fold == CHOOSE f : f = F(f)
           g == [S \in SUBSET D |-> IF S = {} THEN base ELSE put(base, w)]
<1>1. WriteInTurn(s, <<w>>) = fold[D]
  BY DEF WriteInTurn, FoldLeft, MapThenFoldSet
<1>2. D = {1} /\ <<w>>[1] = w
  OBVIOUS
<1>3. put(base, w) = IF WordsFault(s.target.profile.devices, w.device.type, w.device.index, Len(w.values)) # "none"
                     THEN [memory |-> s.memory,
                           fault |-> WordsFault(s.target.profile.devices, w.device.type, w.device.index,
                                                Len(w.values))]
                     ELSE [memory |-> WriteWordsAt(s.memory, w.device.type, w.device.index, w.values),
                           fault |-> "none"]
  OBVIOUS
<1> HIDE DEF D, put, base
<1>4. SUBSET D = {{}, {1}} /\ Max(D) = 1 /\ D \ {1} = {}
  BY <1>2 DEF Max
<1>5. {} \in SUBSET D /\ D \in SUBSET D /\ D # {} /\ <<w>>[Max(D)] = w
  BY <1>2, <1>4
<1>6. g = F(g)
  <2>1. g[{}] = base
    BY <1>5
  <2>2. ASSUME NEW S \in SUBSET D
        PROVE  g[S] = F(g)[S]
    <3>1. CASE S = {}
      BY <3>1
    <3>2. CASE S = D
      <4>1. F(g)[D] = put(g[D \ {Max(D)}], <<w>>[Max(D)])
        BY <1>5
      <4>2. g[D] = put(base, w)
        BY <1>5
      <4> HIDE DEF g, F
      <4> QED
        BY <1>4, <1>5, <2>1, <3>2, <4>1, <4>2
    <3> QED
      BY <1>2, <1>4, <3>1, <3>2
  <2> QED
    BY <2>2
<1> HIDE DEF g
<1>7. fold = F(fold)
  <2> HIDE DEF F
  <2> QED
    BY <1>6
<1> HIDE DEF fold
<1>8. fold[{}] = base /\ fold[D] = put(fold[D \ {1}], w)
  <2>1. F(fold)[{}] = base /\ F(fold)[D] = put(fold[D \ {Max(D)}], <<w>>[Max(D)])
    BY <1>5
  <2> HIDE DEF F
  <2> QED
    BY <1>4, <1>5, <1>7, <2>1
<1> QED
  BY <1>1, <1>3, <1>4, <1>8

\* What the CPU makes of the subcommand of a batch command (wire/subcommand.py).
LEMMA SubcommandsBack ==
    ASSUME NEW unit \in {"bit", "word"}, NEW spec \in {"short", "long"}
    PROVE  /\ Subcommand(unit, spec) \in KnownSubcommands
           /\ SubcommandUnit(Subcommand(unit, spec)) = unit
           /\ SubcommandSpec(Subcommand(unit, spec)) = spec
           /\ ~Extended(Subcommand(unit, spec))
<1> DEFINE b == IF unit = "bit" THEN BIT_UNITS ELSE 0
           l == IF spec = "long" THEN LONG_SPEC ELSE 0
<1>1. b \in {0, BIT_UNITS} /\ l \in {0, LONG_SPEC} /\ 0 \in {0, EXTENSION}
  OBVIOUS
<1>2. Subcommand(unit, spec) = b + l + 0
  BY DEF Subcommand, BIT_UNITS, LONG_SPEC
<1>3. Subcommand(unit, spec) \in KnownSubcommands
  <2> HIDE DEF b, l
  <2>1. \E x \in {0, BIT_UNITS}, y \in {0, LONG_SPEC}, z \in {0, EXTENSION} :
            Subcommand(unit, spec) = x + y + z
    BY <1>1, <1>2
  <2> QED
    BY <2>1 DEF KnownSubcommands, BIT_UNITS, LONG_SPEC, EXTENSION
<1> DEFINE sub == b + l
<1>4. Subcommand(unit, spec) = sub
  BY DEF Subcommand
<1>5. /\ (sub % 2 = 1 <=> unit = "bit") /\ ((sub \div 2) % 2 = 1 <=> spec = "long") /\ sub < 128
  <2>1. CASE unit = "bit" /\ spec = "short"
    BY <2>1 DEF BIT_UNITS, LONG_SPEC
  <2>2. CASE unit = "bit" /\ spec = "long"
    BY <2>2 DEF BIT_UNITS, LONG_SPEC
  <2>3. CASE unit = "word" /\ spec = "short"
    BY <2>3 DEF BIT_UNITS, LONG_SPEC
  <2>4. CASE unit = "word" /\ spec = "long"
    BY <2>4 DEF BIT_UNITS, LONG_SPEC
  <2> QED
    BY <2>1, <2>2, <2>3, <2>4
<1>6. /\ SubcommandUnit(sub) = IF sub % 2 = 1 THEN "bit" ELSE "word"
      /\ SubcommandSpec(sub) = IF (sub \div 2) % 2 = 1 THEN "long" ELSE "short"
      /\ Extended(sub) <=> sub >= 128
  BY DEF SubcommandUnit, SubcommandSpec, Extended, BIT_UNITS, LONG_SPEC, EXTENSION
<1>7. sub \in Nat
  BY DEF BIT_UNITS, LONG_SPEC
<1> HIDE DEF sub
<1> QED
  BY <1>3, <1>4, <1>5, <1>6, <1>7

\* The context a batch command is served in.
ServingBatch(target, m, st, ctx, unit) ==
    [target |-> target, memory |-> m, state |-> st, codec |-> Coding(ctx.encoding),
     encoding |-> ctx.encoding, spec |-> ctx.spec, unit |-> unit]

\* A write is answered with nothing.
LEMMA NothingToDecode ==
    ASSUME NEW cmd, cmd.name \in {"WriteWords", "WriteBits"}, NEW ctx, NEW at, NEW m
    PROVE  /\ DecodeFault(cmd, <<>>, ctx) = "none"
           /\ Decode(cmd, <<>>, ctx) = BatchThere(cmd, at, m)
<1>1. AnswerLen(cmd, ctx) = 0
  BY DEF AnswerLen, Batches, BatchAnswerLen, BatchCode
<1>2. DecodeFault(cmd, <<>>, ctx) = "none"
  BY <1>1 DEF DecodeFault, Refuse, ??
<1>3. Decode(cmd, <<>>, ctx) = <<>> /\ BatchThere(cmd, at, m) = <<>>
  BY DEF Decode, Batches, DecodeBatch, BatchThere
<1> QED
  BY <1>2, <1>3

\* What was written is done, or nothing was.
LEMMA WrittenHandled ==
    ASSUME NEW s, IsServing(s), NEW cmd, cmd.name = "WriteWords", NEW at, NEW ctx
    PROVE  IsHandled(s, cmd, at, ctx,
                     Written(s, <<[device |-> at, values |-> TwosComplement(cmd.values)]>>))
<1> DEFINE w == [device |-> at, values |-> TwosComplement(cmd.values)]
           fault == WordsFault(s.target.profile.devices, w.device.type, w.device.index, Len(w.values))
           end == WriteInTurn(s, <<w>>)
           after == [s EXCEPT !.memory = end.memory]
           o == Written(s, <<w>>)
<1>1. end = IF fault # "none" THEN [memory |-> s.memory, fault |-> fault]
            ELSE [memory |-> WriteWordsAt(s.memory, w.device.type, w.device.index, w.values),
                  fault |-> "none"]
  BY OneWrite
<1>2. BatchLeaves(cmd, at, s.memory) = WriteWordsAt(s.memory, w.device.type, w.device.index, w.values)
  BY DEF BatchLeaves
<1>3. o = Unless(after, end.fault, Reply(after, <<>>))
  BY DEF Written, Ended
<1>4. fault \in BatchFaults \cup {"none"}
  BY DEF WordsFault, BatchFaults
<1> HIDE DEF fault, end, w, o
<1>5. after.memory = end.memory /\ after.target = s.target
  BY DEF IsServing
<1> HIDE DEF after
<1>6. CASE fault = "none"
  <2>1. o = Reply(after, <<>>) /\ after.memory = BatchLeaves(cmd, at, s.memory)
    BY <1>1, <1>2, <1>3, <1>5, <1>6 DEF Unless
  <2>2. o.end_code = 0 /\ o.memory = BatchLeaves(cmd, at, s.memory) /\ o.payload = <<>>
    BY <2>1 DEF Reply
  <2> QED
    BY <2>2, NothingToDecode DEF IsHandled, IsDone, o, w
<1>7. CASE fault # "none"
  <2>1. o = Refusal(after, fault) /\ after.memory = s.memory
    BY <1>1, <1>3, <1>5, <1>7 DEF Unless
  <2>2. o.memory = s.memory /\ o.end_code = s.target.end_codes[fault]
    BY <1>5, <2>1 DEF Refusal, Reply
  <2> QED
    BY <1>4, <1>7, <2>2 DEF IsHandled, IsRefusal, o, w
<1> QED
  BY <1>6, <1>7

\* What is read is done.
LEMMA ReadIsDone ==
    ASSUME NEW s, NEW cmd, NEW at, NEW ctx, cmd.name \in {"ReadWords", "ReadBits"}, NEW payload,
           DecodeFault(cmd, payload, ctx) = "none",
           Decode(cmd, payload, ctx) = BatchThere(cmd, at, s.memory)
    PROVE  IsHandled(s, cmd, at, ctx, Reply(s, payload))
BY DEF IsHandled, IsDone, BatchLeaves, Reply

\* Words that are read are of the length and the shape that was announced.
LEMMA WordsDecoded ==
    ASSUME NEW ctx, ctx.codec \in Codecs, NEW cmd, cmd.name = "ReadWords", NEW values, IsWords(values),
           Len(values) = cmd.count
    PROVE  DecodeFault(cmd, Words(ctx.codec, values), ctx) = "none"
<1> DEFINE c == ctx.codec
           payload == Words(c, values)
<1>1. payload \in Seq(Unit(c)) /\ Len(payload) = WordDataLen(c, Len(values))
  BY WordsUnits
<1>2. AnswerLen(cmd, ctx) = WordDataLen(c, cmd.count)
  BY DEF AnswerLen, Batches, BatchAnswerLen, BatchCode, BatchDataLen, BatchUnit, BatchPoints
<1> HIDE DEF payload
<1>3. Legible(c, payload)
  BY <1>1 DEF Legible, Unit, Range
<1> QED
  BY <1>1, <1>2, <1>3 DEF DecodeFault, Refuse, ??, payload

\* And bits.
LEMMA BitsDecoded ==
    ASSUME NEW ctx, ctx.codec \in Codecs, NEW cmd, cmd.name = "ReadBits", NEW values, IsBits(values),
           Len(values) = cmd.count, Decode(cmd, Bits(ctx.codec, values), ctx) = values
    PROVE  DecodeFault(cmd, Bits(ctx.codec, values), ctx) = "none"
<1> DEFINE c == ctx.codec
           payload == Bits(c, values)
<1>1. Len(payload) = BitDataLen(c, Len(values))
  BY BitsUnits
<1>2. AnswerLen(cmd, ctx) = BitDataLen(c, cmd.count)
  BY DEF AnswerLen, Batches, BatchAnswerLen, BatchCode, BatchDataLen, BatchUnit, BatchPoints
<1>3. values # NoPoints
  <2>1. \A i \in DOMAIN values : values[i] \in {0, 1}
    BY DEF IsBits
  <2>2. 1 \in DOMAIN NoPoints /\ NoPoints[1] \notin {0, 1}
    BY DEF NoPoints, NoNumber
  <2> QED
    BY <2>1, <2>2
<1> HIDE DEF payload
<1> QED
  BY <1>1, <1>2, <1>3 DEF DecodeFault, Refuse, ??, payload

\* What a batch handler comes to, of each of the four commands.
LEMMA BatchServed ==
    ASSUME NEW s, IsServing(s), NEW ctx, Served(s, ctx), NEW cmd, cmd.name \in Batches,
           s.unit = BatchUnit(cmd), NEW at, Denotes(ctx, cmd, at), BatchData(cmd, at, s.memory)
    PROVE  IsHandled(s, cmd, at, ctx, Handler(s, BatchCode(cmd), Start(EncodeBatch(cmd, ctx))))
<1> DEFINE k == Start(EncodeBatch(cmd, ctx))
           o == Handler(s, BatchCode(cmd), k)
<1>1. ctx.codec \in Codecs
  BY DEF Served
<1>2. CASE cmd.name = "ReadWords"
  <2> DEFINE there == WordsAt(s, at, cmd.count)
             fault == CheckBatch(s, cmd.count) ?? ReadFault(s, at, cmd.count)
             payload == Words(ctx.codec, there)
  <2>1. CountFits(cmd.count) /\ IsWords(there) /\ s.unit = "word" /\ there = WordsFrom(s.memory, at, cmd.count)
    BY <1>2 DEF BatchData, BatchUnit, WordsAt, WordsFrom
  <2>2. o = HandleBatchRead(s, k)
    BY <1>2 DEF BatchCode, Handler
  <2> HIDE DEF k
  <2>3. HandleBatchRead(s, k) = Unless(s, fault, Reply(s, payload)) /\ DecodeBatch(cmd, payload, ctx) = there
    BY <1>2, <2>1, WordsAreRead DEF k
  <2>4. Len(there) = cmd.count
    <3>1. there = [i \in 1 .. cmd.count |-> there[i]] /\ cmd.count \in Nat
      BY <2>1 DEF WordsAt, MemoryWords, CountFits
    <3> HIDE DEF there
    <3> QED
      BY <3>1
  <2>5. DecodeFault(cmd, payload, ctx) = "none"
    BY <1>1, <1>2, <2>1, <2>4, WordsDecoded
  <2>6. fault \in BatchFaults \cup {"none"}
    BY ChecksOfBatch, EitherFault
  <2>7. Decode(cmd, payload, ctx) = there /\ BatchThere(cmd, at, s.memory) = there
    BY <1>2, <2>1, <2>3 DEF Decode, Batches, BatchThere
  <2> HIDE DEF there, fault, payload, o
  <2>8. IsHandled(s, cmd, at, ctx, Reply(s, payload))
    BY <1>2, <2>5, <2>7, ReadIsDone
  <2>9. IsHandled(s, cmd, at, ctx, Unless(s, fault, Reply(s, payload)))
    BY <2>6, <2>8, UnlessHandled
  <2> QED
    BY <2>2, <2>3, <2>9 DEF o, k
<1>3. CASE cmd.name = "ReadBits"
  <2> DEFINE there == MemoryBits(s.memory, at.type, at.index, cmd.count)
             fault == CheckBatch(s, cmd.count) ?? (RequireBitDevice(at) ?? BitSpanFault(s, at, cmd.count))
             payload == Bits(ctx.codec, there)
  <2>1. CountFits(cmd.count) /\ IsBits(there) /\ s.unit = "bit" /\ there = BitsFrom(s.memory, at, cmd.count)
    BY <1>3 DEF BatchData, BatchUnit, BitsFrom
  <2>2. o = HandleBatchRead(s, k)
    BY <1>3 DEF BatchCode, Handler
  <2> HIDE DEF k
  <2>3. HandleBatchRead(s, k) = Unless(s, fault, Reply(s, payload)) /\ DecodeBatch(cmd, payload, ctx) = there
    BY <1>3, <2>1, BitsAreRead DEF k
  <2>4. Len(there) = cmd.count
    <3>1. there = [i \in 1 .. cmd.count |-> there[i]] /\ cmd.count \in Nat
      BY <2>1 DEF MemoryBits, CountFits
    <3> HIDE DEF there
    <3> QED
      BY <3>1
  <2>5. fault \in BatchFaults \cup {"none"}
    BY ChecksOfBatch, EitherFault
  <2>6. Decode(cmd, payload, ctx) = there /\ BatchThere(cmd, at, s.memory) = there
    BY <1>3, <2>1, <2>3 DEF Decode, Batches, BatchThere
  <2> HIDE DEF there, fault, o
  <2>7. DecodeFault(cmd, payload, ctx) = "none"
    BY <1>1, <1>3, <2>1, <2>4, <2>6, BitsDecoded
  <2> HIDE DEF payload
  <2>8. IsHandled(s, cmd, at, ctx, Reply(s, payload))
    BY <1>3, <2>6, <2>7, ReadIsDone
  <2>9. IsHandled(s, cmd, at, ctx, Unless(s, fault, Reply(s, payload)))
    BY <2>5, <2>8, UnlessHandled
  <2> QED
    BY <2>2, <2>3, <2>9 DEF o, k
<1>4. CASE cmd.name = "WriteWords"
  <2> DEFINE fault == CheckBatch(s, Len(cmd.values))
             done == Written(s, <<[device |-> at, values |-> TwosComplement(cmd.values)]>>)
  <2>1. CountFits(Len(cmd.values)) /\ cmd.values \in Seq(Int) /\ s.unit = "word"
    BY <1>4 DEF BatchData, BatchUnit
  <2>2. o = HandleBatchWrite(s, k)
    BY <1>4 DEF BatchCode, Handler
  <2> HIDE DEF k
  <2>3. HandleBatchWrite(s, k) = Unless(s, fault, done)
    BY <1>4, <2>1, WordsAreWritten DEF k
  <2>4. fault \in BatchFaults \cup {"none"} /\ IsHandled(s, cmd, at, ctx, done)
    BY <1>4, ChecksOfBatch, WrittenHandled
  <2> HIDE DEF fault, done, o
  <2>5. IsHandled(s, cmd, at, ctx, Unless(s, fault, done))
    BY <2>4, UnlessHandled
  <2> QED
    BY <2>2, <2>3, <2>5 DEF o, k
<1>5. CASE cmd.name = "WriteBits"
  <2> DEFINE fault == CheckBatch(s, Len(cmd.values)) ?? RequireBitDevice(at)
             span == BitSpanFault(s, at, Len(cmd.values))
             after == [s EXCEPT !.memory = WriteCells(@, at.type, at.index, cmd.values)]
             done == Reply(after, <<>>)
  <2>1. CountFits(Len(cmd.values)) /\ IsBits(cmd.values) /\ s.unit = "bit"
    BY <1>5 DEF BatchData, BatchUnit
  <2>2. o = HandleBatchWrite(s, k)
    BY <1>5 DEF BatchCode, Handler
  <2> HIDE DEF k
  <2>3. HandleBatchWrite(s, k) = Unless(s, fault, Unless(s, span, done))
    BY <1>5, <2>1, BitsAreWritten DEF k
  <2>4. after.memory = BatchLeaves(cmd, at, s.memory)
    BY <1>5 DEF IsServing, BatchLeaves
  <2>5. done.end_code = 0 /\ done.memory = BatchLeaves(cmd, at, s.memory) /\ done.payload = <<>>
    BY <2>4 DEF Reply
  <2>6. fault \in BatchFaults \cup {"none"} /\ span \in BatchFaults \cup {"none"}
    BY ChecksOfBatch, EitherFault
  <2> HIDE DEF fault, span, done, o
  <2>7. IsHandled(s, cmd, at, ctx, done)
    BY <1>5, <2>5, NothingToDecode DEF IsHandled, IsDone
  <2>8. IsHandled(s, cmd, at, ctx, Unless(s, span, done))
    BY <2>6, <2>7, UnlessHandled
  <2>9. IsHandled(s, cmd, at, ctx, Unless(s, fault, Unless(s, span, done)))
    BY <2>6, <2>8, UnlessHandled
  <2> QED
    BY <2>2, <2>3, <2>9 DEF o, k
<1> QED
  BY <1>2, <1>3, <1>4, <1>5 DEF Batches

\* A batch command as the CPU meets it: refused, with nothing changed, or done as it was
\* meant (Dispatcher.handle, commands/batch.py).
LEMMA BatchHandled ==
    ASSUME NEW target, IsProfile(target.profile), NEW m, NEW st, m = PublishState(m, st),
           NEW ctx, IsContext(ctx), ctx.codec \in Codecs, NEW cmd, cmd.name \in Batches, NEW at,
           SameBases([target |-> target, encoding |-> ctx.encoding], ctx),
           Denotes(ctx, cmd, at), BatchData(cmd, at, m),
           NEW request, request.command = BatchCode(cmd),
           request.subcommand = Subcommand(BatchUnit(cmd), ctx.spec),
           request.payload = EncodeBatch(cmd, ctx),
           NEW served, served = Handle(target, m, st, ctx.encoding, request)
    PROVE  IsRefusal(target, m, served) \/ IsDone(cmd, at, m, ctx, served)
<1> DEFINE s == ServingBatch(target, m, st, ctx, BatchUnit(cmd))
           sub == request.subcommand
           fault == Refuse(sub \notin KnownSubcommands, "unsupported_subcommand")
                    ?? Refuse(st.password_locked /\ request.command \notin PASSWORD_EXEMPT_COMMANDS,
                              "password_locked")
                    ?? Refuse(Extended(sub) \/ ~SupportsSpec(target, s.spec), "unsupported_subcommand")
           done == Handler(s, request.command, Start(request.payload))
<1>1. BatchUnit(cmd) \in {"bit", "word"} /\ ctx.spec \in {"short", "long"} /\ ctx.codec = Coding(ctx.encoding)
  BY DEF BatchUnit, IsContext
<1>2. SubcommandUnit(sub) = BatchUnit(cmd) /\ SubcommandSpec(sub) = ctx.spec
  BY <1>1, SubcommandsBack
<1>3. served = Unless(s, fault, done)
  BY <1>2 DEF Handle, ServingBatch
<1>4. /\ IsServing(s) /\ s.unit = BatchUnit(cmd) /\ s.memory = m /\ s.target = target
      /\ s.codec = ctx.codec /\ s.spec = ctx.spec /\ s.encoding = ctx.encoding
  BY <1>1 DEF IsServing, ServingBatch
<1>5. fault \in BatchFaults \cup {"none"}
  BY EitherFault DEF Refuse, BatchFaults
<1> HIDE DEF s, fault
<1>6. SameBases(s, ctx)
  BY <1>4 DEF SameBases, NumberBase
<1>7. Served(s, ctx)
  BY <1>1, <1>4, <1>6 DEF Served
<1>8. IsHandled(s, cmd, at, ctx, done)
  BY <1>4, <1>7, BatchServed
<1> HIDE DEF done
<1>9. IsHandled(s, cmd, at, ctx, served)
  BY <1>3, <1>5, <1>8, UnlessHandled
<1> QED
  BY <1>4, <1>9 DEF IsHandled
-----------------------------------------------------------------------------
(***************************************************************************)
(* What a client accepts, its CPU serves.                                  *)
(***************************************************************************)

\* What a client cannot know of a family beforehand: a range it has not, and points of two words.
Beyond(target, dt) == dt.words_per_point = 2 \/ target.profile.devices[dt].kind = "no_static_range"

\* Every family is counted in bits, words or double words.
LEMMA UnitsOfFamilies ==
    \A dt \in DEVICE_TABLE : dt.unit \in {"bit", "word"} /\ dt.words_per_point \in {1, 2}
                             /\ (dt.unit = "bit" => dt.words_per_point = 1)
BY DEF DEVICE_TABLE, DeviceType, Device_B, Device_BL, Device_CC, Device_CN, Device_CS, Device_D, Device_DX,
     Device_DY, Device_F, Device_G, Device_L, Device_LCC, Device_LCN, Device_LCS,
     Device_LSTC, Device_LSTN, Device_LSTS, Device_LTC, Device_LTN, Device_LTS,
     Device_LZ, Device_M, Device_R, Device_RD, Device_S, Device_SB, Device_SD,
     Device_SM, Device_STC, Device_STN, Device_STS, Device_SW, Device_TC, Device_TN,
     Device_TS, Device_V, Device_W, Device_X, Device_Y, Device_Z, Device_ZR

\* What ValidateBatch has looked at.
LEMMA BatchValidated ==
    ASSUME NEW cmd, NEW ctx, ctx.validate_ranges, ValidateBatch(cmd, ctx) = "none"
    PROVE  LET address == Resolve(ctx, cmd.address)
               n       == BatchPoints(cmd)
               key     == <<BatchCode(cmd), ctx.encoding, BatchUnit(cmd), ctx.link>>
           IN  /\ RequireSpec(ctx) = "none"
               /\ CheckRange(ctx.profile, address, n, BatchUnit(cmd)) = "none"
               /\ CheckPoints(ctx.profile, key,
                              IF BatchUnit(cmd) = "bit" THEN Points(0, 0, n, 0) ELSE Points(n, 0, 0, 0)) = "none"
<1> DEFINE address == Resolve(ctx, cmd.address)
           n       == BatchPoints(cmd)
           key     == <<BatchCode(cmd), ctx.encoding, BatchUnit(cmd), ctx.link>>
           a == Require(ctx.profile, "batch-access")
           b == RequireSpec(ctx)
           c == ResolveFault(ctx, cmd.address)
           d == Refuse("batch" \notin address.type.uses, "not_allowed")
           e == CheckSpan(ctx, address, n, BatchUnit(cmd))
           f == CheckPoints(ctx.profile, key,
                            IF BatchUnit(cmd) = "bit" THEN Points(0, 0, n, 0) ELSE Points(n, 0, 0, 0))
<1>1. a ?? b ?? c ?? d ?? e ?? f = "none"
  BY DEF ValidateBatch
<1>2. e = CheckRange(ctx.profile, address, n, BatchUnit(cmd))
  BY DEF CheckSpan
<1> HIDE DEF a, b, c, d, e, f
<1>3. b = "none" /\ e = "none" /\ f = "none"
  BY <1>1, NoneOfBoth
<1> QED
  BY <1>2, <1>3 DEF b, f

\* A count that a client takes is not too many for its CPU.
LEMMA CountIsTaken ==
    ASSUME NEW s, NEW profile, NEW code \in {1025, 5121}, NEW link, s.unit \in {"bit", "word"}, NEW n \in Nat,
           WithinLimits(profile.limits, s.target),
           CheckPoints(profile, <<code, s.encoding, s.unit, link>>,
                       IF s.unit = "bit" THEN Points(0, 0, n, 0) ELSE Points(n, 0, 0, 0)) = "none"
    PROVE  CheckBatch(s, n) = "none"
<1> DEFINE key == <<code, s.encoding, s.unit, link>>
           rule == profile.limits[key]
           points == IF s.unit = "bit" THEN Points(0, 0, n, 0) ELSE Points(n, 0, 0, 0)
           most == MostPoints(s.target, s.encoding, s.unit)
<1>1. key[1] = code /\ key[2] = s.encoding /\ key[3] = s.unit
  OBVIOUS
<1>2. points.word + points.dword + points.bit = n /\ points.blocks = 0 /\ n + 0 = n
  BY DEF Points
<1> HIDE DEF key, points
<1>3. key \in DOMAIN profile.limits /\ n # 0 /\ ~Exceeded(rule, points)
  BY <1>2 DEF CheckPoints, key, points
<1>4. rule.shape = "flat" /\ rule.max \in Nat /\ most \in Nat /\ rule.max <= most
  BY <1>1, <1>3 DEF WithinLimits
<1>5. ~(n > rule.max)
  BY <1>2, <1>3, <1>4 DEF Exceeded
<1>6. n <= most
  BY <1>4, <1>5
<1>7. CheckBatch(s, n) = CheckCount(n, most, IF s.unit = "bit" THEN "batch_bit_limit" ELSE "batch_word_limit")
  BY DEF CheckBatch, MostPoints
<1> HIDE DEF most
<1> QED
  BY <1>3, <1>4, <1>6, <1>7 DEF CheckCount, Refuse, ??

\* Points that a client has looked at are there at the CPU, all of them.
LEMMA SpanIsThere ==
    ASSUME NEW profile, NEW target, IsProfile(target.profile), profile.devices = target.profile.devices,
           NEW at, at.type \in DEVICE_TABLE, at.index \in Nat, NEW n \in Nat, NEW unit \in {"bit", "word"},
           CheckRange(profile, at, n, unit) = "none", ~Beyond(target, at.type)
    PROVE  /\ unit = "word" => WordsFault(target.profile.devices, at.type, at.index, n) = "none"
           /\ unit = "bit" => /\ RequireBitDevice(at) = "none"
                              /\ BitsFault(target.profile.devices, at.type, at.index, n) = "none"
<1> DEFINE r == profile.devices[at.type]
           ranges == target.profile.devices
           span == SpanOf(at, n, unit)
<1>1. r = ranges[at.type] /\ r.kind \in RangeKinds /\ r.kind # "no_static_range" /\ at.type.words_per_point # 2
  BY DEF IsProfile, IsRange, Beyond
<1>2. at.type.unit \in {"bit", "word"} /\ at.type.words_per_point = 1
  BY <1>1, UnitsOfFamilies
<1>3. RequirePresent(profile, at) = "none" /\ RequireWidth(at, unit) = "none" /\ n # 0
      /\ ~(r.kind = "span" /\ (at.index < r.first \/ at.index + span - 1 > r.last))
  BY DEF CheckRange
<1>4. r.kind = "span"
  BY <1>1, <1>3 DEF RequirePresent, RangeKinds
<1>5. span = IF unit = "word" /\ at.type.unit = "bit" THEN 16 * n ELSE n
  BY <1>2 DEF SpanOf
<1>6. span \in Nat
  BY <1>5
<1> HIDE DEF r, span
<1>7. ~(at.index < r.first) /\ ~(at.index + span - 1 > r.last)
  BY <1>3, <1>4
<1>8. at.index >= r.first /\ at.index + span - 1 <= r.last
  <2>1. r.first \in Nat /\ r.last \in Nat
    BY <1>4 DEF IsProfile, IsRange, r
  <2> QED
    BY <1>6, <1>7, <2>1
<1>9. HasRange(ranges, at.type) /\ InSpan(ranges, at.type, at.index, span)
  BY <1>1, <1>4, <1>8 DEF HasRange, InSpan
<1> HIDE DEF ranges
<1>10. CASE unit = "word"
  <2>1. span = IF at.type.unit = "bit" THEN 16 * n ELSE n
    BY <1>5, <1>10
  <2>2. InSpan(ranges, at.type, at.index, IF at.type.unit = "bit" THEN 16 * n ELSE n)
    BY <1>9, <2>1
  <2>3. WordsFault(ranges, at.type, at.index, n) = "none"
    BY <1>2, <1>9, <2>2 DEF WordsFault
  <2> QED
    BY <1>10, <2>3 DEF ranges
<1>11. CASE unit = "bit"
  <2>1. at.type.unit = "bit" /\ span = n
    BY <1>2, <1>3, <1>5, <1>11 DEF RequireWidth
  <2>2. BitsFault(ranges, at.type, at.index, n) = "none" /\ RequireBitDevice(at) = "none"
    BY <1>9, <2>1 DEF BitsFault, RequireBitDevice, Refuse
  <2> QED
    BY <1>11, <2>2 DEF ranges
<1> QED
  BY <1>10, <1>11

\* A CPU has nothing against a batch command, its subcommand and password aside.
Unopposed(s, cmd, at) ==
    /\ SupportsSpec(s.target, s.spec)
    /\ CheckBatch(s, BatchPoints(cmd)) = "none"
    /\ s.unit = "word" => ReadFault(s, at, BatchPoints(cmd)) = "none"
    /\ s.unit = "bit" => RequireBitDevice(at) = "none" /\ BitSpanFault(s, at, BatchPoints(cmd)) = "none"

\* And has nothing against one that its client has looked at.
LEMMA NothingAgainst ==
    ASSUME NEW s, NEW ctx, Served(s, ctx), NoWider(ctx.profile, s.target),
           s.encoding = ctx.encoding, NEW cmd, cmd.name \in Batches, s.unit = BatchUnit(cmd),
           NEW at, Denotes(ctx, cmd, at), BatchPoints(cmd) \in Nat,
           ctx.validate_ranges, ValidateBatch(cmd, ctx) = "none", ~Beyond(s.target, at.type)
    PROVE  Unopposed(s, cmd, at)
<1> DEFINE n == BatchPoints(cmd)
           unit == BatchUnit(cmd)
           key == <<BatchCode(cmd), s.encoding, s.unit, ctx.link>>
<1>1. unit \in {"bit", "word"} /\ BatchCode(cmd) \in {1025, 5121} /\ n \in Nat
  BY DEF BatchUnit, BatchCode
<1>2. Resolve(ctx, cmd.address) = at /\ at.type \in DEVICE_TABLE /\ at.index \in Nat
  BY DEF Denotes, IndexFits
<1>3. /\ RequireSpec(ctx) = "none"
      /\ CheckRange(ctx.profile, at, n, unit) = "none"
      /\ CheckPoints(ctx.profile, key,
                     IF s.unit = "bit" THEN Points(0, 0, n, 0) ELSE Points(n, 0, 0, 0)) = "none"
  BY <1>2, BatchValidated
<1> HIDE DEF n, unit
<1>4. SupportsSpec(s.target, s.spec)
  BY <1>3 DEF RequireSpec, Require, SupportsSpec, NoWider, Served
<1>5. CheckBatch(s, n) = "none"
  BY <1>1, <1>3, CountIsTaken DEF NoWider, unit
<1>6. /\ unit = "word" => WordsFault(s.target.profile.devices, at.type, at.index, n) = "none"
      /\ unit = "bit" => /\ RequireBitDevice(at) = "none"
                         /\ BitsFault(s.target.profile.devices, at.type, at.index, n) = "none"
  <2> DEFINE profile == ctx.profile
             target == s.target
  <2>1. /\ IsProfile(target.profile) /\ profile.devices = target.profile.devices
        /\ at.type \in DEVICE_TABLE /\ at.index \in Nat /\ n \in Nat /\ unit \in {"bit", "word"}
        /\ CheckRange(profile, at, n, unit) = "none" /\ ~Beyond(target, at.type)
    BY <1>1, <1>2, <1>3 DEF NoWider, Served
  <2> HIDE DEF profile, target
  <2>2. /\ unit = "word" => WordsFault(target.profile.devices, at.type, at.index, n) = "none"
        /\ unit = "bit" => /\ RequireBitDevice(at) = "none"
                           /\ BitsFault(target.profile.devices, at.type, at.index, n) = "none"
    BY <2>1, SpanIsThere
  <2> QED
    BY <2>2 DEF target
<1> QED
  BY <1>4, <1>5, <1>6 DEF Unopposed, ReadFault, BitSpanFault, n, unit

\* What a batch handler comes to when there is nothing against the command.
LEMMA UnopposedServed ==
    ASSUME NEW s, IsServing(s), NEW ctx, Served(s, ctx), NEW cmd, cmd.name \in Batches,
           s.unit = BatchUnit(cmd), NEW at, Denotes(ctx, cmd, at), BatchData(cmd, at, s.memory),
           Unopposed(s, cmd, at)
    PROVE  Handler(s, BatchCode(cmd), Start(EncodeBatch(cmd, ctx))).end_code = 0
<1> DEFINE k == Start(EncodeBatch(cmd, ctx))
           o == Handler(s, BatchCode(cmd), k)
<1>1. ASSUME NEW answer PROVE Unless(s, "none", answer) = answer
  BY DEF Unless
<1>2. ASSUME NEW z, NEW payload PROVE Reply(z, payload).end_code = 0
  BY DEF Reply
<1>3. CASE cmd.name = "ReadWords"
  <2> DEFINE there == WordsAt(s, at, cmd.count)
             fault == CheckBatch(s, cmd.count) ?? ReadFault(s, at, cmd.count)
             payload == Words(ctx.codec, there)
  <2>1. CountFits(cmd.count) /\ IsWords(there) /\ s.unit = "word" /\ BatchPoints(cmd) = cmd.count
    BY <1>3 DEF BatchData, BatchUnit, BatchPoints, WordsAt, WordsFrom
  <2>2. o = HandleBatchRead(s, k)
    BY <1>3 DEF BatchCode, Handler
  <2> HIDE DEF k
  <2>3. HandleBatchRead(s, k) = Unless(s, fault, Reply(s, payload))
    BY <1>3, <2>1, WordsAreRead DEF k
  <2>4. fault = "none"
    BY <2>1 DEF Unopposed, ??
  <2> HIDE DEF fault, payload, o
  <2> QED
    BY <1>1, <1>2, <2>2, <2>3, <2>4 DEF o, k
<1>4. CASE cmd.name = "ReadBits"
  <2> DEFINE there == MemoryBits(s.memory, at.type, at.index, cmd.count)
             fault == CheckBatch(s, cmd.count) ?? (RequireBitDevice(at) ?? BitSpanFault(s, at, cmd.count))
             payload == Bits(ctx.codec, there)
  <2>1. CountFits(cmd.count) /\ IsBits(there) /\ s.unit = "bit" /\ BatchPoints(cmd) = cmd.count
    BY <1>4 DEF BatchData, BatchUnit, BatchPoints, BitsFrom
  <2>2. o = HandleBatchRead(s, k)
    BY <1>4 DEF BatchCode, Handler
  <2> HIDE DEF k
  <2>3. HandleBatchRead(s, k) = Unless(s, fault, Reply(s, payload))
    BY <1>4, <2>1, BitsAreRead DEF k
  <2>4. fault = "none"
    BY <2>1 DEF Unopposed, ??
  <2> HIDE DEF fault, payload, o
  <2> QED
    BY <1>1, <1>2, <2>2, <2>3, <2>4 DEF o, k
<1>5. CASE cmd.name = "WriteWords"
  <2> DEFINE w == [device |-> at, values |-> TwosComplement(cmd.values)]
             fault == CheckBatch(s, Len(cmd.values))
             end == WriteInTurn(s, <<w>>)
             after == [s EXCEPT !.memory = end.memory]
  <2>1. CountFits(Len(cmd.values)) /\ cmd.values \in Seq(Int) /\ s.unit = "word"
        /\ BatchPoints(cmd) = Len(cmd.values)
    BY <1>5 DEF BatchData, BatchUnit, BatchPoints
  <2>2. o = HandleBatchWrite(s, k)
    BY <1>5 DEF BatchCode, Handler
  <2> HIDE DEF k
  <2>3. HandleBatchWrite(s, k) = Unless(s, fault, Written(s, <<w>>))
    BY <1>5, <2>1, WordsAreWritten DEF k
  <2>4. fault = "none" /\ Len(w.values) = Len(cmd.values)
    BY <2>1 DEF Unopposed, TwosComplement
  <2>5. WordsFault(s.target.profile.devices, w.device.type, w.device.index, Len(w.values)) = "none"
    BY <2>1, <2>4 DEF Unopposed, ReadFault
  <2> HIDE DEF w, fault
  <2>6. end.fault = "none"
    <3> DEFINE found == WordsFault(s.target.profile.devices, w.device.type, w.device.index, Len(w.values))
    <3>1. end = IF found # "none" THEN [memory |-> s.memory, fault |-> found]
                ELSE [memory |-> WriteWordsAt(s.memory, w.device.type, w.device.index, w.values),
                      fault |-> "none"]
      BY OneWrite
    <3>2. found = "none"
      BY <2>5
    <3> HIDE DEF found, end
    <3> QED
      BY <3>1, <3>2
  <2>7. Written(s, <<w>>) = Unless(after, end.fault, Reply(after, <<>>))
    BY DEF Written, Ended
  <2> HIDE DEF end, after
  <2>8. Written(s, <<w>>) = Reply(after, <<>>)
    BY <2>6, <2>7 DEF Unless
  <2> HIDE DEF o
  <2> QED
    BY <1>1, <1>2, <2>2, <2>3, <2>4, <2>8 DEF o, k
<1>6. CASE cmd.name = "WriteBits"
  <2> DEFINE fault == CheckBatch(s, Len(cmd.values)) ?? RequireBitDevice(at)
             span == BitSpanFault(s, at, Len(cmd.values))
             after == [s EXCEPT !.memory = WriteCells(@, at.type, at.index, cmd.values)]
  <2>1. CountFits(Len(cmd.values)) /\ IsBits(cmd.values) /\ s.unit = "bit" /\ BatchPoints(cmd) = Len(cmd.values)
    BY <1>6 DEF BatchData, BatchUnit, BatchPoints
  <2>2. o = HandleBatchWrite(s, k)
    BY <1>6 DEF BatchCode, Handler
  <2> HIDE DEF k
  <2>3. HandleBatchWrite(s, k) = Unless(s, fault, Unless(s, span, Reply(after, <<>>)))
    BY <1>6, <2>1, BitsAreWritten DEF k
  <2>4. fault = "none" /\ span = "none"
    BY <2>1 DEF Unopposed, ??
  <2> HIDE DEF fault, span, after, o
  <2> QED
    BY <1>1, <1>2, <2>2, <2>3, <2>4 DEF o, k
<1> QED
  BY <1>3, <1>4, <1>5, <1>6 DEF Batches

\* A batch command that its client has looked at is served, but that the CPU may be locked,
\* or may know better.
Granted(target, dt, end_code) ==
    end_code = 0 \/ end_code = target.end_codes.password_locked \/ Beyond(target, dt)

LEMMA BatchGranted ==
    ASSUME NEW target, IsProfile(target.profile), NEW m, NEW st, m = PublishState(m, st),
           NEW ctx, IsContext(ctx), ctx.codec \in Codecs, NEW cmd, cmd.name \in Batches, NEW at,
           SameBases([target |-> target, encoding |-> ctx.encoding], ctx),
           Denotes(ctx, cmd, at), BatchData(cmd, at, m),
           NEW request, request.command = BatchCode(cmd),
           request.subcommand = Subcommand(BatchUnit(cmd), ctx.spec),
           request.payload = EncodeBatch(cmd, ctx),
           NoWider(ctx.profile, target), ctx.validate_ranges, ValidateBatch(cmd, ctx) = "none",
           NEW served, served = Handle(target, m, st, ctx.encoding, request)
    PROVE  Granted(target, at.type, served.end_code)
<1> DEFINE s == ServingBatch(target, m, st, ctx, BatchUnit(cmd))
           sub == request.subcommand
           locked == st.password_locked /\ request.command \notin PASSWORD_EXEMPT_COMMANDS
           fault == Refuse(sub \notin KnownSubcommands, "unsupported_subcommand")
                    ?? Refuse(locked, "password_locked")
                    ?? Refuse(Extended(sub) \/ ~SupportsSpec(target, s.spec), "unsupported_subcommand")
           done == Handler(s, request.command, Start(request.payload))
<1>1. BatchUnit(cmd) \in {"bit", "word"} /\ ctx.spec \in {"short", "long"} /\ ctx.codec = Coding(ctx.encoding)
  BY DEF BatchUnit, IsContext
<1>2. /\ SubcommandUnit(sub) = BatchUnit(cmd) /\ SubcommandSpec(sub) = ctx.spec
      /\ sub \in KnownSubcommands /\ ~Extended(sub)
  BY <1>1, SubcommandsBack
<1>3. served = Unless(s, fault, done)
  BY <1>2 DEF Handle, ServingBatch
<1>4. /\ IsServing(s) /\ s.unit = BatchUnit(cmd) /\ s.memory = m /\ s.target = target
      /\ s.codec = ctx.codec /\ s.spec = ctx.spec /\ s.encoding = ctx.encoding
  BY <1>1 DEF IsServing, ServingBatch
<1> HIDE DEF s
<1>5. SameBases(s, ctx)
  BY <1>4 DEF SameBases, NumberBase
<1>6. Served(s, ctx)
  BY <1>1, <1>4, <1>5 DEF Served
<1>7. BatchPoints(cmd) \in Nat
  BY DEF BatchData, BatchPoints, CountFits, Batches
<1>8. CASE Beyond(target, at.type)
  BY <1>8 DEF Granted
<1>9. CASE ~Beyond(target, at.type)
  <2>1. Unopposed(s, cmd, at)
    BY <1>1, <1>4, <1>6, <1>7, <1>9, NothingAgainst
  <2>2. done.end_code = 0
    BY <1>4, <1>6, <2>1, UnopposedServed
  <2>3. fault \in {"none", "password_locked"}
    <3>1. SupportsSpec(target, s.spec)
      BY <1>4, <2>1 DEF Unopposed
    <3> QED
      BY <1>2, <3>1 DEF Refuse, ??
  <2> HIDE DEF fault, done
  <2>4. CASE fault = "none"
    <3>1. served = done
      BY <1>3, <2>4 DEF Unless
    <3> QED
      BY <2>2, <3>1 DEF Granted
  <2>5. CASE fault = "password_locked"
    <3>1. served = Refusal(s, "password_locked")
      BY <1>3, <2>5 DEF Unless
    <3>2. served.end_code = target.end_codes.password_locked
      BY <1>4, <3>1 DEF Refusal, Reply
    <3> QED
      BY <3>2 DEF Granted
  <2> QED
    BY <2>3, <2>4, <2>5
<1> QED
  BY <1>8, <1>9
-----------------------------------------------------------------------------
\* A call of a batch command to a CPU that answers in order, and the point it names.
OfBatch == call # NoCall /\ call.cmd.name \in Batches /\ ~ThePlant.stale
MeantPoint == Meant(call.cmd.address)

\* The memory m is as the call leaves it where it is refused, and where it is done.
IsAsBefore(m) == m = call.before
IsAsMeant(m) == m = BatchLeaves(call.cmd, MeantPoint, call.before)

\* A call that its client has looked at is refused by the CPU for what only the CPU knows.
Strict == MadeForTheirCpus /\ Ctx.validate_ranges
IsExcused(code) == Strict => Granted(Target, MeantPoint.type, code)

\* A response tells what the CPU held when the call began, and the memory is as it says.
Tells(response, m) ==
    /\ response.end_code # 0 => IsAsBefore(m) /\ IsExcused(response.end_code)
    /\ response.end_code = 0 =>
          /\ IsAsMeant(m)
          /\ DecodeFault(call.cmd, response.payload, Ctx) = "none"
          /\ Decode(call.cmd, response.payload, Ctx) = BatchThere(call.cmd, MeantPoint, call.before)

\* So does what becomes of the call; that its CPU does not answer decides nothing.
TellsOutcome(o, m) ==
    /\ o.kind \in {"refused", "end_code"} => IsAsBefore(m)
    /\ o.kind = "end_code" => o.values[1] # 0 /\ IsExcused(o.values[1])
    /\ o.kind = "returned" =>
          IsAsMeant(m) /\ o.values = BatchThere(call.cmd, MeantPoint, call.before)
    /\ o.kind \notin {"silent", "decode"}

\* A request on its way has been looked at and has changed nothing; an answer on its way
\* tells what happened; and so does the outcome.
Unserved ==
    phase = "asked" => IsAsBefore(memory) /\ (OfBatch => ValidateBatch(call.cmd, Ctx) = "none")
AnswerTells ==
    phase = "answered" /\ OfBatch => Tells(RawResponse(Client(call).frame, Ctx.codec, wire), memory)
OutcomeTells == phase = "idle" /\ OfBatch => TellsOutcome(outcome, memory)

\* The invariant of batch calls on the wire, and with it that no part of a block is one.
TellInv == Unserved /\ AnswerTells /\ OutcomeTells
NoBatchInBlocks == Reading /\ phase # "idle" => call.cmd.name \notin Batches

\* What a call is about does not change on its way.
LEMMA SameCall ==
    ASSUME UNCHANGED <<plant, call>>
    PROVE  /\ Client(call)' = Client(call) /\ Ctx' = Ctx /\ OfBatch' = OfBatch
           /\ MeantPoint' = MeantPoint /\ Target' = Target /\ Strict' = Strict
<1>1. ThePlant' = ThePlant
  BY DEF ThePlant
<1>2. Client(call)' = Client(call) /\ Ctx' = Ctx /\ Target' = Target
  BY <1>1 DEF Client, Ctx, Target
<1> QED
  BY <1>1, <1>2 DEF OfBatch, MeantPoint, Meant, Strict

\* Nothing happens to a call, but that the client may be ready for another one.
LEMMA QuietTells ==
    ASSUME TellInv, UNCHANGED <<plant, memory, call, phase, wire>>,
           outcome' = outcome \/ outcome'.kind = "none"
    PROVE  TellInv'
<1>1. /\ Client(call)' = Client(call) /\ Ctx' = Ctx /\ OfBatch' = OfBatch
      /\ MeantPoint' = MeantPoint /\ Target' = Target /\ Strict' = Strict
  BY SameCall
<1>2. Unserved'
  BY <1>1 DEF TellInv, Unserved, IsAsBefore
<1>3. AnswerTells'
  BY <1>1 DEF TellInv, AnswerTells, Tells, IsAsBefore, IsAsMeant, IsExcused, Granted
<1>4. OutcomeTells'
  BY <1>1 DEF TellInv, OutcomeTells, TellsOutcome, IsAsBefore, IsAsMeant, IsExcused, Granted
<1> QED
  BY <1>2, <1>3, <1>4 DEF TellInv

\* A call that comes to its end is told what happened.
LEMMA EndTells ==
    ASSUME NEW o, End(o), UNCHANGED <<plant, call>>, OfBatch => TellsOutcome(o, memory')
    PROVE  TellInv'
<1>1. phase' = "idle" /\ outcome' = o
  BY DEF End
<1>2. /\ Ctx' = Ctx /\ OfBatch' = OfBatch
      /\ MeantPoint' = MeantPoint /\ Target' = Target /\ Strict' = Strict
  BY SameCall
<1>3. Unserved' /\ AnswerTells'
  BY <1>1 DEF Unserved, AnswerTells
<1>4. OutcomeTells'
  BY <1>1, <1>2 DEF OutcomeTells, TellsOutcome, IsAsBefore, IsAsMeant, IsExcused, Granted
<1> QED
  BY <1>3, <1>4 DEF TellInv

\* An outcome that tells nothing of the memory.
Undecided(o) == o.kind \notin {"returned", "end_code", "refused", "silent", "decode"}

LEMMA UndecidedTells ==
    ASSUME NEW o, End(o), UNCHANGED <<plant, call>>, Undecided(o)
    PROVE  TellInv'
<1>1. TellsOutcome(o, memory')
  BY DEF Undecided, TellsOutcome
<1> QED
  BY <1>1, EndTells

\* A call that is refused has changed nothing.
LEMMA RefusedTells ==
    ASSUME NEW e, NEW cmd, NEW refusal, RefuseToSend(e, cmd, refusal)
    PROVE  TellInv' /\ phase' = "idle"
<1>1. /\ phase' = "idle" /\ outcome' = Outcome("refused", refusal, <<>>)
      /\ call'.before = memory /\ memory' = memory
  BY DEF RefuseToSend, Begin, End
<1>2. outcome'.kind = "refused"
  BY <1>1 DEF Outcome
<1>3. Unserved' /\ AnswerTells'
  BY <1>1 DEF Unserved, AnswerTells
<1>4. OutcomeTells'
  BY <1>1, <1>2 DEF OutcomeTells, TellsOutcome, IsAsBefore
<1> QED
  BY <1>1, <1>3, <1>4 DEF TellInv

\* Nor has one that is asked, and has been looked at.
LEMMA BegunTells ==
    ASSUME NEW e, NEW cmd, NEW serial, Begin(e, cmd, serial), phase' = "asked",
           cmd.name \in Batches => ValidateBatch(cmd, ThePlant.entries[e].ctx) = "none"
    PROVE  TellInv'
<1>1. /\ UNCHANGED <<plant, memory>> /\ call'.entry = e /\ call'.cmd = cmd /\ call'.before = memory
  BY DEF Begin
<1>2. Ctx' = ThePlant.entries[e].ctx
  BY <1>1 DEF Ctx, Client, ThePlant
<1>3. Unserved'
  BY <1>1, <1>2 DEF Unserved, IsAsBefore, OfBatch
<1> QED
  BY <1>3 DEF TellInv, AnswerTells, OutcomeTells

\* A batch command is looked at.
LEMMA BatchesAreValidated ==
    ASSUME NEW cmd, cmd.name \in Batches, NEW ctx
    PROVE  Validate(cmd, ctx) = ValidateBatch(cmd, ctx)
BY DEF Validate, Batches, Remotes, FixedFields, Passwords

\* A call, refused or sent.
LEMMA AskTells ==
    ASSUME NEW e, NEW cmd, Ask(e, cmd)
    PROVE  TellInv' /\ phase' \in {"idle", "asked"}
<1> DEFINE entry == ThePlant.entries[e]
           refusal == Refused(cmd, entry.ctx)
<1>1. CASE refusal # "none"
  <2>1. RefuseToSend(e, cmd, refusal)
    BY <1>1 DEF Ask
  <2> QED
    BY <2>1, RefusedTells
<1>2. CASE refusal = "none"
  <2>1. Send(e, entry, cmd, SerialFor(entry.frame, calls + 1))
    BY <1>2 DEF Ask
  <2>2. cmd.name \in Batches => ValidateBatch(cmd, entry.ctx) = "none"
    <3>1. Validate(cmd, entry.ctx) = "none"
      BY <1>2, NoneOfBoth DEF Refused
    <3> QED
      BY <3>1, BatchesAreValidated
  <2> QED
    BY <2>1, <2>2, BegunTells DEF Send
<1> QED
  BY <1>1, <1>2

\* What a CPU that handled a batch command says is so.
LEMMA HandledTells ==
    ASSUME NEW served, OfBatch, IsAsBefore(memory),
           \A fault \in DOMAIN EndCodePolicy : Target.end_codes[fault] \in 1 .. UINT16_MAX,
           \/ IsRefusal(Target, memory, served)
           \/ IsDone(call.cmd, MeantPoint, memory, Ctx, served),
           IsExcused(served.end_code),
           NEW response, response.end_code = served.end_code,
           served.end_code = 0 => response.payload = served.payload
    PROVE  Tells(response, served.memory)
<1>1. CASE IsRefusal(Target, memory, served)
  <2>1. PICK fault \in BatchFaults : served.end_code = Target.end_codes[fault]
    BY <1>1 DEF IsRefusal
  <2>2. served.end_code \in 1 .. UINT16_MAX
    BY <2>1, FaultsHaveCodes
  <2>3. served.end_code # 0
    BY <2>2
  <2> QED
    BY <1>1, <2>3 DEF Tells, IsRefusal, IsAsBefore
<1>2. CASE IsDone(call.cmd, MeantPoint, memory, Ctx, served)
  <2>1. memory = call.before
    BY DEF IsAsBefore
  <2> QED
    BY <1>2, <2>1 DEF Tells, IsDone, IsAsBefore, IsAsMeant
<1> QED
  BY <1>1, <1>2

\* What PlantsAssumption says of the CPU, and of the client of a call.
LEMMA TheTarget ==
    ASSUME WireTypeOK, phase # "idle"
    PROVE  /\ IsProfile(Target.profile) /\ IsContext(Ctx)
           /\ MadeForTheirCpus => NoWider(Ctx.profile, Target)
           /\ \A fault \in DOMAIN EndCodePolicy : Target.end_codes[fault] \in 1 .. UINT16_MAX
<1>1. plant \in DOMAIN Plants /\ call.entry \in DOMAIN ThePlant.entries
  BY DEF WireTypeOK
<1>2. ThePlant \in Range(Plants) /\ Client(call) \in Range(ThePlant.entries)
  BY <1>1 DEF ThePlant, Client, Range
<1> QED
  BY <1>2, PlantsAssumption DEF Target, Ctx, MadeForTheirCpus

\* The code and the subcommand of a batch command, and its payload.
LEMMA BatchOnTheWire ==
    ASSUME NEW cmd, cmd.name \in Batches, NEW ctx
    PROVE  /\ Code(cmd) = BatchCode(cmd) /\ Encode(cmd, ctx) = EncodeBatch(cmd, ctx)
           /\ SubcommandOf(cmd, ctx) = Subcommand(BatchUnit(cmd), ctx.spec)
           /\ ~ResponseOptional(cmd)
<1>1. Known(cmd)
  BY KnownNames DEF Batches
<1>2. Row(cmd) \in COMMANDS /\ cmd.name \in Row(cmd).commands /\ Code(cmd) = Row(cmd).code
  BY <1>1, RowOfCommand DEF Known
<1>3. \A row \in COMMANDS :
          /\ {"ReadWords", "ReadBits"} \cap row.commands # {} => row.code = 1025
          /\ {"WriteWords", "WriteBits"} \cap row.commands # {} => row.code = 5121
  BY DEF COMMANDS, CommandSpec
<1>4. Code(cmd) = BatchCode(cmd)
  BY <1>2, <1>3 DEF BatchCode, Batches
<1>5. Encode(cmd, ctx) = EncodeBatch(cmd, ctx) /\ SubcommandOf(cmd, ctx) = Subcommand(BatchUnit(cmd), ctx.spec)
  BY DEF Encode, SubcommandOf, Batches, Remotes, FixedFields, Passwords
<1>6. ~ResponseOptional(cmd)
  BY DEF ResponseOptional, Batches
<1> QED
  BY <1>4, <1>5, <1>6

\* A batch command that is served is answered with what became of it.
LEMMA BatchIsAnswered ==
    ASSUME WireInv, Unserved, SentAsMeant, phase = "asked", OfBatch, NEW request, NEW served,
           request = RawRequest(Client(call).frame, Ctx.codec, wire),
           served = Handle(Target, memory, state, Ctx.encoding, request)
    PROVE  Tells(RawResponse(Client(call).frame, Ctx.codec, AnswerUnits(Client(call), request, served)),
                 served.memory)
<1> DEFINE cmd == call.cmd
           at == MeantPoint
           response == RawResponse(Client(call).frame, Ctx.codec, AnswerUnits(Client(call), request, served))
<1>1. /\ cmd.name \in Batches /\ IsAsBefore(memory) /\ ValidateBatch(cmd, Ctx) = "none"
      /\ MessagesFit /\ WireTypeOK
  BY DEF OfBatch, Unserved, SentAsMeant, WireInv
<1>2. /\ SameBases([target |-> Target, encoding |-> Ctx.encoding], Ctx) /\ Denotes(Ctx, cmd, at)
      /\ BatchData(cmd, at, memory) /\ memory = PublishState(memory, state)
  BY <1>1 DEF SentAsMeant, BatchIsMeant, StateIsShown, MeantPoint
<1>3. /\ IsProfile(Target.profile) /\ IsContext(Ctx)
      /\ MadeForTheirCpus => NoWider(Ctx.profile, Target)
      /\ \A fault \in DOMAIN EndCodePolicy : Target.end_codes[fault] \in 1 .. UINT16_MAX
  BY <1>1, TheTarget
<1>4. /\ request.command = Code(cmd) /\ request.subcommand = SubcommandOf(cmd, Ctx)
      /\ request.payload = Encode(cmd, Ctx)
      /\ IsServed(Client(call), request, call.serial, served)
  BY <1>1, ServedRequest
<1>5. Ctx.codec \in Codecs /\ Ctx = Client(call).ctx
  BY <1>4 DEF IsServed, IsEntry, Ctx
<1>6. response.end_code = served.end_code /\ (served.end_code = 0 => response.payload = served.payload)
  BY <1>4, <1>5, WhatIsAnswered
<1> HIDE DEF cmd, at, response
<1>7. /\ request.command = BatchCode(cmd) /\ request.payload = EncodeBatch(cmd, Ctx)
      /\ request.subcommand = Subcommand(BatchUnit(cmd), Ctx.spec)
  BY <1>1, <1>4, BatchOnTheWire
<1>8. /\ IsRefusal(Target, memory, served) \/ IsDone(cmd, at, memory, Ctx, served)
      /\ Strict => Granted(Target, at.type, served.end_code)
  <2> DEFINE target == Target
             ctx == Ctx
             m == memory
             st == state
  <2>1. /\ IsProfile(target.profile) /\ m = PublishState(m, st) /\ IsContext(ctx) /\ ctx.codec \in Codecs
        /\ SameBases([target |-> target, encoding |-> ctx.encoding], ctx)
        /\ Denotes(ctx, cmd, at) /\ BatchData(cmd, at, m) /\ cmd.name \in Batches
        /\ request.command = BatchCode(cmd) /\ request.subcommand = Subcommand(BatchUnit(cmd), ctx.spec)
        /\ request.payload = EncodeBatch(cmd, ctx)
        /\ served = Handle(target, m, st, ctx.encoding, request)
        /\ ValidateBatch(cmd, ctx) = "none"
        /\ Strict => NoWider(ctx.profile, target) /\ ctx.validate_ranges
    BY <1>1, <1>2, <1>3, <1>5, <1>7 DEF Strict
  <2> HIDE DEF target, ctx, m, st
  <2>2. IsRefusal(target, m, served) \/ IsDone(cmd, at, m, ctx, served)
    BY <2>1, BatchHandled
  <2>3. Strict => Granted(target, at.type, served.end_code)
    BY <2>1, BatchGranted
  <2> QED
    BY <2>2, <2>3 DEF target, ctx, m
<1> QED
  BY <1>1, <1>3, <1>6, <1>8, HandledTells DEF cmd, at, response, IsExcused

\* A request is served.
LEMMA ServeTells ==
    ASSUME WireInv, TellInv, SentAsMeant, Serve
    PROVE  TellInv' /\ UNCHANGED call
<1> DEFINE entry == Client(call)
           request == RawRequest(entry.frame, Ctx.codec, wire)
           served == Handle(Target, memory, state, Ctx.encoding, request)
           raw == AnswerUnits(entry, request, served)
           o == Outcome(IF ResponseOptional(call.cmd) THEN "silent" ELSE "timeout", "none", <<>>)
<1>1. /\ phase = "asked" /\ UNCHANGED <<plant, call>> /\ memory' = served.memory
      /\ End(o) \/ Answer(entry, raw)
  BY DEF Serve, Ctx
<1>2. OfBatch => ~ResponseOptional(call.cmd)
  BY BatchOnTheWire DEF OfBatch
<1>3. CASE End(o)
  <2>1. OfBatch => o.kind = "timeout"
    BY <1>2 DEF Outcome
  <2>2. OfBatch => TellsOutcome(o, memory')
    BY <2>1 DEF TellsOutcome
  <2> HIDE DEF o
  <2> QED
    BY <1>1, <1>3, <2>2, EndTells
<1>4. CASE Answer(entry, raw)
  <2>1. phase' = "answered" /\ (~ThePlant.stale => wire' = raw)
    BY <1>4 DEF Answer
  <2>2. OfBatch => Tells(RawResponse(entry.frame, Ctx.codec, raw), served.memory)
    BY <1>1, BatchIsAnswered DEF TellInv
  <2>3. /\ Client(call)' = Client(call) /\ Ctx' = Ctx /\ OfBatch' = OfBatch
        /\ MeantPoint' = MeantPoint /\ Target' = Target /\ Strict' = Strict
    BY <1>1, SameCall
  <2>4. OfBatch => Tells(RawResponse(entry.frame, Ctx.codec, wire'), memory')
    BY <1>1, <2>1, <2>2 DEF OfBatch
  <2> HIDE DEF request, served, raw, entry
  <2>5. AnswerTells'
    BY <1>1, <2>3, <2>4 DEF AnswerTells, Tells, IsAsBefore, IsAsMeant, IsExcused, Granted, entry
  <2>6. Unserved' /\ OutcomeTells'
    BY <2>1 DEF Unserved, OutcomeTells
  <2> QED
    BY <1>1, <2>5, <2>6 DEF TellInv
<1> QED
  BY <1>1, <1>3, <1>4

\* One piece more.
LEMMA FedTells ==
    ASSUME TellInv, phase = "answered", NEW units, NEW whole \in BOOLEAN, Fed(units, whole)
    PROVE  TellInv' /\ UNCHANGED call
<1>1. /\ UNCHANGED <<plant, memory, call>>
      /\ \/ \E fault : Broken(fault)
         \/ UNCHANGED <<phase, wire, outcome>>
  BY DEF Fed
<1>2. CASE \E fault : Broken(fault)
  <2>1. PICK fault : End(Outcome("protocol", fault, <<>>))
    BY <1>2 DEF Broken
  <2>2. Undecided(Outcome("protocol", fault, <<>>))
    BY DEF Undecided, Outcome
  <2> QED
    BY <1>1, <2>1, <2>2, UndecidedTells
<1>3. CASE UNCHANGED <<phase, wire, outcome>>
  BY <1>1, <1>3, QuietTells
<1> QED
  BY <1>1, <1>2, <1>3

\* A request is served, or an answer read.
LEMMA TravelTells ==
    ASSUME WireInv, TellInv, SentAsMeant, Travel
    PROVE  TellInv' /\ UNCHANGED call
<1>1. CASE Serve
  BY <1>1, ServeTells
<1>2. CASE ReceiveStream
  BY <1>2, FedTells DEF ReceiveStream
<1>3. CASE ReceiveDatagram
  BY <1>3, FedTells DEF ReceiveDatagram
<1> QED
  BY <1>1, <1>2, <1>3 DEF Travel

\* What is taken is the answer that was on its way.
LEMMA TakenIsTheAnswer ==
    ASSUME WireInv, phase = "answered", BytesNeeded(acc) = 0
    PROVE  Taken(acc) = RawResponse(Client(call).frame, Ctx.codec, wire)
<1>1. /\ wire \in Seq(Range(wire)) /\ Len(wire) \in Nat /\ Arrived = Len(wire)
      /\ Holds(acc, Client(call).frame, Ctx.codec, wire, Arrived)
  BY Heard
<1>2. /\ acc.frame = Client(call).frame /\ acc.codec = Ctx.codec
      /\ acc.buf = SubSeq(wire, 1, Len(wire))
  BY <1>1 DEF Holds
<1>3. SubSeq(wire, 1, Len(wire)) = wire
  BY <1>1, SubSeqFull
<1> QED
  BY <1>2, <1>3 DEF Taken

\* The client of a batch call is told what the answer tells.
LEMMA ConclusionTells ==
    ASSUME WireInv, TellInv, OfBatch, phase = "answered", BytesNeeded(acc) = 0
    PROVE  TellsOutcome(Conclusion, memory)
<1> DEFINE response == Taken(acc)
<1>1. TakeFault(acc) = "none"
  BY TakenIsWell DEF OfBatch
<1>2. Tells(response, memory)
  BY TakenIsTheAnswer DEF TellInv, AnswerTells
<1>3. Conclusion = IF response.end_code # 0 THEN Outcome("end_code", "none", <<response.end_code>>)
                   ELSE Meaning(call.cmd, response.payload, Ctx)
  BY <1>1 DEF Conclusion
<1> HIDE DEF response
<1>4. CASE response.end_code # 0
  <2>1. Conclusion.kind = "end_code" /\ Conclusion.values = <<response.end_code>>
    BY <1>3, <1>4 DEF Outcome
  <2>2. IsAsBefore(memory) /\ IsExcused(response.end_code)
    BY <1>2, <1>4 DEF Tells
  <2>3. Conclusion.values[1] = response.end_code
    BY <2>1
  <2> HIDE DEF response
  <2>4. Conclusion.values[1] # 0 /\ IsExcused(Conclusion.values[1])
    BY <1>4, <2>2, <2>3
  <2> QED
    BY <2>1, <2>2, <2>4 DEF TellsOutcome
<1>5. CASE response.end_code = 0
  <2> DEFINE there == BatchThere(call.cmd, MeantPoint, call.before)
  <2>1. /\ IsAsMeant(memory) /\ DecodeFault(call.cmd, response.payload, Ctx) = "none"
        /\ Decode(call.cmd, response.payload, Ctx) = there
    BY <1>2, <1>5 DEF Tells
  <2> HIDE DEF there
  <2>2. Conclusion = Outcome("returned", "none", there)
    BY <1>3, <1>5, <2>1 DEF Meaning
  <2>3. Conclusion.kind = "returned" /\ Conclusion.values = there
    BY <2>2 DEF Outcome
  <2> QED
    BY <2>1, <2>3 DEF TellsOutcome, there
<1> QED
  BY <1>4, <1>5

\* An answer is taken.
LEMMA ConcludeTells ==
    ASSUME WireInv, TellInv, Conclude
    PROVE  TellInv' /\ phase' = "idle"
<1>1. /\ phase = "answered" /\ BytesNeeded(acc) = 0 /\ End(Conclusion) /\ phase' = "idle"
      /\ UNCHANGED <<plant, memory, call>>
  BY DEF Conclude, End
<1>2. OfBatch => TellsOutcome(Conclusion, memory)
  BY <1>1, ConclusionTells
<1>3. OfBatch => TellsOutcome(Conclusion, memory')
  BY <1>1, <1>2
<1> QED
  BY <1>1, <1>3, EndTells

\* Every step of Wire, and that a call is another one only before it is sent.
LEMMA WireNextTells ==
    ASSUME WireInv, TellInv, SentAsMeant, WireNext
    PROVE  TellInv'
<1>1. ASSUME NEW e, NEW cmd, Ask(e, cmd) PROVE TellInv'
  BY <1>1, AskTells
<1>2. CASE Travel
  BY <1>2, TravelTells
<1>3. CASE Conclude
  BY <1>3, ConcludeTells
<1>4. CASE Finished
  BY <1>4, QuietTells DEF Finished, vars
<1> QED
  BY <1>1, <1>2, <1>3, <1>4 DEF WireNext

\* The invariant of batch calls, among blocks and verbs.
BatchInv == TellInv /\ NoBatchInBlocks

\* A step of Wire beside the blocks.
LEMMA AsideTells ==
    ASSUME WireInv, BatchInv, SentAsMeant, AsideFromBlocks
    PROVE  BatchInv'
<1>1. plan' = IF calls' # calls \/ (Reading /\ phase' = "idle") THEN NoPlan ELSE plan
  BY DEF AsideFromBlocks
<1>2. CASE Reading
  <2>1. Travel
    BY <1>2 DEF AsideFromBlocks
  <2>2. TellInv' /\ UNCHANGED call /\ phase # "idle"
    BY <2>1, TravelTells, TravelIsWell DEF BatchInv, SentAsMeant
  <2>3. call.cmd.name \notin Batches
    BY <1>2, <2>2 DEF BatchInv, NoBatchInBlocks
  <2> QED
    BY <2>2, <2>3 DEF BatchInv, NoBatchInBlocks
<1>3. CASE ~Reading
  <2>1. TellInv'
    BY <1>3, WireNextTells DEF AsideFromBlocks, BatchInv
  <2>2. ~Reading'
    BY <1>1, <1>3 DEF Reading, NoPlan
  <2> QED
    BY <2>1, <2>2 DEF BatchInv, NoBatchInBlocks
<1> QED
  BY <1>2, <1>3

\* A block is bound.
LEMMA BindTells ==
    ASSUME BatchInv, NEW e, NEW b, Bind(e, b)
    PROVE  BatchInv'
<1>1. /\ phase = "idle"
      /\ \/ \E fault : RefuseToSend(e, NoCommand, fault)
         \/ /\ outcome' = NoOutcome
            /\ UNCHANGED <<plant, memory, call, phase, wire>>
  BY DEF Bind
<1>2. NoOutcome.kind = "none"
  BY DEF NoOutcome, Outcome
<1>3. TellInv' /\ phase' = "idle"
  BY <1>1, <1>2, RefusedTells, QuietTells DEF BatchInv
<1> QED
  BY <1>3 DEF BatchInv, NoBatchInBlocks

\* A part of a block is asked for, and is no batch command.
LEMMA RequestPartTells ==
    ASSUME RequestPart
    PROVE  BatchInv'
<1> DEFINE cmd == ReaderCommand(TheReader)
<1>1. \E serial : Begin(plan.entry, cmd, serial) /\ phase' = "asked"
  BY DEF RequestPart
<1>2. cmd.name = "ReadRandom"
  BY DEF ReaderCommand, ReadRandomOf
<1> HIDE DEF cmd
<1>3. TellInv' /\ call'.cmd = cmd
  BY <1>1, <1>2, BegunTells DEF Begin, Batches
<1> QED
  BY <1>2, <1>3 DEF BatchInv, NoBatchInBlocks, Batches

\* A part of a block is decoded.
LEMMA DecodePartTells ==
    ASSUME BatchInv, DecodePart
    PROVE  BatchInv'
<1>1. /\ phase = "answered" /\ Reading /\ UNCHANGED <<plant, call>> /\ \E o : End(o)
  BY DEF DecodePart, GivenUp, Fill
<1>2. ~OfBatch
  BY <1>1 DEF BatchInv, NoBatchInBlocks, OfBatch
<1>3. TellInv' /\ phase' = "idle"
  BY <1>1, <1>2, EndTells DEF End
<1> QED
  BY <1>3 DEF BatchInv, NoBatchInBlocks

\* Fields of a block are written.
LEMMA WriteFieldsTells ==
    ASSUME NEW e, NEW w, WriteFields(e, w)
    PROVE  BatchInv'
<1>1. /\ plan'.doing = "write"
      /\ \E cmd, fault : RefuseToSend(e, cmd, fault) \/ Ask(e, cmd)
  BY DEF WriteFields
<1>2. TellInv'
  BY <1>1, RefusedTells, AskTells
<1> QED
  BY <1>1, <1>2 DEF BatchInv, NoBatchInBlocks, Reading

\* Every step of BlockPlan.
LEMMA BlockNextTells ==
    ASSUME WireInv, BatchInv, SentAsMeant, BlockNext
    PROVE  BatchInv'
BY AsideTells, BindTells, WriteFieldsTells, RequestPartTells, DecodePartTells DEF BlockNext

\* A verb at hand is no block.
LEMMA VerbTells ==
    ASSUME TellInv', ~Reading, UNCHANGED plan
    PROVE  BatchInv'
BY DEF BatchInv, NoBatchInBlocks, Reading

\* A verb is entered, and decides what to do.
LEMMA EnterTells ==
    ASSUME BatchInv, NEW e, NEW v, Enter(e, v)
    PROVE  BatchInv'
<1>1. ~Reading /\ UNCHANGED plan /\ (UNCHANGED vars \/ \E fault : RefuseToSend(e, NoCommand, fault))
  BY DEF Enter
<1>2. TellInv'
  BY <1>1, QuietTells, RefusedTells DEF vars, BatchInv
<1> QED
  BY <1>1, <1>2, VerbTells

LEMMA DecideTells ==
    ASSUME TaskWell, BatchInv, Decide
    PROVE  BatchInv'
<1>1. ~Reading /\ UNCHANGED plan /\ \E step \in Steps : Request(step) \/ Tell(step)
  BY DEF Decide, TaskWell, Is
<1>2. ASSUME NEW step, Request(step) PROVE TellInv'
  BY <1>2, AskTells DEF Request
<1>3. ASSUME NEW step, Tell(step) PROVE TellInv'
  <2>1. UNCHANGED <<plant, call>> /\ \E o : Undecided(o) /\ End(o)
    <3>1. Undecided(Outcome("value", "none", step.value)) /\ Undecided(Outcome("raised", step.why, <<>>))
      BY DEF Undecided, Outcome
    <3> QED
      BY <1>3, <3>1 DEF Tell
  <2> QED
    BY <2>1, UndecidedTells
<1> QED
  BY <1>1, <1>2, <1>3, VerbTells

\* Every step of Calls.
LEMMA CallsNextTells ==
    ASSUME CallsInv, BatchInv, SentAsMeant, [CallsNext]_callVars
    PROVE  BatchInv'
<1>1. WireInv /\ TaskWell /\ TellInv
  BY DEF CallsInv, BatchInv
<1>2. CASE Is("none") /\ BlockNext
  BY <1>1, <1>2, BlockNextTells
<1>3. ASSUME NEW e, NEW v, Enter(e, v) PROVE BatchInv'
  BY <1>3, EnterTells
<1>4. CASE Decide
  BY <1>1, <1>4, DecideTells
<1>5. CASE Await
  <2>1. ~Reading /\ UNCHANGED plan /\ (Travel \/ Conclude)
    BY <1>1, <1>5 DEF Await, TaskWell, Is
  <2>2. TellInv'
    BY <1>1, <2>1, TravelTells, ConcludeTells
  <2> QED
    BY <2>1, <2>2, VerbTells
<1>6. CASE Proceed \/ UNCHANGED callVars
  <2>1. UNCHANGED <<plant, memory, call, phase, wire, outcome, plan>>
    BY <1>6 DEF Proceed, callVars, planVars, vars
  <2>2. TellInv'
    BY <1>1, <2>1, QuietTells
  <2> QED
    BY <2>1, <2>2 DEF BatchInv, NoBatchInBlocks, Reading
<1> QED
  BY <1>2, <1>3, <1>4, <1>5, <1>6 DEF CallsNext

\* At first there is no call.
LEMMA CallsBeginTold ==
    ASSUME CallsInit PROVE BatchInv
<1>1. phase = "idle" /\ call = NoCall
  BY DEF CallsInit, BlockInit, WireInit
<1> QED
  BY <1>1 DEF BatchInv, TellInv, Unserved, AnswerTells, OutcomeTells, OfBatch, NoBatchInBlocks

\* As long as what is sent is what was meant, every step keeps the invariant.
LEMMA BatchesStayTold ==
    CallsSpec /\ []SentAsMeant => [](BatchInv /\ SentAsMeant)
<1>1. CallsInit => CallsInv /\ BatchInv
  BY CallsBeginWell, CallsBeginTold
<1>2. SentAsMeant => MessagesFit
  BY DEF SentAsMeant
<1>3. SentAsMeant' => MessagesFit'
  BY DEF SentAsMeant
<1>4. CallsInv /\ BatchInv /\ SentAsMeant /\ SentAsMeant' /\ [CallsNext]_callVars => CallsInv' /\ BatchInv'
  BY <1>2, <1>3, CallsNextIsWell, CallsNextTells DEF CallWell
<1> QED
  BY <1>1, <1>4, PTL DEF CallsSpec

\* What is left of the memory is what was asked.
LEMMA LeavesWhatWasAsked ==
    ASSUME OfBatch, IsAsMeant(memory)
    PROVE  IsAsked(memory, call.cmd)
<1> DEFINE cmd == call.cmd
<1>1. CASE cmd.name \in {"ReadWords", "ReadBits"}
  <2>1. memory = call.before
    BY <1>1 DEF IsAsMeant, BatchLeaves
  <2>2. Pieces(cmd) = {}
    BY <1>1 DEF Pieces, Wanted
  <2> HIDE DEF cmd
  <2> QED
    BY <2>1, <2>2 DEF IsAsked, cmd
<1>2. CASE cmd.name \in {"WriteWords", "WriteBits"}
  <2>1. Pieces(cmd) = {memory}
    <3>1. CASE cmd.name = "WriteWords"
      <4>1. Pieces(cmd) = {Put(cmd.address, [i \in DOMAIN cmd.values |-> cmd.values[i] % 65536])}
        BY <3>1 DEF Pieces, Wanted
      <4>2. memory = WriteWordsAt(call.before, MeantPoint.type, MeantPoint.index, TwosComplement(cmd.values))
        BY <3>1 DEF IsAsMeant, BatchLeaves
      <4> QED
        BY <4>1, <4>2 DEF Put, TwosComplement, MeantPoint
    <3>2. CASE cmd.name = "WriteBits"
      <4>1. Pieces(cmd) = {PutBits(cmd.address, cmd.values)}
        BY <3>2 DEF Pieces, Wanted
      <4>2. memory = WriteCells(call.before, MeantPoint.type, MeantPoint.index, cmd.values)
        BY <3>2 DEF IsAsMeant, BatchLeaves
      <4> QED
        BY <4>1, <4>2 DEF PutBits, MeantPoint
    <3> QED
      BY <1>2, <3>1, <3>2
  <2> HIDE DEF cmd
  <2> QED
    BY <2>1 DEF IsAsked, cmd
<1> QED
  BY <1>1, <1>2 DEF OfBatch, Batches

\* A batch read that returns, returns what the CPU held at the points its literal names, in
\* every coding, frame and format and whatever pieces the answer came in (ReadWords.decode,
\* _transact) ...
THEOREM BatchReadsWhatIsThere ==
    CallsSpec /\ []SentAsMeant => [](OfBatch => ReadsWhatIsThere)
<1>1. ASSUME BatchInv, OfBatch PROVE ReadsWhatIsThere
  <2>1. phase = "idle" /\ outcome.kind = "returned" =>
            outcome.values = BatchThere(call.cmd, MeantPoint, call.before)
    BY <1>1 DEF BatchInv, TellInv, OutcomeTells, TellsOutcome
  <2>2. There(call.cmd) = BatchThere(call.cmd, MeantPoint, call.before)
    BY <1>1 DEF OfBatch, Batches, There, BatchThere, WordsThere, MeantPoint
  <2> QED
    BY <2>1, <2>2 DEF ReadsWhatIsThere
<1> QED
  BY <1>1, BatchesStayTold, PTL

\* ... and a batch write that returns has put its values where its literal says and nowhere
\* else, one that is refused has touched nothing, before the request or by the CPU, whether
\* the ranges were checked or not (HANDLERS, DeviceMemory).
THEOREM BatchMemoryIsWhatWasAsked ==
    CallsSpec /\ []SentAsMeant => [](OfBatch => MemoryIsWhatWasAsked)
<1>1. ASSUME BatchInv, OfBatch PROVE MemoryIsWhatWasAsked
  <2>1. phase = "idle" => TellsOutcome(outcome, memory)
    BY <1>1 DEF BatchInv, TellInv, OutcomeTells
  <2>2. IsAsMeant(memory) => IsAsked(memory, call.cmd)
    BY <1>1, LeavesWhatWasAsked
  <2> QED
    BY <2>1, <2>2 DEF TellsOutcome, IsAsBefore, MemoryIsWhatWasAsked
<1> QED
  BY <1>1, BatchesStayTold, PTL

\* A batch command that a client found nothing wrong with is served, unless the CPU is
\* locked or the range is one that only it knows: the limits, ranges and formats that are
\* checked before the request are no wider than the CPU's (ValidateBatch, check_points,
\* check_range; HANDLERS, _check_count), for any clients and CPUs as `NoWider` says, which
\* the shipped profiles are (`ShippedAssumption`).
THEOREM BatchAcceptedIsServed ==
    ASSUME MadeForTheirCpus
    PROVE  CallsSpec /\ []SentAsMeant => [](OfBatch => AcceptedIsServed)
<1>1. ASSUME BatchInv, OfBatch PROVE AcceptedIsServed
  <2>1. ASSUME phase = "idle", outcome.kind = "end_code", Ctx.validate_ranges
        PROVE  OnlyTheCpuKnows(call.cmd, outcome.values[1])
    <3>1. TellsOutcome(outcome, memory) /\ Strict
      BY <1>1, <2>1 DEF BatchInv, TellInv, OutcomeTells, Strict
    <3>2. outcome.values[1] # 0 /\ Granted(Target, MeantPoint.type, outcome.values[1])
      BY <2>1, <3>1 DEF TellsOutcome, IsExcused
    <3>3. MeantPoint.type \in DevicesNamed(call.cmd)
      <4>1. call.cmd.name \in Batches
        BY <1>1 DEF OfBatch
      <4>2. Named(call.cmd) = <<call.cmd.address>>
        BY <4>1 DEF Named, Batches
      <4> QED
        BY <4>2 DEF DevicesNamed, MeantPoint
    <3>4. CASE Beyond(Target, MeantPoint.type)
      BY <3>3, <3>4 DEF Beyond, OnlyTheCpuKnows
    <3>5. CASE outcome.values[1] = Target.end_codes.password_locked
      BY <3>5 DEF OnlyTheCpuKnows
    <3> QED
      BY <3>2, <3>4, <3>5 DEF Granted
  <2> QED
    BY <2>1 DEF AcceptedIsServed
<1> QED
  BY <1>1, BatchesStayTold, PTL
==============================================================================
