------------------------------- MODULE Codec -------------------------------
(***************************************************************************)
(* The two communication data codes of src/aslmp/wire/codec.py, and the    *)
(* fields every frame and every command is made of.                        *)
(*                                                                         *)
(* A wire unit is a byte 0..255 in binary and a one-character string in    *)
(* ASCII, so that "A8" the mnemonic and A8H the number cannot be confused  *)
(* and no unit of one coding is a unit of the other.  The widths, orders   *)
(* and paddings are those of the code.  A reader returns NoNumber or       *)
(* NoPoints where the code raises an SlmpCodecError.                       *)
(***************************************************************************)
EXTENDS Integers, Sequences, SequencesExt

Codecs == {"binary", "ascii"}

\* A device specification is "short" or "long", an access counts in "bit" or "word".
Width(c) == IF c = "binary" THEN 1 ELSE 2

UINT16_MAX == 65535
NoNumber == -1
NoPoints == <<NoNumber>>

-----------------------------------------------------------------------------
\* A fault is the name of a refusal, "none" if there is none, and a ?? b is b once a has
\* nothing against it: the order of the raises.
a ?? b == IF a # "none" THEN a ELSE b

-----------------------------------------------------------------------------
(***************************************************************************)
(* Digits.                                                                 *)
(***************************************************************************)

HexDigits == <<"0", "1", "2", "3", "4", "5", "6", "7", "8", "9", "A", "B", "C", "D", "E", "F">>
HexDigit == {HexDigits[i] : i \in 1 .. 16}
Letter == {"A", "B", "C", "D", "E", "F", "G", "H", "I", "J", "K", "L", "M",
           "N", "O", "P", "Q", "R", "S", "T", "U", "V", "W", "X", "Y", "Z"}

\* The value of a digit, by table: the readers of a run meet it most.
DigitValue == [d \in HexDigit |-> CHOOSE v \in 0 .. 15 : HexDigits[v + 1] = d]

\* Values stay below 2^31 in the model, so that every 32-bit field fits.
FitsUnsigned(v, bits) == v >= 0 /\ (bits < 31 => v < 2 ^ bits)

\* Without the mask that makes an octet of a number.
LittleEndianUnmasked(v, octets) == [i \in 1 .. octets |-> v \div 256 ^ (i - 1)]

LittleEndian(v, octets) == [i \in 1 .. octets |-> (v \div 256 ^ (i - 1)) % 256]

Digits(v, n, base) == [i \in 1 .. n |-> HexDigits[1 + ((v \div base ^ (n - i)) % base)]]

\* Horner's rule, from the most significant unit on.
FromLittleEndian(raw) ==
    LET from[i \in 1 .. Len(raw) + 1] == IF i > Len(raw) THEN 0 ELSE from[i + 1] * 256 + raw[i]
    IN  from[1]
FromDigits(raw, base) ==
    LET upto[i \in 0 .. Len(raw)] == IF i = 0 THEN 0 ELSE upto[i - 1] * base + DigitValue[raw[i]]
    IN  upto[Len(raw)]

\* `_span`: a slice that ran short is an error, never a shorter number.
HasSpan(buf, off, n) == off + n <= Len(buf)
Span(buf, off, n) == SubSeq(buf, off + 1, off + n)

\* `_check_hex`: capitals only, in ASCII.
Legible(c, raw) == c = "binary" \/ Range(raw) \subseteq HexDigit

-----------------------------------------------------------------------------
(***************************************************************************)
(* Numeric fields.                                                         *)
(***************************************************************************)

NumberLen(c, bits) == (bits \div 8) * Width(c)

Number(c, v, bits) ==
    IF c = "binary" THEN LittleEndian(v, bits \div 8) ELSE Digits(v, bits \div 4, 16)

Raw2Number(c, raw) == IF c = "binary" THEN FromLittleEndian(raw) ELSE FromDigits(raw, 16)

ReadNumber(c, buf, off, bits) ==
    LET raw == Span(buf, off, NumberLen(c, bits)) IN
    IF HasSpan(buf, off, NumberLen(c, bits)) /\ Legible(c, raw)
    THEN Raw2Number(c, raw) ELSE NoNumber

-----------------------------------------------------------------------------
(***************************************************************************)
(* Device specification fields.  A device type is a record with code_short *)
(* (NoNumber if it has none), code_long, its name, and its mnemonic ascii2. *)
(***************************************************************************)

DeviceCodeLen(c, spec) ==
    IF spec = "short" THEN Width(c) ELSE 2 * Width(c)

\* The four-character mnemonic is the name, padded.
Ascii4(dt) == [i \in 1 .. 4 |-> IF i <= Len(dt.name) THEN dt.name[i] ELSE "*"]

HasDeviceCode(c, dt, spec) ==
    CASE spec = "long" -> TRUE   \* as long as Ascii4 is
      [] spec = "short" /\ c = "binary" -> dt.code_short # NoNumber
      [] spec = "short" /\ c = "ascii"  -> Len(dt.ascii2) = 2

\* The mnemonic in ASCII, never the digits of the binary code.
DeviceCode(c, dt, spec) ==
    CASE c = "binary" /\ spec = "short" -> <<dt.code_short>>
      [] c = "binary" /\ spec = "long"  -> LittleEndian(dt.code_long, 2)
      [] c = "ascii"  /\ spec = "short" -> dt.ascii2
      [] c = "ascii"  /\ spec = "long"  -> Ascii4(dt)

DeviceNumberLen(c, spec) ==
    CASE c = "binary" -> IF spec = "short" THEN 3 ELSE 4
      [] c = "ascii"  -> IF spec = "short" THEN 6 ELSE 8

\* A decimal or octal field holds less than the binary one of the same width.
HasDeviceNumber(c, index, spec, base) ==
    LET n == DeviceNumberLen(c, spec) IN
    IF c = "binary" THEN FitsUnsigned(index, 8 * n)
                    ELSE index >= 0 /\ index \div base ^ (n - 1) < base

\* The linear index: its bytes, or its digits in the device's own radix.
DeviceNumber(c, index, spec, base) ==
    LET n == DeviceNumberLen(c, spec) IN
    IF c = "binary" THEN LittleEndian(index, n) ELSE Digits(index, n, base)

\* `parse_ascii_device_code`: '*' and ' ' both pad, only at the end, and what
\* is left is capitals and digits.
Padding == {"*", " "}
Mnemonic(field) ==
    LET kept == {i \in DOMAIN field : field[i] \notin Padding}
        body == IF kept = {} THEN <<>> ELSE SubSeq(field, 1, Max(kept))
    IN  IF Range(body) \subseteq Letter \cup HexDigit THEN body ELSE <<>>

-----------------------------------------------------------------------------
(***************************************************************************)
(* Bulk data.  A bit point is 0 or 1.                                      *)
(***************************************************************************)

WordDataLen(c, count) == 2 * count * Width(c)
Words(c, values) ==
    LET n == NumberLen(c, 16) IN
    [u \in 1 .. WordDataLen(c, Len(values)) |->
        Number(c, values[1 + ((u - 1) \div n)], 16)[1 + ((u - 1) % n)]]

ReadWords(c, buf, off, count) ==
    LET raw == Span(buf, off, WordDataLen(c, count)) IN
    IF HasSpan(buf, off, WordDataLen(c, count)) /\ Legible(c, raw)
    THEN [i \in 1 .. count |-> ReadNumber(c, raw, NumberLen(c, 16) * (i - 1), 16)]
    ELSE NoPoints

\* One character per point in ASCII and two points to a byte in binary: the one
\* length that is not twice the other.
BitDataLen(c, count) == IF c = "binary" THEN (count + 1) \div 2 ELSE count

Bits(c, values) ==
    LET point(i) == IF i \in DOMAIN values THEN values[i] ELSE 0 IN
    IF c = "binary"
    THEN [i \in 1 .. BitDataLen(c, Len(values)) |-> 16 * point(2 * i - 1) + point(2 * i)]
    ELSE [i \in DOMAIN values |-> HexDigits[1 + values[i]]]

\* Anything but 0 and 1 is refused, and so is a padding nibble that is not 0.
ReadBits(c, buf, off, count) ==
    LET raw == Span(buf, off, BitDataLen(c, count))
        nibble(i) == IF i % 2 = 1 THEN raw[(i + 1) \div 2] \div 16 ELSE raw[i \div 2] % 16
        point(i) == IF c = "binary" THEN nibble(i) ELSE
                    IF raw[i] \in HexDigit THEN DigitValue[raw[i]] ELSE 2
        padded == c = "binary" /\ count % 2 = 1
    IN  IF /\ HasSpan(buf, off, BitDataLen(c, count))
           /\ \A i \in 1 .. count : point(i) \in {0, 1}
           /\ padded => nibble(count + 1) = 0
        THEN [i \in 1 .. count |-> point(i)]
        ELSE NoPoints

-----------------------------------------------------------------------------
LoopbackMinBytes == 1
LoopbackMaxBytes == 960

\* The characters 0-9 and A-F, as this coding carries them.
LoopbackUnit(c) == IF c = "binary" THEN (48 .. 57) \cup (65 .. 70) ELSE HexDigit

LoopbackPayloadOk(c, data) ==
    /\ Len(data) \in LoopbackMinBytes .. LoopbackMaxBytes
    /\ Range(data) \subseteq LoopbackUnit(c)
=============================================================================
