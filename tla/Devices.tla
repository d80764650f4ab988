------------------------------ MODULE Devices ------------------------------
(***************************************************************************)
(* The device families (src/aslmp/wire/devicetable.py), the literals that  *)
(* name a point of one (wire/address.py) and the block that carries a      *)
(* point on the wire (wire/devspec.py).                                    *)
(*                                                                         *)
(* A literal is a sequence of one-character strings, an address a record   *)
(* [type, index]: its source text and its radix take no part in equality.  *)
(* An index of the model stays below 2^31, where the fields hold 2^32 - 1. *)
(***************************************************************************)
EXTENDS Codec

OCTAL == 8
DECIMAL == 10
HEXADECIMAL == 16

-----------------------------------------------------------------------------
(***************************************************************************)
(* The table.  uses: where a command may name the family.                  *)
(***************************************************************************)

Everywhere == {"batch", "random", "monitor", "block"}

DeviceType(name, unit, words, ascii2, short, long, radix, uses) ==
    [name |-> name, unit |-> unit, words_per_point |-> words, ascii2 |-> ascii2,
     code_short |-> short, code_long |-> long, radix |-> radix, uses |-> uses]

Device_B == DeviceType(<<"B">>, "bit", 1, <<"B", "*">>, 160, 160, HEXADECIMAL, Everywhere)
Device_BL == DeviceType(<<"B", "L">>, "bit", 1, <<"B", "L">>, 220, 220, DECIMAL, {})
Device_CC == DeviceType(<<"C", "C">>, "bit", 1, <<"C", "C">>, 195, 195, DECIMAL, {"batch", "block"})
Device_CN == DeviceType(<<"C", "N">>, "word", 1, <<"C", "N">>, 197, 197, DECIMAL, Everywhere)
Device_CS == DeviceType(<<"C", "S">>, "bit", 1, <<"C", "S">>, 196, 196, DECIMAL, {"batch", "block"})
Device_D == DeviceType(<<"D">>, "word", 1, <<"D", "*">>, 168, 168, DECIMAL, Everywhere)
Device_DX == DeviceType(<<"D", "X">>, "bit", 1, <<"D", "X">>, 162, 162, HEXADECIMAL, Everywhere)
Device_DY == DeviceType(<<"D", "Y">>, "bit", 1, <<"D", "Y">>, 163, 163, HEXADECIMAL, Everywhere)
Device_F == DeviceType(<<"F">>, "bit", 1, <<"F", "*">>, 147, 147, DECIMAL, Everywhere)
Device_G == DeviceType(<<"G">>, "word", 1, <<"G", "*">>, 171, 171, DECIMAL, Everywhere)
Device_L == DeviceType(<<"L">>, "bit", 1, <<"L", "*">>, 146, 146, DECIMAL, Everywhere)
Device_LCC == DeviceType(<<"L", "C", "C">>, "bit", 1, <<>>, NoNumber, 84, DECIMAL, {"batch", "block"})
Device_LCN == DeviceType(<<"L", "C", "N">>, "word", 2, <<>>, NoNumber, 86, DECIMAL, Everywhere)
Device_LCS == DeviceType(<<"L", "C", "S">>, "bit", 1, <<>>, NoNumber, 85, DECIMAL, {"batch", "block"})
Device_LSTC == DeviceType(<<"L", "S", "T", "C">>, "bit", 1, <<>>, NoNumber, 88, DECIMAL, {})
Device_LSTN == DeviceType(<<"L", "S", "T", "N">>, "word", 2, <<>>, NoNumber, 90, DECIMAL, {"random", "monitor"})
Device_LSTS == DeviceType(<<"L", "S", "T", "S">>, "bit", 1, <<>>, NoNumber, 89, DECIMAL, {})
Device_LTC == DeviceType(<<"L", "T", "C">>, "bit", 1, <<>>, NoNumber, 80, DECIMAL, {})
Device_LTN == DeviceType(<<"L", "T", "N">>, "word", 2, <<>>, NoNumber, 82, DECIMAL, {"random", "monitor"})
Device_LTS == DeviceType(<<"L", "T", "S">>, "bit", 1, <<>>, NoNumber, 81, DECIMAL, {})
Device_LZ == DeviceType(<<"L", "Z">>, "word", 2, <<>>, NoNumber, 98, DECIMAL, {"random", "monitor"})
Device_M == DeviceType(<<"M">>, "bit", 1, <<"M", "*">>, 144, 144, DECIMAL, Everywhere)
Device_R == DeviceType(<<"R">>, "word", 1, <<"R", "*">>, 175, 175, DECIMAL, Everywhere)
Device_RD == DeviceType(<<"R", "D">>, "word", 1, <<>>, NoNumber, 44, DECIMAL, Everywhere)
Device_S == DeviceType(<<"S">>, "bit", 1, <<"S", "*">>, 152, 152, DECIMAL, Everywhere)
Device_SB == DeviceType(<<"S", "B">>, "bit", 1, <<"S", "B">>, 161, 161, HEXADECIMAL, Everywhere)
Device_SD == DeviceType(<<"S", "D">>, "word", 1, <<"S", "D">>, 169, 169, DECIMAL, Everywhere)
Device_SM == DeviceType(<<"S", "M">>, "bit", 1, <<"S", "M">>, 145, 145, DECIMAL, Everywhere)
Device_STC == DeviceType(<<"S", "T", "C">>, "bit", 1, <<"S", "C">>, 198, 198, DECIMAL, {"batch", "block"})
Device_STN == DeviceType(<<"S", "T", "N">>, "word", 1, <<"S", "N">>, 200, 200, DECIMAL, Everywhere)
Device_STS == DeviceType(<<"S", "T", "S">>, "bit", 1, <<"S", "S">>, 199, 199, DECIMAL, {"batch", "block"})
Device_SW == DeviceType(<<"S", "W">>, "word", 1, <<"S", "W">>, 181, 181, HEXADECIMAL, Everywhere)
Device_TC == DeviceType(<<"T", "C">>, "bit", 1, <<"T", "C">>, 192, 192, DECIMAL, {"batch", "block"})
Device_TN == DeviceType(<<"T", "N">>, "word", 1, <<"T", "N">>, 194, 194, DECIMAL, Everywhere)
Device_TS == DeviceType(<<"T", "S">>, "bit", 1, <<"T", "S">>, 193, 193, DECIMAL, {"batch", "block"})
Device_V == DeviceType(<<"V">>, "bit", 1, <<"V", "*">>, 148, 148, DECIMAL, Everywhere)
Device_W == DeviceType(<<"W">>, "word", 1, <<"W", "*">>, 180, 180, HEXADECIMAL, Everywhere)
Device_X == DeviceType(<<"X">>, "bit", 1, <<"X", "*">>, 156, 156, HEXADECIMAL, Everywhere)
Device_Y == DeviceType(<<"Y">>, "bit", 1, <<"Y", "*">>, 157, 157, HEXADECIMAL, Everywhere)
Device_Z == DeviceType(<<"Z">>, "word", 1, <<"Z", "*">>, 204, 204, DECIMAL, Everywhere)
Device_ZR == DeviceType(<<"Z", "R">>, "word", 1, <<"Z", "R">>, 176, 176, HEXADECIMAL, Everywhere)

DEVICE_TABLE ==
    {Device_B, Device_BL, Device_CC, Device_CN, Device_CS, Device_D, Device_DX,
     Device_DY, Device_F, Device_G, Device_L, Device_LCC, Device_LCN, Device_LCS,
     Device_LSTC, Device_LSTN, Device_LSTS, Device_LTC, Device_LTN, Device_LTS,
     Device_LZ, Device_M, Device_R, Device_RD, Device_S, Device_SB, Device_SD,
     Device_SM, Device_STC, Device_STN, Device_STS, Device_SW, Device_TC, Device_TN,
     Device_TS, Device_V, Device_W, Device_X, Device_Y, Device_Z, Device_ZR}

\* `min_spec`: a family with no one-byte code is reached by the long form only.
LongOnly(dt) == dt.code_short = NoNumber

-----------------------------------------------------------------------------
(***************************************************************************)
(* Literals.                                                               *)
(***************************************************************************)

Address(dt, index) == [type |-> dt, index |-> index]

LowerCase == <<"a", "b", "c", "d", "e", "f", "g", "h", "i", "j", "k", "l", "m",
               "n", "o", "p", "q", "r", "s", "t", "u", "v", "w", "x", "y", "z">>
UpperCase == <<"A", "B", "C", "D", "E", "F", "G", "H", "I", "J", "K", "L", "M",
               "N", "O", "P", "Q", "R", "S", "T", "U", "V", "W", "X", "Y", "Z">>
Upper(ch) == IF Contains(LowerCase, ch)
             THEN UpperCase[CHOOSE i \in 1 .. 26 : LowerCase[i] = ch] ELSE ch

\* `text.strip().upper()`.
Literal(text) ==
    LET ink == {i \in DOMAIN text : text[i] # " "} IN
    IF ink = {} THEN <<>>
    ELSE [i \in 1 .. Max(ink) - Min(ink) + 1 |-> Upper(text[Min(ink) + i - 1])]

\* The families are those of a table, which is DEVICE_TABLE.
Families(literal, table) == {dt \in table : IsPrefix(dt.name, literal)}

\* SB begins with S: the longest name that fits is the family.
Family(literal, table) ==
    LET fitting == Families(literal, table) IN
    CHOOSE dt \in fitting : \A other \in fitting : Len(other.name) <= Len(dt.name)
DigitsOf(literal, dt) == SubSeq(literal, Len(dt.name) + 1, Len(literal))

RadixDigits(radix) == {HexDigits[i] : i \in 1 .. radix}

\* A fault for RadixOn: the table's radix, whatever the profile.
RadixOfTable(overrides, dt) == dt.radix

\* `radix_for`: the radix of a family on a CPU, which the profile may override.
RadixOn(overrides, dt) == IF dt \in DOMAIN overrides THEN overrides[dt] ELSE dt.radix

MaxDigits == 12

\* A literal is an address or it is refused: no part of one is ever used.
\* The radix of each family is the profile's, never the family's own.
DigitsFault(digits, radix) ==
    CASE digits = <<>> -> "text"
      [] Len(digits) > MaxDigits -> "index"
      [] ~(Range(digits) \subseteq RadixDigits(radix)) -> "radix"
      [] OTHER -> "none"

LiteralFault(literal, table, overrides) ==
    LET OfFamily(dt) == DigitsFault(DigitsOf(literal, dt), RadixOn(overrides, dt)) IN
    CASE literal = <<>> \/ ~(Range(literal) \subseteq Letter \cup HexDigit) -> "text"
      [] Families(literal, table) = {} -> "prefix"
      [] OTHER -> OfFamily(Family(literal, table))

AddressFault(text, table, overrides) == LiteralFault(Literal(text), table, overrides)

\* `parse_address`, where AddressFault is "none".
AddressOf(literal, dt, overrides) ==
    Address(dt, FromDigits(DigitsOf(literal, dt), RadixOn(overrides, dt)))
ParseLiteral(literal, table, overrides) == AddressOf(literal, Family(literal, table), overrides)
ParseAddress(text, table, overrides) == ParseLiteral(Literal(text), table, overrides)

\* `format_address`: no padding.
FormatAddress(address, radix) ==
    LET wide == Digits(address.index, 7, radix)
        ink  == {i \in 1 .. 7 : wide[i] # "0"}
    IN  address.type.name \o (IF ink = {} THEN <<"0">> ELSE SubSeq(wide, Min(ink), 7))

\* `offset`: before the first device there is none.
Offset(address, delta) == [address EXCEPT !.index = @ + delta]

-----------------------------------------------------------------------------
(***************************************************************************)
(* The device specification.                                               *)
(***************************************************************************)

OctalNotation == {Device_X, Device_Y}

\* `emit_base`: VALUE is the radix of the table, not of the literal.
EmitBase(dt, notation) == IF notation = "value" THEN dt.radix ELSE OCTAL

DeviceSpecFault(c, address, spec, notation) ==
    CASE notation = "octal-digits" /\ (c # "ascii" \/ address.type \notin OctalNotation) -> "notation"
      [] ~HasDeviceNumber(c, address.index, spec, EmitBase(address.type, notation)) -> "codec"
      [] ~HasDeviceCode(c, address.type, spec) -> "spec"
      [] OTHER -> "none"

\* The number comes first in binary and the code in ASCII.
EncodeDeviceSpec(c, address, spec, notation) ==
    LET code   == DeviceCode(c, address.type, spec)
        number == DeviceNumber(c, address.index, spec, EmitBase(address.type, notation))
    IN  IF c = "binary" THEN number \o code ELSE code \o number

DevspecLen(c, spec) == DeviceCodeLen(c, spec) + DeviceNumberLen(c, spec)
=============================================================================
