---------------------------- MODULE CommandBase ----------------------------
(***************************************************************************)
(* What every command of src/aslmp/commands has in common: the context it  *)
(* is encoded in (commands/base.py), the subcommand (wire/subcommand.py)   *)
(* and the checks of the values, the spans and the answers.                *)
(*                                                                         *)
(* A check is the name of the refusal, "none" if there is none.            *)
(* An address is a literal, as the caller wrote it.                        *)
(***************************************************************************)
EXTENDS Profiles

\* The first refusal among the n items of a list.
FirstFault(n, Fault(_)) ==
    LET bad == {i \in 1 .. n : Fault(i) # "none"} IN
    IF bad = {} THEN "none" ELSE Fault(Min(bad))

Refuse(condition, refusal) == IF condition THEN refusal ELSE "none"

-----------------------------------------------------------------------------
(***************************************************************************)
(* The subcommand.                                                         *)
(***************************************************************************)

BIT_UNITS == 1
LONG_SPEC == 2
EXTENSION == 128

Subcommand(unit, spec) ==
    (IF unit = "bit" THEN BIT_UNITS ELSE 0) + (IF spec = "long" THEN LONG_SPEC ELSE 0)

\* `decode_subcommand`: a bit nobody knows is refused.
KnownSubcommands == {b + l + e : b \in {0, BIT_UNITS}, l \in {0, LONG_SPEC}, e \in {0, EXTENSION}}
SubcommandUnit(value) == IF value % 2 = BIT_UNITS THEN "bit" ELSE "word"
SubcommandSpec(value) == IF (value \div LONG_SPEC) % 2 = 1 THEN "long" ELSE "short"
Extended(value) == value >= EXTENSION

-----------------------------------------------------------------------------
(***************************************************************************)
(* EncodeContext.                                                          *)
(***************************************************************************)

Context(profile, encoding, spec) ==
    [codec |-> Coding(encoding), spec |-> spec, profile |-> profile, encoding |-> encoding,
     link |-> "cpu", allow_remote_control |-> FALSE, validate_ranges |-> TRUE]

IsContext(ctx) ==
    /\ ctx.encoding \in ctx.profile.allowed_encodings
    /\ ctx.codec = Coding(ctx.encoding)
    /\ ctx.spec \in {"short", "long"}

\* `usage_error_for`: what the caller is told of a refusal of the wire layer.  A
\* number too big for its field ("codec") is not in the table and stays what it is.
UsageError(fault) ==
    CASE fault = "text"     -> "syntax"
      [] fault = "prefix"   -> "unknown_device"
      [] fault = "index"    -> "range"
      [] fault = "spec"     -> "capability"
      [] fault = "notation" -> "encoding"
      [] OTHER -> fault

\* `ctx.address`: a literal in the radix of the profile.
ResolveFault(ctx, text) ==
    UsageError(AddressFault(text, DOMAIN ctx.profile.devices, ctx.profile.radix_overrides))
Resolve(ctx, text) == ParseAddress(text, DOMAIN ctx.profile.devices, ctx.profile.radix_overrides)

SpecOfAddress(ctx, address) ==
    EncodeDeviceSpec(ctx.codec, address, ctx.spec,
                     NotationFor(ctx.profile, address.type, ctx.encoding))
SpecOf(ctx, text) == SpecOfAddress(ctx, Resolve(ctx, text))

\* What encoding an address that was validated may still be refused for.
AddressSpecFault(ctx, address) ==
    UsageError(DeviceSpecFault(ctx.codec, address, ctx.spec,
                               NotationFor(ctx.profile, address.type, ctx.encoding)))
SpecFault(ctx, text) == AddressSpecFault(ctx, Resolve(ctx, text))

SpecLen(ctx) == DevspecLen(ctx.codec, ctx.spec)

\* `require_spec`.
RequireSpec(ctx) ==
    IF ctx.spec = "long" THEN Require(ctx.profile, "long-device-spec") ELSE "none"

\* Without the ranges an absent device is still refused, and a bit of a word.
CheckSpan(ctx, address, points, width) ==
    IF ctx.validate_ranges
    THEN CheckRange(ctx.profile, address, points, width)
    ELSE RequirePresent(ctx.profile, address) ?? RequireWidth(address, width)

-----------------------------------------------------------------------------
(***************************************************************************)
(* Values.  A value of the model is an integer; a negative one travels as  *)
(* its two's complement, which is what Number makes of it.  Of the 32-bit  *)
(* patterns the model has those below 2^31.                                *)
(***************************************************************************)

\* `unsigned`: "raw" is a register, whose sign is in the eye of the reader.
UnsignedFault(value, bits, domain) ==
    LET limit == 2 ^ (bits - 1)
        least == IF domain = "unsigned" THEN 0 ELSE -limit
        most  == IF domain = "signed" THEN limit - 1 ELSE 2 * limit - 1
    IN  CASE bits = 16 /\ value \notin least .. most -> "value"
          [] bits = 32 /\ domain = "unsigned" /\ value < 0 -> "value"
          [] OTHER -> "none"

Signed(value, bits) ==
    IF bits = 16 /\ value >= 2 ^ 15 THEN value - 2 ^ 16 ELSE value

-----------------------------------------------------------------------------
(***************************************************************************)
(* Lists that travel in another order than the caller's: the first kind,   *)
(* then the second, each in the order given.                               *)
(***************************************************************************)

WireOrder(n, First(_)) ==
    LET all == [i \in 1 .. n |-> i]
        Second(i) == ~First(i)
    IN  SelectSeq(all, First) \o SelectSeq(all, Second)

\* Where in the answer the i-th field begins, the fields having these lengths.
FieldOffset(order, i, LenOf(_)) ==
    LET before == SubSeq(order, 1, (CHOOSE k \in DOMAIN order : order[k] = i) - 1) IN
    FoldLeft(LAMBDA sum, j : sum + LenOf(j), 0, before)

SumUpTo(n, LenOf(_)) == FoldLeft(LAMBDA sum, j : sum + LenOf(j), 0, [j \in 1 .. n |-> j])
=============================================================================
