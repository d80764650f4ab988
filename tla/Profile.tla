------------------------------ MODULE Profile ------------------------------
(***************************************************************************)
(* What a CPU model is asked for and what it is refused before anything is *)
(* sent: src/aslmp/profile.py.  A check is the refusal, "none" if there is *)
(* none; its name is that of the exception:                                *)
(*   "not_on_cpu", "not_allowed", "range", "point_limit", "capability",    *)
(*   "encoding" and, for a table with no such row, "configuration".        *)
(* Evidence, citations and the wording of a refusal are left out.          *)
(***************************************************************************)
EXTENDS Devices, TLC

CpuFamily == {"iq-f", "iq-r", "q", "l"}
Encoding == {"binary", "ascii-xy-oct", "ascii-xy-hex"}
Coding(enc) == IF enc = "binary" THEN "binary" ELSE "ascii"

NONE == 0
EXCEPT_LATCH == 1
INCLUDING_LATCH == 2

Capability == {"batch-access", "random-access", "block-access", "monitor", "long-device-spec",
               "self-test", "read-type-name", "clear-error", "remote-control", "remote-reset",
               "remote-password", "4e-frame"}

-----------------------------------------------------------------------------
(***************************************************************************)
(* Limits.  One rule per (command, encoding, unit, link).                  *)
(***************************************************************************)

Flat(maximum) == [shape |-> "flat", max |-> maximum]
Weighted(word, dword, maximum) ==
    [shape |-> "weighted", word |-> word, dword |-> dword, max |-> maximum]
BlockRule(blocks, overhead, total) ==
    [shape |-> "block", blocks |-> blocks, overhead |-> overhead, max |-> total]

Points(word, dword, bit, blocks) == [word |-> word, dword |-> dword, bit |-> bit, blocks |-> blocks]

Exceeded(rule, n) ==
    CASE rule.shape = "flat"     -> n.word + n.dword + n.bit > rule.max
      [] rule.shape = "weighted" -> n.word * rule.word + n.dword * rule.dword > rule.max
      [] rule.shape = "block"    -> \/ n.blocks > rule.blocks
                                    \/ n.word + n.dword + n.bit + n.blocks * rule.overhead > rule.max

\* `_check_rule_shape`: a count no rule looks at would be an unchecked count.
FitsShape(rule, n) ==
    /\ n.blocks > 0 <=> rule.shape = "block"
    /\ n.bit > 0 => rule.shape # "weighted"

CheckPoints(p, key, n) ==
    CASE key \notin DOMAIN p.limits -> "configuration"
      [] ~FitsShape(p.limits[key], n) -> "configuration"
      [] n.word + n.dword + n.bit + n.blocks = 0 -> "point_limit"
      [] Exceeded(p.limits[key], n) -> "point_limit"
      [] OTHER -> "none"

-----------------------------------------------------------------------------
(***************************************************************************)
(* Device ranges.                                                          *)
(***************************************************************************)

DeviceRange(first, last) == [kind |-> "span", first |-> first, last |-> last]
Absent        == [kind |-> "absent", first |-> 0, last |-> -1]
Unallocated   == [kind |-> "unallocated", first |-> 0, last |-> -1]
NoStaticRange == [kind |-> "no_static_range", first |-> 0, last |-> -1]

RangeKinds == {"span", "absent", "unallocated", "no_static_range"}
IsRange(r) == r.kind \in RangeKinds /\ (r.kind = "span" => r.first \in Nat /\ r.last \in Nat /\ r.last >= r.first)

RequirePresent(p, address) ==
    CASE p.devices[address.type].kind = "absent"      -> "not_on_cpu"
      [] p.devices[address.type].kind = "unallocated" -> "range"
      [] OTHER -> "none"

\* A bit-unit request cannot address a word device, whatever its range.
RequireWidth(address, width) ==
    IF width = "bit" /\ address.type.unit = "word" THEN "not_allowed" ELSE "none"

\* A fault for SpanOf: only the head of the span is looked at.
SpanOfHead(address, points, width) == 1

\* `_span_of`: a word point of a bit device is sixteen device numbers.
SpanOf(address, points, width) ==
    IF width # address.type.unit /\ width = "word" THEN 16 * points ELSE points

CheckRange(p, address, points, width) ==
    LET r == p.devices[address.type]
        last == address.index + SpanOf(address, points, width) - 1
    IN  CASE points = 0 -> "point_limit"
          [] RequirePresent(p, address) # "none" -> RequirePresent(p, address)
          [] RequireWidth(address, width) # "none" -> RequireWidth(address, width)
          [] r.kind = "span" /\ (address.index < r.first \/ last > r.last) -> "range"
          [] OTHER -> "none"

-----------------------------------------------------------------------------
(***************************************************************************)
(* Radix, notation and capabilities.                                       *)
(***************************************************************************)

RadixFor(p, dt) == RadixOn(p.radix_overrides, dt)

NotationFor(p, dt, enc) ==
    CASE enc \notin p.allowed_encodings -> "encoding"
      [] enc = "ascii-xy-oct" /\ RadixFor(p, dt) = OCTAL -> "octal-digits"
      [] OTHER -> "value"

Require(p, capability) == IF capability \in p.capabilities THEN "none" ELSE "capability"

\* `__post_init__`: a profile with a hole in it does not build.
IsProfile(p) ==
    /\ p.family \in CpuFamily
    /\ DOMAIN p.devices = DEVICE_TABLE
    /\ \A dt \in DEVICE_TABLE : IsRange(p.devices[dt])
    /\ DOMAIN p.radix_overrides \subseteq DEVICE_TABLE
    /\ "binary" \in p.allowed_encodings
    /\ "ascii-xy-oct" \in p.allowed_encodings => p.family = "iq-f"
    /\ \A key \in DOMAIN p.limits : key[2] \in p.allowed_encodings
    /\ p.capabilities \subseteq Capability
    /\ Len(p.remote_fixed_field) = 2
    /\ NONE \in p.allowed_clear_modes
=============================================================================
