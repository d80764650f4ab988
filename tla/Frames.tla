------------------------------- MODULE Frames -------------------------------
(***************************************************************************)
(* The 3E and 4E frames of src/aslmp/wire/frames.py, with the access route *)
(* (wire/route.py), the error block and the parsed messages (wire/raw.py). *)
(*                                                                         *)
(* A parser is two operators: the refusal, "none" for a message that is    *)
(* understood, and the record it then yields.  The refusals are named      *)
(* after the exceptions: "short", "trailing", "unsolicited", "serial",     *)
(* "error_info", "format" for the rest of the SlmpFrameError family, and   *)
(* "route" for SlmpRouteError, which is not of that family.                *)
(***************************************************************************)
EXTENDS Codec

Subheader(binary, ascii) == [binary |-> binary, ascii |-> ascii]

THREE_E == [frame_type |-> "3E", carries_serial |-> FALSE,
            request  |-> Subheader(<<80, 0>>,  <<"5", "0", "0", "0">>),
            response |-> Subheader(<<208, 0>>, <<"D", "0", "0", "0">>)]
FOUR_E  == [frame_type |-> "4E", carries_serial |-> TRUE,
            request  |-> Subheader(<<84, 0>>,  <<"5", "4", "0", "0">>),
            response |-> Subheader(<<212, 0>>, <<"D", "4", "0", "0">>)]
Frames == {THREE_E, FOUR_E}

NoSerial == NoNumber

-----------------------------------------------------------------------------
(***************************************************************************)
(* Route.                                                                  *)
(***************************************************************************)

MODULE_IO_MAX == 65535

OwnStation == [network |-> 0, station |-> 255, module_io |-> 1023, multidrop |-> 0]

\* `Route.__post_init__`: 240..255 are not networks, 121..123 and 127..254 not stations.
IsRoute(r) ==
    /\ r.network \in 0 .. 239
    /\ r.station \in (1 .. 120) \cup {124, 125, 126, 255}
    /\ r.module_io \in 0 .. MODULE_IO_MAX
    /\ r.multidrop \in 0 .. 31

RouteLen(c) == 3 * NumberLen(c, 8) + NumberLen(c, 16)

EncodeRoute(c, r) ==
    Number(c, r.network, 8) \o Number(c, r.station, 8)
        \o Number(c, r.module_io, 16) \o Number(c, r.multidrop, 8)

DecodeRoute(c, buf, off) ==
    LET octet == NumberLen(c, 8) IN
    [network   |-> ReadNumber(c, buf, off, 8),
     station   |-> ReadNumber(c, buf, off + octet, 8),
     module_io |-> ReadNumber(c, buf, off + 2 * octet, 16),
     multidrop |-> ReadNumber(c, buf, off + 2 * octet + NumberLen(c, 16), 8)]

RouteFault(r) ==
    CASE NoNumber \in {r.network, r.station, r.module_io, r.multidrop} -> "format"
      [] IsRoute(r) -> "none"
      [] OTHER -> "route"

-----------------------------------------------------------------------------
(***************************************************************************)
(* Arithmetic.  L counts what follows it; the subheader, the route and L   *)
(* itself are the prefix.                                                  *)
(***************************************************************************)

SerialBlockUnits == 4
PrefixBinaryUnits == 5 + 2
RequestMinUnits == 6
AbnormalMinUnits == 11

SubheaderUnits(f, c) ==
    (Len(f.request.binary) + (IF f.carries_serial THEN SerialBlockUnits ELSE 0)) * Width(c)
\* What stands before L, and L.
PrefixUnits(f, c) == SubheaderUnits(f, c) + PrefixBinaryUnits * Width(c)

DataOffset(f, c) == PrefixUnits(f, c) + NumberLen(c, 16)
SerialOffset(c) == NumberLen(c, 16)

-----------------------------------------------------------------------------
(***************************************************************************)
(* Building.                                                               *)
(***************************************************************************)

SubheaderOf(f, c, serial, head) ==
    head[c] \o (IF f.carries_serial THEN Number(c, serial, 16) \o Number(c, 0, 16) ELSE <<>>)

Assemble(head, route, body, c) ==
    head \o EncodeRoute(c, route) \o Number(c, Len(body), 16) \o body

\* `build`.  What it refuses, a serial or a body that its field does not hold, no client
\* of the model asks for.
Build(f, c, route, serial, body) == Assemble(SubheaderOf(f, c, serial, f.request), route, body, c)
BuildResponse(f, c, route, serial, body) ==
    Assemble(SubheaderOf(f, c, serial, f.response), route, body, c)

RequestBody(c, timer, command, sub, payload) ==
    Number(c, timer, 16) \o Number(c, command, 16) \o Number(c, sub, 16) \o payload

ErrorInfo(responding, command, sub) ==
    [responding |-> responding, command |-> command, subcommand |-> sub]
EncodeErrorInfo(c, info) ==
    EncodeRoute(c, info.responding) \o Number(c, info.command, 16) \o Number(c, info.subcommand, 16)
DecodeErrorInfo(c, buf, off) ==
    ErrorInfo(DecodeRoute(c, buf, off),
              ReadNumber(c, buf, off + RouteLen(c), 16),
              ReadNumber(c, buf, off + RouteLen(c) + NumberLen(c, 16), 16))

NormalBody(c, payload) == Number(c, 0, 16) \o payload
AbnormalBody(c, end_code, info, extra) ==
    Number(c, end_code, 16) \o EncodeErrorInfo(c, info) \o extra

-----------------------------------------------------------------------------
(***************************************************************************)
(* Parsing.                                                                *)
(***************************************************************************)

\* `FramePrefix`: what the fixed part tells, L included.
Prefix(f, c, buf) ==
    [serial   |-> IF f.carries_serial THEN ReadNumber(c, buf, SerialOffset(c), 16) ELSE NoSerial,
     route    |-> DecodeRoute(c, buf, SubheaderUnits(f, c)),
     declared |-> ReadNumber(c, buf, SubheaderUnits(f, c) + RouteLen(c), 16)]

\* `_check_declared`: L covers at least the fields every message has.
MinimumDeclared(c, response) ==
    IF response THEN NumberLen(c, 16) ELSE RequestMinUnits * Width(c)

\* `_check_subheader`: a request where a response is due is not an answer.
SubheaderFault(f, c, buf, response) ==
    LET due   == (IF response THEN f.response ELSE f.request)[c]
        other == (IF response THEN f.request ELSE f.response)[c]
        got   == Span(buf, 0, Len(due))
    IN  CASE got = due -> "none"
          [] got = other /\ response -> "unsolicited"
          [] OTHER -> "format"

PrefixFault(f, c, buf, response) ==
    LET Fields(p) ==
            CASE f.carries_serial /\ p.serial = NoNumber -> "format"
              [] RouteFault(p.route) # "none" -> RouteFault(p.route)
              [] p.declared < MinimumDeclared(c, response) -> "format"
              [] OTHER -> "none"
    IN  IF Len(buf) < PrefixUnits(f, c) THEN "short"
        ELSE SubheaderFault(f, c, buf, response) ?? Fields(Prefix(f, c, buf))

\* `_parse_span`: the buffer is the prefix and L units, no fewer and no more.
SpanFault(f, c, data, response) ==
    LET Spanning(total) ==
            CASE Len(data) < total -> "short"
              [] Len(data) > total -> "trailing"
              [] OTHER -> "none"
    IN  PrefixFault(f, c, data, response) ?? Spanning(PrefixUnits(f, c) + Prefix(f, c, data).declared)

EndCode(f, c, data) == ReadNumber(c, data, PrefixUnits(f, c), 16)

\* `_parse_abnormal`: no end code is reported without its whole error block.
AbnormalFault(f, c, data) ==
    LET Judge(info) ==
            RouteFault(info.responding)
            ?? (IF NoNumber \in {info.command, info.subcommand} THEN "format" ELSE "none")
    IN  IF Prefix(f, c, data).declared < AbnormalMinUnits * Width(c) THEN "error_info"
        ELSE Judge(DecodeErrorInfo(c, data, DataOffset(f, c)))

\* `parse`: expected is the serial sent, or NoSerial.
ParseFault(f, c, data, expected) ==
    LET Judge(code) ==
            CASE code = NoNumber -> "format"
              [] code = 0 -> "none"
              [] OTHER -> AbnormalFault(f, c, data)
        stranger == expected # NoSerial /\ Prefix(f, c, data).serial # expected
    IN  SpanFault(f, c, data, TRUE)
        ?? (IF stranger THEN "serial" ELSE "none")
        ?? Judge(EndCode(f, c, data))

NoErrorInfo == ErrorInfo(OwnStation, NoNumber, NoNumber)

\* `RawResponse`: a payload or an error block, never both.
RawResponse(f, c, data) ==
    LET code == EndCode(f, c, data)
        rest == SubSeq(data, DataOffset(f, c) + 1, Len(data))
    IN  [serial     |-> Prefix(f, c, data).serial,
         end_code   |-> code,
         payload    |-> IF code = 0 THEN rest ELSE <<>>,
         error_info |-> IF code = 0 THEN NoErrorInfo
                                    ELSE DecodeErrorInfo(c, data, DataOffset(f, c))]

\* `parse_request`, for whoever stands in for the CPU.
RequestFault(f, c, data) ==
    LET field(i) == ReadNumber(c, data, PrefixUnits(f, c) + i * NumberLen(c, 16), 16) IN
    SpanFault(f, c, data, FALSE)
    ?? (IF \E i \in 0 .. 2 : field(i) = NoNumber THEN "format" ELSE "none")

RawRequest(f, c, data) ==
    LET field(i) == ReadNumber(c, data, PrefixUnits(f, c) + i * NumberLen(c, 16), 16) IN
    [serial           |-> Prefix(f, c, data).serial,
     route            |-> Prefix(f, c, data).route,
     monitoring_timer |-> field(0),
     command          |-> field(1),
     subcommand       |-> field(2),
     payload          |-> SubSeq(data, PrefixUnits(f, c) + 3 * NumberLen(c, 16) + 1, Len(data))]
=============================================================================
