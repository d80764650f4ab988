------------------------------- MODULE Verbs -------------------------------
(***************************************************************************)
(* The methods of Plc (src/aslmp/client.py) that are more than one command *)
(* of the caller's own: what each refuses, what it asks of the CPU, one    *)
(* request after another, and what it makes of the answers.                *)
(*                                                                         *)
(* A verb is a record.  What it does next is a set of steps, given the     *)
(* values of the answers so far: it asks, or it returns, or it raises.  A  *)
(* value is a sequence, as in BlockLayout; a bound of a real number and a  *)
(* real number that is none of its width are left out.                     *)
(***************************************************************************)
EXTENDS BlockLayout

CONSTANT MaxPolls   \* bound: how often SD203 is read before the deadline of `_apply`

AskFor(cmd)   == [do |-> "ask", cmd |-> cmd]
Return(value) == [do |-> "return", value |-> value]
Raise(why)    == [do |-> "raise", why |-> why]

-----------------------------------------------------------------------------
(***************************************************************************)
(* Registers and values.                                                   *)
(***************************************************************************)

\* A fault for OrderWords: the order the client was opened with.
AsTheyCome(words, order) == words

\* `_order_words`.
OrderWords(words, order) == IF order = "low-first" THEN words ELSE Reverse(words)

\* `_to_words`, of one number or of the double words of one.
ToWords(spec, value, order) ==
    IF spec.words = 1 THEN <<value[1] % 65536>>
    ELSE LET half(k) == IF k % 2 = 1 THEN value[(k + 1) \div 2] ELSE value[k \div 2] \div 65536
         IN  OrderWords([k \in 1 .. spec.words |-> half(k) % 65536], order)

\* `_from_words`, and the unpacking.
FromWords(spec, words, order) ==
    LET low     == OrderWords(words, order)
        high(k) == IF spec.kind = "i32" THEN Signed(low[2 * k], 16) ELSE low[2 * k]
    IN  IF spec.words = 1 THEN <<IF spec.kind = "i16" THEN Signed(words[1], 16) ELSE words[1]>>
        ELSE [k \in 1 .. spec.words \div 2 |-> high(k) * 65536 + low[2 * k - 1]]

\* `_string_words`: two octets a register, and none for a NUL.
TextWords(length) == (length + 1) \div 2
Text(length) ==
    [form |-> "text", kind |-> "u16", words |-> TextWords(length), bounds |-> NoBounds, length |-> length]

Packed(octets, words) ==
    LET octet(k) == IF k \in DOMAIN octets THEN octets[k] ELSE 0 IN
    [k \in 1 .. words |-> octet(2 * k - 1) + 256 * octet(2 * k)]

\* `raw[:length]` and what is before its first NUL.
TextIn(words, length) ==
    BeforeNul(SubSeq(FlattenSeq([k \in DOMAIN words |-> LittleEndian(words[k], 2)]), 1, length))

-----------------------------------------------------------------------------
(***************************************************************************)
(* One value: read_bit, read_i16, ..., read_str, and write_bit, ...        *)
(***************************************************************************)

ReadVerb(spec, address, order) ==
    [verb |-> "read", spec |-> spec, address |-> address, order |-> order]
WriteVerb(spec, address, order, value, verify) ==
    [verb |-> "write", spec |-> spec, address |-> address, order |-> order, value |-> value,
     verify |-> verify]

\* What travels.
ReadCommand(v) ==
    IF v.spec.form = "bit" THEN ReadBitsOf(v.address, 1) ELSE ReadWordsOf(v.address, v.spec.words)

WriteCommand(v) ==
    CASE v.spec.form = "bit"  -> WriteBitsOf(v.address, v.value)
      [] v.spec.form = "text" -> WriteWordsOf(v.address, Packed(v.value, v.spec.words))
      [] OTHER -> WriteWordsOf(v.address, ToWords(v.spec, v.value, v.order))

\* What an answer says.
Valued(v, answer) ==
    CASE v.spec.form = "bit"  -> answer
      [] v.spec.form = "text" -> TextIn(answer, v.spec.length)
      [] OTHER -> FromWords(v.spec, answer, v.order)

IsAscii(octets) == \A k \in DOMAIN octets : octets[k] < 128
Inverted(bounds) == \E least \in bounds.minimum, most \in bounds.maximum : least > most

\* `check_reading`, of the value alone: the bounds are looked at when it is there.
CheckReading(value, bounds) ==
    IF Inverted(bounds) THEN Raise("configuration")
    ELSE IF Outside(value[1], bounds) THEN Raise("implausible") ELSE Return(value)

Judged(spec, value) ==
    IF spec.form = "text" THEN IF IsAscii(value) THEN Return(value) ELSE Raise("shape")
    ELSE IF spec.bounds = NoBounds THEN Return(value) ELSE CheckReading(value, spec.bounds)

ReadVerbFault(v) == Refuse(v.spec.form = "text" /\ v.spec.length < 1, "configuration")
ReadSteps(v, got) ==
    IF got = <<>> THEN AskFor(ReadCommand(v)) ELSE Judged(v.spec, Valued(v, got[1]))

\* `unsigned` or `_fits`, and `_check_writing`.
NumberWriteFault(spec, value) ==
    (IF spec.kind = "f32" \/ spec.words = 4 THEN "none"
     ELSE UnsignedFault(value[1], 16 * spec.words, PointDomain(spec)))
    ?? Refuse(Inverted(spec.bounds), "layout")
    ?? Refuse(spec.bounds # NoBounds /\ Outside(value[1], spec.bounds), "value")

TextWriteFault(v) ==
    Refuse(~IsAscii(v.value), "value")
    ?? Refuse(Len(v.value) > v.spec.length, "configuration")
    ?? ReadVerbFault(v)

WriteFault(v) ==
    CASE v.spec.form = "number" -> NumberWriteFault(v.spec, v.value)
      [] v.spec.form = "text"   -> TextWriteFault(v)
      [] OTHER                  -> "none"

\* `_check`.
Check(written, back) ==
    IF back.do = "raise" THEN back
    ELSE IF back.value = written THEN Return(<<>>) ELSE Raise("verification")

WriteSteps(v, got) ==
    LET plain == [v EXCEPT !.spec.bounds = NoBounds]
        back  == ReadSteps(plain, Tail(got))
    IN  IF got = <<>> THEN AskFor(WriteCommand(v))
        ELSE IF ~v.verify THEN Return(<<>>)
        ELSE IF back.do = "ask" THEN back ELSE Check(v.value, back)

-----------------------------------------------------------------------------
(***************************************************************************)
(* Many values.                                                            *)
(***************************************************************************)

ArrayReadVerb(address, count, order) ==
    [verb |-> "read_f32_array", address |-> address, count |-> count, order |-> order]
ArrayWriteVerb(address, values, order) ==
    [verb |-> "write_f32_array", address |-> address, values |-> values, order |-> order]

\* The order is that of the two registers of one number.
ArrayReadSteps(v, got) ==
    IF got = <<>> THEN AskFor(ReadWordsOf(v.address, 2 * v.count))
    ELSE Return(FlattenSeq([k \in 1 .. Len(got[1]) \div 2 |->
                    FromWords(F32, SubSeq(got[1], 2 * k - 1, 2 * k), v.order)]))

ArrayWriteSteps(v, got) ==
    IF got = <<>>
    THEN AskFor(WriteWordsOf(v.address,
             FlattenSeq([k \in DOMAIN v.values |-> ToWords(F32, <<v.values[k]>>, v.order)])))
    ELSE Return(<<>>)

RandomReadVerb(points, allow_split) ==
    [verb |-> "read_random", points |-> points, allow_split |-> allow_split]
RandomWriteVerb(writes) == [verb |-> "write_random", writes |-> writes]

\* Every literal is resolved before anything is sent, and nothing else is looked at.
RandomReadFault(v, ctx) ==
    (IF v.allow_split THEN CeilingFault(ctx) ELSE "none")
    ?? FirstFault(Len(v.points), LAMBDA i : ResolveFault(ctx, v.points[i].address))

\* `_read_random_split`: one request after another, and each is judged when it is due.
RandomReadSteps(v, ctx, got) ==
    LET chunk == IF v.allow_split THEN Ceiling(ctx) ELSE Len(v.points)
        begin == Len(got) * chunk
    IN  IF got = <<>> \/ begin < Len(v.points)
        THEN AskFor(ReadRandomOf(Span(v.points, begin, Min({chunk, Len(v.points) - begin}))))
        ELSE Return(FlattenSeq(got))

\* `_check_point_value`.
RandomWriteFault(v) ==
    FirstFault(Len(v.writes), LAMBDA i :
        UnsignedFault(v.writes[i].value, PointBits(v.writes[i]), PointDomain(v.writes[i])))

RandomWriteSteps(v, got) == IF got = <<>> THEN AskFor(WriteRandomOf(v.writes)) ELSE Return(<<>>)

-----------------------------------------------------------------------------
(***************************************************************************)
(* The CPU's own state: identity.py, and RemoteControl of client.py.       *)
(***************************************************************************)

SD(digits) == <<"S", "D">> \o digits
SD203 == SD(<<"2", "0", "3">>)
CpuStatusCommand == ReadWordsOf(SD203, 1)

\* RUN, STEP-RUN, STOP, PAUSE; a value nobody documented is rounded to none of them.
CpuStatuses == 0 .. 3

StatusVerb == [verb |-> "read_cpu_status"]
StatusSteps(got) ==
    IF got = <<>> THEN AskFor(CpuStatusCommand)
    ELSE IF got[1][1] \in CpuStatuses THEN Return(got[1]) ELSE Raise("shape")

RemoteVerb(cmd, wanted, verify) ==
    [verb |-> "remote", cmd |-> cmd, wanted |-> wanted, verify |-> verify]

\* `_apply`: the end code is no evidence, so SD203 is asked until it says so.
RemoteSteps(v, got) ==
    IF got = <<>> THEN {AskFor(v.cmd)}
    ELSE IF ~v.verify THEN {Return(<<v.wanted>>)}
    ELSE IF Len(got) = 1 THEN {AskFor(CpuStatusCommand)}
    ELSE IF Last(got) = <<v.wanted>> THEN {Return(<<v.wanted>>)}
    ELSE IF Last(got)[1] \notin CpuStatuses THEN {Raise("shape")}
    ELSE {Raise("not_reached")} \cup (IF Len(got) <= MaxPolls THEN {AskFor(CpuStatusCommand)} ELSE {})

\* One 0403, so that the fields are of one moment.
ErrorRegisters == [i \in 1 .. 8 |-> SD(<<HexDigits[i]>>)]
ClockRegisters == [i \in 1 .. 7 |-> SD(<<"2", "1", HexDigits[i]>>)]
CpuDiagnosticsPoints ==
    <<RandomPoint(<<"S", "M", "0">>, "bits")>>
    \o [i \in 1 .. 16 |->
           RandomPoint((ErrorRegisters \o <<SD203>> \o ClockRegisters)[i], "u16")]

IsLeap(year) == year % 4 = 0 /\ (year % 100 # 0 \/ year % 400 = 0)
MonthDays(year, month) ==
    CASE month = 2 -> IF IsLeap(year) THEN 29 ELSE 28
      [] month \in {4, 6, 9, 11} -> 30
      [] OTHER -> 31

\* `_plc_time`: registers that are no moment have none.
PlcTime(f) ==
    IF /\ f[1] \in 1 .. 9999 /\ f[2] \in 1 .. 12 /\ f[3] \in 1 .. MonthDays(f[1], f[2])
       /\ f[4] < 24 /\ f[5] < 60 /\ f[6] < 60
    THEN SubSeq(f, 1, 6) ELSE <<>>

DiagnosticsVerb == [verb |-> "read_diagnostics"]
DiagnosticsFault(ctx) == Refuse(ctx.profile.family # "iq-f", "capability")

\* `decode_cpu_diagnostics`.
DecodeDiagnostics(values) ==
    LET first == [k \in DOMAIN values |-> values[k][1]] IN
    [status |-> first[10], error |-> first[1], error_code |-> first[2],
     error_at |-> PlcTime(SubSeq(first, 3, 9)), clock |-> PlcTime(SubSeq(first, 11, 17))]

DiagnosticsSteps(got) ==
    IF got = <<>> THEN AskFor(ReadRandomOf(CpuDiagnosticsPoints))
    ELSE IF got[1][10][1] \in CpuStatuses THEN Return(<<DecodeDiagnostics(got[1])>>) ELSE Raise("shape")

-----------------------------------------------------------------------------
(***************************************************************************)
(* raw_command.                                                            *)
(***************************************************************************)

REMOTE_CONTROL_COMMANDS == {Code([name |-> remote]) : remote \in Remotes}

RawVerb(cmd) == [verb |-> "raw_command", cmd |-> cmd]

\* `_require_interlock_for`: what moves the CPU is refused here too.
RawFault(v, ctx) ==
    Refuse(Code(v.cmd) \in REMOTE_CONTROL_COMMANDS /\ ~ctx.allow_remote_control, "configuration")
RawSteps(v, got) == IF got = <<>> THEN AskFor(v.cmd) ELSE Return(got[1])

-----------------------------------------------------------------------------
VerbFault(v, ctx) ==
    CASE v.verb = "read" -> ReadVerbFault(v)
      [] v.verb = "write" -> WriteFault(v)
      [] v.verb = "read_random" -> RandomReadFault(v, ctx)
      [] v.verb = "write_random" -> RandomWriteFault(v)
      [] v.verb = "read_diagnostics" -> DiagnosticsFault(ctx)
      [] v.verb = "raw_command" -> RawFault(v, ctx)
      [] OTHER -> "none"

NextSteps(v, ctx, got) ==
    CASE v.verb = "read" -> {ReadSteps(v, got)}
      [] v.verb = "write" -> {WriteSteps(v, got)}
      [] v.verb = "read_f32_array" -> {ArrayReadSteps(v, got)}
      [] v.verb = "write_f32_array" -> {ArrayWriteSteps(v, got)}
      [] v.verb = "read_random" -> {RandomReadSteps(v, ctx, got)}
      [] v.verb = "write_random" -> {RandomWriteSteps(v, got)}
      [] v.verb = "read_cpu_status" -> {StatusSteps(got)}
      [] v.verb = "remote" -> RemoteSteps(v, got)
      [] v.verb = "read_diagnostics" -> {DiagnosticsSteps(got)}
      [] v.verb = "raw_command" -> {RawSteps(v, got)}
=============================================================================
