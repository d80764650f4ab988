-------------------------------- MODULE Wire --------------------------------
(***************************************************************************)
(* One request and its answer, unit by unit: a command (src/aslmp/         *)
(* commands), the frame it travels in (wire/frames.py), the CPU that       *)
(* serves it (testing/server.py, testing/dispatch.py) and the accumulator  *)
(* that reads the answer (wire/reader.py) in the pieces a transport hands  *)
(* it (transport/tcp.py, transport/udp.py).                                *)
(*                                                                         *)
(* Session, Connection and UdpTransport say who may use the wire and when; *)
(* here one call follows another, and what is at stake is that both ends   *)
(* mean the same thing by the units between them.                          *)
(***************************************************************************)
EXTENDS Dispatch, Reader

CONSTANTS
    Plants,          \* by name, [target, memory, entries, switch, stale]: a CPU, what it holds,
                     \* who may come to it, again by name, its key switch and its pathology
    MaxCalls,        \* bound: calls in a behaviour
    BufferCapacity,  \* RecvBuffer's
    Asks(_, _)       \* the commands the n-th call may be, by the entry it comes to

\* What an entry speaks, and what a client of it was opened with.
Entry(ctx, frame, transport, route) ==
    [ctx |-> ctx, frame |-> frame, transport |-> transport, route |-> route]

ASSUME PlantsAssumption ==
    /\ MaxCalls \in Nat \ {0}
    /\ BufferCapacity \in Nat \ {0}
    /\ \A p \in Range(Plants) :
          /\ IsProfile(p.target.profile)
          \* `EndCodePolicy.__post_init__`: 0 is normal completion.
          /\ DOMAIN p.target.end_codes = DOMAIN EndCodePolicy
          /\ \A fault \in DOMAIN EndCodePolicy : p.target.end_codes[fault] \in 1 .. UINT16_MAX
          /\ p.switch \in {RUN, STOP}
          /\ \A e \in Range(p.entries) : /\ IsContext(e.ctx)
                                         /\ e.frame \in Frames
                                         /\ IsRoute(e.route)
                                         /\ e.transport \in {"tcp", "udp"}
          \* `_last_response` is kept by connection.
          /\ p.stale => \A e1, e2 \in DOMAIN p.entries : e1 = e2

\* A command of the table; the escape hatch is a method of its own (Verbs).
ASSUME AsksAssumption ==
    \A n \in 1 .. MaxCalls : \A p \in Range(Plants) : \A e \in Range(p.entries) :
        \A cmd \in Asks(n, e) : \E row \in COMMANDS : cmd.name \in row.commands

VARIABLES
    plant,    \* the name of the plant, for good
    memory,   \* DeviceMemory
    state,    \* SessionState
    calls,    \* how many calls there were
    call,     \* the one at hand: [entry, cmd, serial, before], before is the memory it found
    phase,    \* "idle", "asked", "answered"
    wire,     \* the request or the answer that is on its way
    segment,  \* where the answer was split
    acc,      \* the ResponseAccumulator
    last,     \* `_last_response`: what was answered before
    outcome   \* what became of the last call: [kind, why, values]

vars == <<plant, memory, state, calls, call, phase, wire, segment, acc, last, outcome>>

ThePlant == Plants[plant]
Target == ThePlant.target
Client(c) == ThePlant.entries[c.entry]
Ctx == Client(call).ctx

Outcome(kind, why, values) == [kind |-> kind, why |-> why, values |-> values]
NoOutcome == Outcome("none", "none", <<>>)
NoCall == [cmd |-> "none"]
NoAccumulator == [buf |-> <<>>]

WireInit ==
    /\ plant \in DOMAIN Plants
    /\ state = [SessionState EXCEPT !.switch_position = ThePlant.switch]
    /\ memory = PublishState(ThePlant.memory, state)
    /\ calls = 0
    /\ call = NoCall
    /\ phase = "idle"
    /\ wire = <<>>
    /\ segment = 0
    /\ acc = NoAccumulator
    /\ last = <<>>
    /\ outcome = NoOutcome

-----------------------------------------------------------------------------
(***************************************************************************)
(* The client.                                                             *)
(***************************************************************************)

\* A call refuses before it sends: the constructor, then validate, then checked_encode.
Refused(cmd, ctx) ==
    ValuesFault(cmd) ?? Validate(cmd, ctx) ?? CheckedEncodeFault(cmd, ctx)

SERIAL_MAX == 65535

\* `SerialAllocator.next` where the frame carries one: from 1 to the largest and over again.
SerialFor(frame, n) == IF frame.carries_serial THEN 1 + ((n - 1) % SERIAL_MAX) ELSE NoSerial

MONITORING_TIMER == 16

RequestUnits(entry, cmd, serial) ==
    LET ctx == entry.ctx IN
    Build(entry.frame, ctx.codec, entry.route, serial,
          RequestBody(ctx.codec, MONITORING_TIMER, Code(cmd), SubcommandOf(cmd, ctx),
                      Encode(cmd, ctx)))

End(o) ==
    /\ phase' = "idle" /\ outcome' = o
    /\ wire' = <<>> /\ segment' = 0 /\ acc' = NoAccumulator

Begin(e, cmd, serial) ==
    /\ phase = "idle"
    /\ calls' = calls + 1
    /\ call' = [entry |-> e, cmd |-> cmd, before |-> memory, serial |-> serial]
    /\ UNCHANGED <<plant, memory, state, last>>

\* A call that is refused has sent nothing.
RefuseToSend(e, cmd, refusal) ==
    /\ Begin(e, cmd, NoSerial)
    /\ End(Outcome("refused", refusal, <<>>))

Send(e, entry, cmd, serial) ==
    /\ Begin(e, cmd, serial)
    /\ phase' = "asked"
    /\ wire' = RequestUnits(entry, cmd, serial)
    /\ acc' = Accumulator(entry.frame, entry.ctx.codec, serial)
    /\ outcome' = NoOutcome
    /\ UNCHANGED segment

\* `Plc._transact`, up to the exchange.
Ask(e, cmd) ==
    \E entry \in {ThePlant.entries[e]} : \E refusal \in {Refused(cmd, entry.ctx)} :
        IF refusal # "none" THEN RefuseToSend(e, cmd, refusal)
        ELSE Send(e, entry, cmd, SerialFor(entry.frame, calls + 1))

-----------------------------------------------------------------------------
(***************************************************************************)
(* The CPU.                                                                *)
(***************************************************************************)

\* `_build_response`: the route and the serial come back as they came.
AnswerUnits(entry, request, served) ==
    LET codec == entry.ctx.codec IN
    BuildResponse(entry.frame, codec, request.route, request.serial,
        IF served.end_code = 0 THEN NormalBody(codec, served.payload)
        ELSE AbnormalBody(codec, served.end_code,
                          ErrorInfo(request.route, request.command, request.subcommand), <<>>))

\* Where the network splits an answer: nowhere, or about the end of its prefix.
Segments(entry, answer) ==
    LET prefix == PrefixUnits(entry.frame, entry.ctx.codec) IN
    IF entry.transport = "udp" THEN {Len(answer)} ELSE {1, prefix - 1, prefix, prefix + 1, Len(answer)}

\* A CPU with the stale reply pathology is one answer behind.
Answer(entry, raw) ==
    /\ phase' = "answered"
    /\ IF ThePlant.stale
       THEN wire' = (IF last # <<>> THEN last ELSE raw) /\ last' = raw
       ELSE wire' = raw /\ UNCHANGED last
    /\ segment' \in Segments(entry, wire')
    /\ UNCHANGED <<acc, outcome>>

\* The request is served.  A client that expects no answer is gone, and one that does
\* waits for it in vain where the CPU gives none.
Serve ==
    /\ phase = "asked"
    /\ \E entry \in {Client(call)} :
        /\ RequestFault(entry.frame, entry.ctx.codec, wire) = "none"
        /\ \E request \in {RawRequest(entry.frame, entry.ctx.codec, wire)} :
           \E served \in {Handle(Target, memory, state, entry.ctx.encoding, request)} :
              /\ memory' = served.memory /\ state' = served.state
              /\ IF served.silent \/ ResponseOptional(call.cmd)
                 THEN /\ End(Outcome(IF ResponseOptional(call.cmd) THEN "silent" ELSE "timeout",
                                     "none", <<>>))
                      /\ UNCHANGED last
                 ELSE Answer(entry, AnswerUnits(entry, request, served))
    /\ UNCHANGED <<plant, calls, call>>

-----------------------------------------------------------------------------
(***************************************************************************)
(* The transport.                                                          *)
(***************************************************************************)

Smaller(a, b) == IF a < b THEN a ELSE b

\* What has been read of the answer.
Arrived == Len(acc.buf)

\* `sock_recv_into`: what has come, no more than was asked for and the buffer holds.
Piece ==
    LET due == (IF Arrived < segment THEN segment ELSE Len(wire)) - Arrived IN
    Span(wire, Arrived, Smaller(Smaller(due, BytesNeeded(acc)), BufferCapacity))

\* `recvfrom`: one datagram, and what is beyond the buffer is gone.
Datagram == Span(wire, 0, Smaller(Len(wire), BufferCapacity))

\* A frame that is refused fails the call.
Broken(fault) == End(Outcome("protocol", fault, <<>>))

\* A datagram has to be the whole message.
Fed(units, whole) ==
    /\ \E fault \in {FeedFault(acc, units)}, fed \in {Feed(acc, units)} :
          IF fault # "none" THEN Broken(fault)
          ELSE IF whole /\ BytesNeeded(fed) > 0 THEN Broken("short")
          ELSE acc' = fed /\ UNCHANGED <<phase, wire, segment, outcome>>
    /\ UNCHANGED <<plant, memory, state, calls, call, last>>

\* `TcpTransport._read_message`, one turn of its loop.
ReceiveStream ==
    /\ phase = "answered" /\ Client(call).transport = "tcp"
    /\ BytesNeeded(acc) > 0 /\ Arrived < Len(wire)
    /\ Fed(Piece, FALSE)

\* `UdpTransport.exchange`.
ReceiveDatagram ==
    /\ phase = "answered" /\ Client(call).transport = "udp" /\ Arrived = 0
    /\ Fed(Datagram, TRUE)

\* Txn.exchange and the client after it: the frame, its end code, the values.
Meaning(cmd, payload, ctx) ==
    LET Decoded(fault) ==
            IF fault # "none" THEN Outcome("decode", fault, <<>>)
            ELSE Outcome("returned", "none", Decode(cmd, payload, ctx))
    IN  Decoded(DecodeFault(cmd, payload, ctx))

Conclusion ==
    LET Took(fault, response) ==
            CASE fault # "none" -> Outcome("protocol", fault, <<>>)
              [] response.end_code # 0 -> Outcome("end_code", "none", <<response.end_code>>)
              [] OTHER -> Meaning(call.cmd, response.payload, Ctx)
    IN  Took(TakeFault(acc), Taken(acc))

Conclude ==
    /\ phase = "answered" /\ BytesNeeded(acc) = 0
    /\ End(Conclusion)
    /\ UNCHANGED <<plant, memory, state, calls, call, last>>

Finished ==
    /\ phase = "idle" /\ calls >= MaxCalls
    /\ UNCHANGED vars

\* What happens to a request without its client.
Travel == Serve \/ ReceiveStream \/ ReceiveDatagram

WireNext ==
    \/ /\ calls < MaxCalls
       /\ \E e \in DOMAIN ThePlant.entries : \E cmd \in Asks(calls + 1, ThePlant.entries[e]) :
             Ask(e, cmd)
    \/ Travel
    \/ Conclude
    \/ Finished

-----------------------------------------------------------------------------
(***************************************************************************)
(* What a command means, read from the manual's side: the letters of a     *)
(* literal are the family and its digits are the number, to the base that  *)
(* family counts in on that CPU.                                           *)
(***************************************************************************)

CountedInHex ==
    {<<"X">>, <<"Y">>, <<"B">>, <<"W">>, <<"S", "B">>, <<"S", "W">>,
     <<"D", "X">>, <<"D", "Y">>, <<"Z", "R">>}

Base(family, letters) ==
    CASE family = "iq-f" /\ letters \in {<<"X">>, <<"Y">>} -> 8
      [] letters \in CountedInHex -> 16
      [] OTHER -> 10

MeantOn(profile, text) ==
    LET first   == Min({i \in DOMAIN text : text[i] \in RadixDigits(10)})
        letters == [i \in 1 .. first - 1 |-> Upper(text[i])]
        digits  == SubSeq(text, first, Len(text))
    IN  [type  |-> CHOOSE dt \in DOMAIN profile.devices : dt.name = letters,
         index |-> FromDigits(digits, Base(profile.family, letters))]
Meant(text) == MeantOn(Target.profile, text)

\* What a memory holds from a device on.
WordsFrom(m, at, count) == MemoryWords(m, at.type, at.index, count)
BitsFrom(m, at, count) == MemoryBits(m, at.type, at.index, count)

WordsThere(text, count) == WordsFrom(call.before, Meant(text), count)

\* A point of random access: a word, two words or the bits of a window.
PointThere(point) ==
    LET Seen(at) ==
            LET words == WordsFrom(call.before, at, PointWords(point)) IN
            CASE PointWords(point) = 2 -> <<words[2] * 65536 + words[1]>>
              [] point.kind = "i16" -> <<IF words[1] > 32767 THEN words[1] - 65536 ELSE words[1]>>
              [] point.kind = "bits" -> BitsFrom(call.before, at, 16)
              [] OTHER -> words
    IN  Seen(Meant(point.address))
PointsThere(points) == [i \in DOMAIN points |-> PointThere(points[i])]

There(cmd) ==
    CASE cmd.name = "ReadWords" -> WordsThere(cmd.address, cmd.count)
      [] cmd.name = "ReadBits" -> BitsFrom(call.before, Meant(cmd.address), cmd.count)
      [] cmd.name \in {"ReadRandom", "ExecuteMonitor"}
            -> PointsThere(IF cmd.name = "ReadRandom" THEN cmd.points ELSE cmd.registration.points)
      [] cmd.name = "ReadBlocks"
            -> [b \in DOMAIN cmd.blocks |-> WordsThere(cmd.blocks[b].address, cmd.blocks[b].points)]
      [] cmd.name = "ReadTypeName"
            -> <<[model |-> Target.model_name[Ctx.codec], model_code |-> Target.model_code]>>
      [] cmd.name = "SelfTest" -> cmd.payload
      [] OTHER -> <<>>

\* The device numbers a write covers and what is put there.
Put(text, values) ==
    LET From(at) == WriteWordsAt(call.before, at.type, at.index, values) IN From(Meant(text))
PutBits(text, bits) ==
    LET From(at) == WriteCells(call.before, at.type, at.index, bits) IN From(Meant(text))

TwoWords(write) ==
    LET raw == IF write.value < 0 THEN write.value + 65536 ELSE write.value IN
    IF PointWords(write) = 2 THEN <<raw % 65536, raw \div 65536>> ELSE <<raw>>

\* The key switch has the last word.
Wanted == [RemoteRun |-> RUN, RemoteStop |-> STOP, RemotePause |-> PAUSE]
StatusAfter(wanted) == IF state.switch_position = STOP THEN STOP ELSE wanted
PutStatus(wanted) == PutBits(<<"S", "D", "2", "0", "3">>, <<StatusAfter(wanted)>>)

\* Every write on its own, over the memory the call found.
Pieces(cmd) ==
    CASE cmd.name = "WriteWords" -> {Put(cmd.address, [i \in DOMAIN cmd.values |-> cmd.values[i] % 65536])}
      [] cmd.name = "WriteBits" -> {PutBits(cmd.address, cmd.values)}
      [] cmd.name = "WriteRandom"
            -> {Put(cmd.points[i].address, TwoWords(cmd.points[i])) : i \in DOMAIN cmd.points}
      [] cmd.name = "WriteRandomBits"
            -> {PutBits(cmd.writes[i].address, <<cmd.writes[i].value>>) : i \in DOMAIN cmd.writes}
      [] cmd.name = "WriteBlocks"
            -> {Put(cmd.blocks[b].address, cmd.blocks[b].values) : b \in DOMAIN cmd.blocks}
      [] cmd.name \in DOMAIN Wanted -> {PutStatus(Wanted[cmd.name])}
      [] OTHER -> {}

Held(m, cell) == IF cell \in DOMAIN m THEN m[cell] ELSE 0

\* Each cell is as the piece that moved it has it, and as it was if none did.
\* The writes of a command of the model do not overlap.
IsAsked(m, cmd) ==
    \E pieces \in {Pieces(cmd)} :
        \A cell \in DOMAIN m \cup DOMAIN call.before \cup UNION {DOMAIN p : p \in pieces} :
            LET moved == {p \in pieces : Held(p, cell) # Held(call.before, cell)} IN
            IF moved = {} THEN Held(m, cell) = Held(call.before, cell)
            ELSE \A p \in moved : Held(m, cell) = Held(p, cell)

-----------------------------------------------------------------------------
(***************************************************************************)
(* Properties.                                                             *)
(***************************************************************************)

\* A unit: an octet, or a character of a number, of a mnemonic or of a model's name.
UnitOf(c) ==
    IF c = "binary" THEN 0 .. 255 ELSE HexDigit \cup Letter \cup Padding \cup {"-", "/"}

\* A body of so many units on top of what every body begins with.
Fits(codec, head, units) ==
    units \in Seq(UnitOf(codec)) /\ head + Len(units) <= UINT16_MAX

\* What travels is of its coding and no longer than L can say: of a request the limits
\* of the profiles keep it there (Command.checked_encode), of an answer those of the
\* CPU; and an end code is of one word.
MessagesFit ==
    phase = "asked" =>
        LET codec == Ctx.codec IN
        /\ Fits(codec, RequestMinUnits * Width(codec), Encode(call.cmd, Ctx))
        /\ \E request \in {RawRequest(Client(call).frame, codec, wire)} :
           \E served \in {Handle(Target, memory, state, Ctx.encoding, request)} :
              /\ Fits(codec, AbnormalMinUnits * Width(codec), served.payload)
              /\ served.end_code \in 0 .. UINT16_MAX

\* The type invariant.  A monitor registration is any list of points.
WireTypeOK ==
    /\ plant \in DOMAIN Plants
    /\ calls \in Nat
    /\ phase \in {"idle", "asked", "answered"}
    /\ state \in [switch_position : {RUN, STOP}, remote_request : {RUN, STOP, PAUSE},
                  monitor_points : {state.monitor_points}, password_locked : BOOLEAN]
    /\ phase # "idle" =>
          /\ call.entry \in DOMAIN ThePlant.entries
          /\ call.serial = SerialFor(Client(call).frame, calls)
    /\ segment \in Nat

\* How many values a field of so many bits has: only octets and words here.
Values(bits) == IF bits = 8 THEN 256 ELSE 65536

IsWord(v) == v \in Nat /\ v < Values(16)
IsWords(values) == values \in Seq(Nat) /\ \A i \in DOMAIN values : IsWord(values[i])
IsBits(values) == values \in Seq({0, 1})

\* What four octets hold, and a count of two.
IndexFits(index) == index \in Nat /\ index \div Values(16) < Values(16)
CountFits(n) == n \in Nat /\ n < Values(16)

\* Client and CPU write and read the number of every family in the same base.
SameBases(s, ctx) ==
    \A dt \in DEVICE_TABLE :
        EmitBase(dt, NotationFor(ctx.profile, dt, ctx.encoding)) = NumberBase(s, dt)

\* The point that a command names, where it may be written as one.
Denotes(ctx, cmd, address) ==
    /\ address.type \in DEVICE_TABLE /\ IndexFits(address.index)
    /\ address = Address(address.type, address.index)
    /\ Resolve(ctx, cmd.address) = address
    /\ SpecFault(ctx, cmd.address) = "none"

\* What a batch command moves, from a point of a memory on.
BatchData(cmd, at, m) ==
    CASE cmd.name = "ReadWords"  -> CountFits(cmd.count) /\ IsWords(WordsFrom(m, at, cmd.count))
      [] cmd.name = "ReadBits"   -> CountFits(cmd.count) /\ IsBits(BitsFrom(m, at, cmd.count))
      [] cmd.name = "WriteWords" -> CountFits(Len(cmd.values)) /\ cmd.values \in Seq(Int)
      [] cmd.name = "WriteBits"  -> CountFits(Len(cmd.values)) /\ IsBits(cmd.values)

\* A read that returns, returns what the CPU held at the devices its literals
\* name, in the caller's order, whatever the coding, the frame, the format of the
\* device specification and the pieces it came in; and a 4E call is not taken in by
\* an answer to the call before (ResponseAccumulator.take).
ReadsWhatIsThere ==
    /\ phase = "idle" /\ outcome.kind = "returned" /\ call.cmd.name # "Raw"
    /\ ThePlant.stale => Client(call).frame.carries_serial
    => outcome.values = There(call.cmd)

\* A write that returns has put its values at the devices its literals name and has
\* touched nothing else; a read, a refusal before the request and, where the
\* ranges were checked (EncodeContext.validate_ranges), a refusal by the CPU have
\* touched nothing at all.
MemoryIsWhatWasAsked ==
    phase = "idle" /\ ~ThePlant.stale /\ call # NoCall /\ call.cmd.name # "Raw" =>
        /\ outcome.kind = "returned" => IsAsked(memory, call.cmd)
        /\ outcome.kind = "end_code" /\ Ctx.validate_ranges => memory = call.before
        /\ outcome.kind \in {"refused", "silent", "decode"} => memory = call.before

\* What only the CPU can know: a password, a registration, its key switch, how
\* many points it has of a family without a static range; and what the caller
\* gave with his own hands.
DevicesNamed(cmd) == {Meant(Named(cmd)[i]).type : i \in DOMAIN Named(cmd)}
OnlyTheCpuKnows(cmd, end_code) ==
    LET codes == Target.end_codes IN
    \/ end_code \in {codes.password_incorrect, codes.password_locked, codes.monitor_not_registered,
                     codes.latch_clear_refused}
    \/ cmd.name \in FixedFields /\ cmd.fixed # <<>>
    \/ cmd.name = "Raw"
    \/ \E dt \in DevicesNamed(cmd) :
          dt.words_per_point = 2 \/ Target.profile.devices[dt].kind = "no_static_range"

\* How many points a CPU takes in a batch command.
MostPoints(target, encoding, unit) ==
    IF unit = "bit" THEN BatchBitFor(target.limits, encoding) ELSE BatchWordFor(target.limits, encoding)

\* The batch rows of a table of limits allow no more than the CPU takes.
WithinLimits(limits, target) ==
    \A key \in DOMAIN limits : key[1] \in {1025, 5121} =>
        /\ limits[key].shape = "flat" /\ limits[key].max \in Nat
        /\ MostPoints(target, key[2], key[3]) \in Nat
        /\ limits[key].max <= MostPoints(target, key[2], key[3])

\* A profile that is no wider than the CPU it is for: the same ranges, and formats and
\* counts that the CPU takes.
NoWider(profile, target) ==
    /\ profile.devices = target.profile.devices
    /\ "long-device-spec" \in profile.capabilities => target.long_device_spec
    /\ WithinLimits(profile.limits, target)

\* The profiles that clients are given are no wider than the CPUs they call.
MadeForTheirCpus == \A p \in Range(Plants) : \A e \in Range(p.entries) : NoWider(e.ctx.profile, p.target)

\* The profile of a family against the CPU of it that the simulator ships
\* (`FX5U_32MT_DS`, `R04CPU`).
ASSUME ShippedAssumption == NoWider(FX5U, FX5U_32MT_DS) /\ NoWider(IQ_R, R04CPU)

\* A request that the client found nothing wrong with is served: the limits, ranges
\* and formats it checks (profile.py, commands/*.py) are no wider than the CPU's.
AcceptedIsServed ==
    phase = "idle" /\ outcome.kind = "end_code" /\ Ctx.validate_ranges /\ ~ThePlant.stale
        => OnlyTheCpuKnows(call.cmd, outcome.values[1])

\* The accumulator asks for what is still to come and never for more, so a read
\* never waits for units nobody sends; it is complete with the last unit; and the
\* frame it has then is taken: of a CPU that answers in order none is refused,
\* whatever it was cut into, but that a datagram may be longer than its buffer.
AnswersAreTaken ==
    /\ phase = "answered" =>
          /\ BytesNeeded(acc) \in 0 .. Len(wire) - Arrived
          /\ BytesNeeded(acc) = 0 <=> Arrived = Len(wire)
    /\ outcome.kind = "protocol" /\ ~ThePlant.stale =>
          outcome.why = "short" /\ Client(call).transport = "udp"

\* A batch command that is sent is about the point its literal means, in a base that the
\* CPU reads it in, and about words or bits of a memory that holds such
\* (Profile.notation_for, parse_address and encode_device_spec on the one side,
\* device_number_base and memory.py on the other).
BatchIsMeant ==
    phase = "asked" /\ call.cmd.name \in Batches =>
        \E at \in {Meant(call.cmd.address)} :
            /\ SameBases([target |-> Target, encoding |-> Ctx.encoding], Ctx)
            /\ Denotes(Ctx, call.cmd, at)
            /\ BatchData(call.cmd, at, memory)

\* A request meets a CPU whose SD203 shows what it does (publish_cpu_state).
StateIsShown == phase = "asked" => memory = PublishState(memory, state)

\* What is sent can be sent, and is what was meant.
SentAsMeant == MessagesFit /\ BatchIsMeant /\ StateIsShown

\* A command whose row in COMMANDS says that it does not mutate changes nothing at
\* the CPU, but that SD203 says again what the CPU does, as after every request: that
\* row decides whether a lost answer is an outcome unknown.  And nothing starts or
\* stops it, the escape hatch raw_command included, but for a client that was opened
\* with allow_remote_control.
HarmlessIsHarmless ==
    [][phase = "asked" =>
          /\ ~Mutates(call.cmd) => state' = state /\ memory' = PublishState(memory, state)
          /\ ~Ctx.allow_remote_control => UNCHANGED state.remote_request]_vars
=============================================================================
