------------------------------- MODULE MCWire -------------------------------
(***************************************************************************)
(* The simulated FX5U and R04CPU, each by entries of every coding, and a   *)
(* first call of any command, at a limit, at the end of a range or over    *)
(* it, with a second one that reads back.                                  *)
(***************************************************************************)
EXTENDS Calls

M0 == <<"M", "0">>
M3 == <<"m", "3">>
M16 == <<"M", "1", "6">>
D0 == <<"D", "0">>
D10 == <<"D", "1", "0">>
D11 == <<"D", "1", "1">>
D13 == <<"d", "0", "1", "3">>
D7999 == <<"D", "7", "9", "9", "9">>
X17 == <<"X", "1", "7">>
Y20 == <<"Y", "2", "0">>
SW1A == <<"S", "W", "1", "A">>
TS0 == <<"T", "S", "0">>
LTN0 == <<"L", "T", "N", "0">>
LZ1 == <<"L", "Z", "1">>
RD3 == <<"R", "D", "3">>

Alike(cells) == [cell \in {<<name, i>> : name \in {<<"D">>, <<"X">>, <<"Y">>, <<"M">>}, i \in cells} |->
                    IF cell[1] = <<"D">> THEN 300 + 257 * cell[2] ELSE 1]
\* A negative double word, an error with a moment that is none, and a clock.
Special ==
    [cell \in {<<<<"D">>, 200>>} |-> 40000] @@ [cell \in {<<<<"D">>, 201>>} |-> 65535]
    @@ [cell \in {<<<<"S", "M">>, 0>>} |-> 1]
    @@ [cell \in {<<<<"S", "D">>, k>> : k \in 0 .. 6} |-> 13 + cell[2]]
    @@ [cell \in {<<<<"S", "D">>, k>> : k \in 210 .. 216} |-> <<2024, 2, 29, 23, 59, 8, 4>>[cell[2] - 209]]
Contents == Special @@ Alike({0, 2, 10, 11, 12, 13, 15, 16, 18, 23, 33})

HERE == OwnStation
THERE == [network |-> 1, station |-> 2, module_io |-> 1023, multidrop |-> 0]

Open(ctx) == [ctx EXCEPT !.allow_remote_control = TRUE]
Unchecked(ctx) == [ctx EXCEPT !.validate_ranges = FALSE]
BIN(p, spec) == Context(p, "binary", spec)
OCT(p, spec) == Context(p, "ascii-xy-oct", spec)
HEX(p, spec) == Context(p, "ascii-xy-hex", spec)

FX5UEntries(fx5u) ==
    <<Entry(BIN(fx5u, "short"), THREE_E, "tcp", HERE), Entry(OCT(fx5u, "short"), THREE_E, "tcp", HERE),
     Entry(Open(HEX(fx5u, "short")), FOUR_E, "udp", THERE),
     Entry(Open(Unchecked(BIN(fx5u, "short"))), FOUR_E, "udp", HERE)>>

R04Entries(r04) ==
    <<Entry(BIN(r04, "short"), FOUR_E, "tcp", THERE), Entry(Open(BIN(r04, "long")), THREE_E, "udp", HERE),
     Entry(HEX(r04, "short"), THREE_E, "udp", HERE), Entry(HEX(r04, "long"), FOUR_E, "tcp", HERE)>>

PASSWORD == [binary |-> <<65, 66, 67, 68>>, ascii |-> <<"A", "B", "C", "D">>]

Plant(target, entries, switch, stale) ==
    [target |-> [target EXCEPT !.password = PASSWORD], memory |-> Contents,
     entries |-> entries, switch |-> switch, stale |-> stale]

\* The R04CPU a second and a third time, one answer behind, and with its key in STOP.
LateEntry(r04, frame) == Entry(HEX(r04, "long"), frame, "tcp", HERE)
KeyEntry(r04) == Entry(Open(BIN(r04, "long")), FOUR_E, "udp", HERE)
MCPlants ==
    LET Of(fx5u, r04) ==
            <<Plant(fx5u, FX5UEntries(fx5u.profile), RUN, FALSE),
              Plant(r04, R04Entries(r04.profile), RUN, FALSE),
              Plant(r04, <<LateEntry(r04.profile, THREE_E)>>, RUN, TRUE),
              Plant(r04, <<LateEntry(r04.profile, FOUR_E)>>, RUN, TRUE),
              Plant(r04, <<KeyEntry(r04.profile)>>, STOP, FALSE)>>
    IN  Of(FX5U_32MT_DS, R04CPU)

OfFX5U(entry) == entry.ctx.profile.key = "melsec:iq-f/fx5u"
Long4E(entry) == entry.ctx.spec = "long" /\ entry.frame.carries_serial
IsKeyEntry(entry) == Long4E(entry) /\ entry.ctx.encoding = "binary"
IsLate4E(entry) == Long4E(entry) /\ entry.ctx.encoding = "ascii-xy-hex"

W(address) == RandomPoint(address, "u16")
L32(address) == RandomPoint(address, "u32")
Mixed == <<L32(D10), W(D0), RandomPoint(M0, "bits"), L32(D11), RandomPoint(D10, "i16")>>

Reads ==
    {ReadWordsOf(D10, 3), ReadWordsOf(Y20, 1), ReadBitsOf(X17, 5), ReadRandomOf(Mixed),
     ReadBlocksOf(<<BlockSpec(M0, 2), BlockSpec(D10, 3), BlockSpec(Y20, 1)>>)}

MoreReads(entry) ==
    LET most == IF entry.ctx.codec = "ascii" /\ OfFX5U(entry) THEN 480 ELSE 960 IN
    {ReadWordsOf(D0, most), ReadWordsOf(D0, most + 1), ReadWordsOf(D7999, 1), ReadWordsOf(D7999, 2),
     ReadWordsOf(SW1A, 1), ReadWordsOf(RD3, 2), ReadWordsOf(D0, 0), ReadWordsOf(<<"Y", "8">>, 1),
     ReadWordsOf(TS0, 1), ReadBitsOf(D0, 1), ReadBitsOf(TS0, 3), ReadRandomOf(<<W(TS0)>>),
     ReadRandomOf(<<L32(LTN0)>>), ReadRandomOf(<<L32(LZ1)>>), ReadRandomOf(<<L32(D7999)>>),
     ReadBlocksOf(<<BlockSpec(D0, most), BlockSpec(M0, 1)>>), ReadTypeName}

Writes ==
    {WriteWordsOf(D10, <<-1, 0, 7>>), WriteWordsOf(M16, <<32773>>), WriteWordsOf(D10, <<65536>>),
     WriteWordsOf(D7999, <<1, 2>>), WriteBitsOf(M3, <<1, 0, 1>>), WriteBitsOf(Y20, <<1, 1, 0, 1>>),
     WriteBitsOf(D0, <<1>>),
     WriteRandomOf(<<RandomWrite(D10, "u32", 70001), RandomWrite(D13, "i16", -2), RandomWrite(D0, "u16", 9)>>),
     WriteRandomOf(<<RandomWrite(D10, "i16", 40000)>>),
     WriteRandomOf(<<RandomWrite(D0, "u16", 1), RandomWrite(D7999, "u32", 70001)>>),
     WriteRandomBitsOf(<<BitWrite(M0, 0), BitWrite(Y20, 1), BitWrite(X17, 0)>>),
     WriteRandomBitsOf(<<BitWrite(D0, 1)>>),
     WriteBlocksOf(<<BlockWrite(M16, <<5, 1>>), BlockWrite(D10, <<8, 9>>)>>)}

Monitored == <<L32(D11), W(D0)>>
Controls(entry) ==
    {RegisterMonitorOf(Monitored), ExecuteMonitorOf(MonitorRegistration(Monitored, entry.ctx)),
     RemoteRun(NOT_FORCED, NONE), RemoteRun(FORCED, INCLUDING_LATCH), RemotePause(FORCED),
     RemoteStop(<<>>), RemoteStop(<<1, 0>>), RemoteLatchClear(<<>>), RemoteReset(<<>>), ClearError,
     SelfTest(SubSeq(PASSWORD[entry.ctx.codec], 1, 3)), SelfTest(<<>>),
     UnlockPassword(PASSWORD[entry.ctx.codec]), LockPassword(PASSWORD[entry.ctx.codec])}

MCAsks(n, entry) ==
    IF IsKeyEntry(entry) THEN {RemoteRun(FORCED, NONE), CpuStatusCommand}
    ELSE IF IsLate4E(entry) /\ n = 2 THEN Writes
    ELSE IF n = 1 THEN Reads \cup MoreReads(entry) \cup Writes \cup Controls(entry)
    ELSE Reads \cup {ExecuteMonitorOf(MonitorRegistration(Monitored, entry.ctx)), RemoteLatchClear(<<>>),
                     UnlockPassword(PASSWORD[entry.ctx.codec])}

F(name, spec, address) == FieldPlan(name, spec, address)
Running(name, spec) == FieldPlan(name, spec, RunningBase)
D2 == <<"D", "2">>
LastM(entry) == IF OfFX5U(entry) THEN <<"M", "3", "2", "7", "6", "7">>
                ELSE <<"M", "1", "2", "2", "8", "7">>
BeforeLastM(entry) == IF OfFX5U(entry) THEN <<"M", "3", "2", "7", "6", "0">>
                      ELSE <<"M", "1", "2", "2", "8", "0">>

\* Words and double words mixed, bits in two windows, a field out of the run.
Motor == PlcBlock(D10,
    <<Running("speed", Bounded(U16, Bounds(0, 60000))), Running("torque", F32), F("run", Bit, M3),
      Running("tag", Str(3)), F("home", I16, D0), F("fault", Bit, M16), Running("total", F64),
      F("ready", Bit, <<"m", "0">>), Running("last", U32)>>)

\* The window of the last bits of the range is moved down, and bits counted to base eight.
Corner(entry) == PlcBlock(RunningBase,
    <<F("end", Bit, LastM(entry)), F("near", Bit, BeforeLastM(entry)), F("out", Bit, Y20),
      F("in", Bit, <<"X", "1", "7">>), F("word", U16, D11)>>)

\* Too many points for one request of an FX5U in ASCII.
Recipe == PlcBlock(D0,
    <<Running("first", U32), Running("name", Str(186)), F("on", Bit, M0), Running("after", I16)>>)

Unsound ==
    {PlcBlock(D10, <<>>), PlcBlock(D10, <<Running("a", Bit)>>), PlcBlock(RunningBase, <<Running("a", U16)>>),
     PlcBlock(D10, <<Running("a", U32), F("b", U16, D11)>>), PlcBlock(M0, <<Running("a", U16)>>),
     PlcBlock(D10, <<F("a", Bit, D0)>>), PlcBlock(D10, <<Running("a", Bounded(U16, Bounds(5, 2)))>>),
     PlcBlock(D7999, <<Running("a", F64)>>), [Motor EXCEPT !.word_order = "high-first"]}

Clock == ClockSource(D2, U16)
MCBlockReads(n, entry) ==
    IF n > 1 \/ IsKeyEntry(entry) THEN {} ELSE
    {Binding(Motor, NoClock, FALSE), Binding(Motor, Clock, FALSE), Binding(Corner(entry), NoClock, FALSE),
     Binding(PlcBlock(D10, <<Running("a", U32), Running("b", Bounded(U16, Bounds(0, 9)))>>), NoClock, FALSE),
     Binding(Recipe, Clock, FALSE), Binding(Recipe, Clock, TRUE),
     Binding(PlcBlock(D0, <<Running("a", Str(194)), Running("b", U16)>>), NoClock, TRUE)}
    \cup {Binding(block, NoClock, FALSE) : block \in Unsound}

Wrote(block, given) == [block |-> block, given |-> given]
MCBlockWrites(n, entry) ==
    IF n > 1 \/ IsKeyEntry(entry) THEN {} ELSE
    {Wrote(Motor, <<Given("last", <<70001>>), Given("speed", <<7>>)>>),
     Wrote(Motor, <<Given("tag", <<65, 66, 67>>), Given("total", <<1, 70002>>), Given("home", <<-3>>)>>),
     Wrote(Motor, <<Given("tag", <<65>>), Given("torque", <<65537>>)>>),
     Wrote(Motor, <<Given("tag", <<65, 66, 67, 68>>)>>), Wrote(Motor, <<Given("speed", <<60001>>)>>),
     Wrote(Motor, <<Given("home", <<40000>>)>>), Wrote(Motor, <<>>),
     Wrote(Motor, <<Given("ready", <<1>>), Given("fault", <<0>>)>>),
     Wrote(Motor, <<Given("ready", <<1>>), Given("speed", <<1>>)>>),
     Wrote(Corner(entry), <<Given("end", <<1>>), Given("out", <<1>>)>>)}

D200 == <<"D", "2", "0", "0">>
Low(spec, address) == ReadVerb(spec, address, "low-first")
High(spec, address) == ReadVerb(spec, address, "high-first")
Checked(spec, address, order, value) == WriteVerb(spec, address, order, value, TRUE)
Sent(spec, address, value) == WriteVerb(spec, address, "low-first", value, FALSE)
Nothing == Bounds(5, 2)

ReadVerbs ==
    {Low(Bit, M3), Low(I16, D200), Low(U32, D10), High(U32, D10), Low(I32, D200), High(F64, D10),
     Low(Text(5), D10), Low(Text(2), D200), Low(Text(0), D10), Low(U16, M16), Low(U32, D7999),
     Low(Bounded(U16, Bounds(0, 9)), D10), Low(Bounded(U32, Nothing), D10),
     ArrayReadVerb(D10, 2, "low-first"), ArrayReadVerb(D10, 2, "high-first"),
     RandomReadVerb(Mixed, FALSE), RandomReadVerb(<<>>, FALSE), StatusVerb, DiagnosticsVerb}

WriteVerbs ==
    {Checked(Bit, M3, "low-first", <<0>>), Checked(I16, D200, "low-first", <<-2>>),
     Checked(U16, M16, "low-first", <<6>>),
     Checked(U32, D10, "high-first", <<70001>>), Checked(I32, D10, "low-first", <<-70001>>),
     Checked(F64, D10, "high-first", <<1, 70002>>), Checked(Text(5), D10, "low-first", <<65, 66, 67>>),
     Checked(Text(4), D10, "low-first", <<65, 0, 66>>), Sent(Text(2), D10, <<65, 66, 67>>),
     Sent(I16, D10, <<40000>>), Sent(Bounded(U16, Bounds(0, 9)), D10, <<10>>),
     Sent(Bounded(U16, Nothing), D10, <<3>>), Sent(U32, D7999, <<1>>),
     ArrayWriteVerb(D10, <<70001, 2>>, "high-first"),
     RandomWriteVerb(<<RandomWrite(D10, "i32", 70001), RandomWrite(D13, "u16", 9)>>),
     RandomWriteVerb(<<RandomWrite(D10, "u16", -1)>>)}

\* One point more than a request may have, and then one that is refused when it is due.
SplitVerbs(entry) ==
    IF entry.ctx.encoding # "ascii-xy-oct" THEN {} ELSE
    {RandomReadVerb([k \in 1 .. 97 |-> IF k = 97 THEN final ELSE W(D10)], TRUE) : final \in {W(D13), W(TS0)}}

\* What a caller sends with his own hands, a remote command among it.
Raw(cmd, ctx) ==
    RawVerb(RawCommandOf(Code(cmd), SubcommandOf(cmd, ctx), Encode(cmd, ctx), Mutates(cmd),
                         ResponseOptional(cmd)))
RawVerbs(entry) ==
    {Raw(CpuStatusCommand, entry.ctx), Raw(RemotePause(FORCED), entry.ctx), Raw(RemoteReset(<<>>), entry.ctx),
     RawVerb(RawCommandOf(9999, 0, <<>>, TRUE, FALSE)), RawVerb(RawCommandOf(70000, 0, <<>>, FALSE, FALSE)),
     RawVerb(RawCommandOf(4102, 0, Encode(RemoteReset(<<>>), entry.ctx), TRUE, FALSE))}

RemoteVerbs ==
    {RemoteVerb(RemoteRun(FORCED, NONE), RUN, TRUE), RemoteVerb(RemoteStop(<<>>), STOP, TRUE),
     RemoteVerb(RemotePause(NOT_FORCED), PAUSE, FALSE)}

\* The codings and formats are those of the commands: one entry of each pair will do.
OffersVerbs(entry) ==
    entry.transport = "udp" \/ entry.ctx.encoding = "ascii-xy-oct" \/ IsLate4E(entry)

MCVerbsOf(entry) ==
    RemoteVerbs \cup
    (IF IsKeyEntry(entry) THEN {StatusVerb}
     ELSE RawVerbs(entry) \cup (IF OffersVerbs(entry) THEN ReadVerbs \cup WriteVerbs \cup SplitVerbs(entry)
                                ELSE {}))

\* The premises of the theorems hold of these plants.
ASSUME MCPremises == MadeForTheirCpus /\ CodesTellTheCause /\ WrittenMayBeRead /\ StatusIsMeant
=============================================================================
