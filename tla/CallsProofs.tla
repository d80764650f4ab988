---------------------------- MODULE CallsProofs ----------------------------
(***************************************************************************)
(* Proofs about Calls: what an exception says of what was sent and done,   *)
(* and that a verb of one value returns what the CPU has there.            *)
(***************************************************************************)
EXTENDS WireProofs

(***************************************************************************)
(* The tree of exceptions.                                                 *)
(***************************************************************************)

\* A class of a line is an SlmpError of that line and of no other.
LEMMA OfOneLine ==
    ASSUME NEW class, NEW line \in Lines, OfLine(class, line)
    PROVE  /\ IsA(class, "SlmpError") /\ IsA(class, line)
           /\ \A other \in Lines : IsA(class, other) => other = line
BY DEF OfLine, IsA, Lines

\* A class of no line is none of them.
LEMMA OfNoLine ==
    ASSUME NEW class \in DOMAIN Untranslated
    PROVE  \A line \in {"SlmpError"} \cup Lines : ~IsA(class, line)
<1>1. Lineage[class] \cap ({"SlmpError"} \cup Lines) = {}
  BY TreeAssumption
<1> QED
  BY <1>1 DEF IsA

\* A refusal before a request is a usage error, but for one of the codec's.
LEMMA RefusalsAreUsage ==
    ASSUME NEW why
    PROVE  \/ OfLine(UsageClass(why), "SlmpUsageError")
           \/ why = "codec"
<1>1. UsageClass(why) \in DOMAIN UsageErrors \/ why = "codec"
  BY DEF UsageClass, UsageErrors, Deriving
<1> QED
  BY <1>1, TreeAssumption

\* A frame that is refused is a protocol error, but for a route that is none.
LEMMA FaultsAreProtocol ==
    ASSUME NEW why
    PROVE  \/ OfLine(ProtocolClass(why), "SlmpProtocolError")
           \/ why = "route" /\ \A line \in {"SlmpError"} \cup Lines : ~IsA(ProtocolClass(why), line)
<1>1. \/ ProtocolClass(why) \in DOMAIN ProtocolErrors
      \/ why = "route" /\ ProtocolClass(why) \in DOMAIN Untranslated
  BY DEF ProtocolClass, ProtocolErrors, Untranslated, Deriving
<1> QED
  BY <1>1, TreeAssumption, OfNoLine

\* An end code is an end code error, whether END_CODES has it or not.
LEMMA EndCodesAreEndCodes ==
    ASSUME NEW code
    PROVE  OfLine(EndCodeClass(code), "SlmpEndCodeError")
BY TreeAssumption DEF EndCodeClass

\* An answer that does not mean what it should is a protocol or a semantic error, and
\* a check that cannot be made a usage error.
LEMMA MeaningsAreLines ==
    /\ OfLine(MeaningClass("format"), "SlmpProtocolError")
    /\ OfLine(MeaningClass("shape"), "SlmpProtocolError")
    /\ OfLine(MeaningClass("implausible"), "SlmpSemanticError")
    /\ OfLine(MeaningClass("verification"), "SlmpSemanticError")
    /\ OfLine(MeaningClass("not_reached"), "SlmpSemanticError")
    /\ OfLine(MeaningClass("configuration"), "SlmpUsageError")
BY TreeAssumption DEF MeaningClass, ProtocolErrors, SemanticErrors, UsageErrors, Deriving

-----------------------------------------------------------------------------
(***************************************************************************)
(* What a command that mutates is answered with.                           *)
(***************************************************************************)

\* An answer without data.
SaysNothing(o) == o.payload = <<>>

LEMMA UnlessSaysNothing ==
    ASSUME NEW s, NEW fault, NEW o, SaysNothing(o)
    PROVE  SaysNothing(Unless(s, fault, o))
BY Answers DEF Unless, SaysNothing

LEMMA NothingSaid ==
    ASSUME NEW s
    PROVE  /\ SaysNothing(Reply(s, <<>>)) /\ SaysNothing(Silence(s))
           /\ \A name : SaysNothing(Refusal(s, name))
           /\ \A pending : SaysNothing(Written(s, pending))
<1>1. \A t : SaysNothing(Reply(t, <<>>))
  BY Answers DEF SaysNothing
<1>2. SaysNothing(Silence(s))
  BY DEF Silence, Reply, SaysNothing
<1>3. \A name : SaysNothing(Refusal(s, name))
  BY Answers DEF SaysNothing
<1>4. \A end : SaysNothing(Ended(s, end))
  BY <1>1, UnlessSaysNothing DEF Ended
<1> QED
  BY <1>1, <1>2, <1>3, <1>4 DEF Written

\* The handlers of the commands that mutate.
LEMMA MutatingSayNothing ==
    ASSUME NEW s, NEW k
    PROVE  /\ SaysNothing(HandleRegisterMonitor(s, k))
           /\ SaysNothing(HandleRemoteRun(s, k))
           /\ SaysNothing(HandleRemoteStop(s, k))
           /\ SaysNothing(HandleRemotePause(s, k))
           /\ SaysNothing(HandleRemoteLatchClear(s, k))
           /\ SaysNothing(HandleRemoteReset(s, k))
           /\ SaysNothing(HandleBatchWrite(s, k))
           /\ SaysNothing(HandleWriteRandom(s, k))
           /\ SaysNothing(HandleWriteBlocks(s, k))
           /\ SaysNothing(HandleClearError(s, k))
           /\ SaysNothing(HandleUnlockPassword(s, k))
           /\ SaysNothing(HandleLockPassword(s, k))
<1>1. \A t : SaysNothing(Reply(t, <<>>))
  BY NothingSaid
<1>2. SaysNothing(HandleRegisterMonitor(s, k))
  BY <1>1, UnlessSaysNothing DEF HandleRegisterMonitor
<1>3. SaysNothing(HandleRemoteRun(s, k)) /\ SaysNothing(HandleRemoteStop(s, k))
  BY <1>1, UnlessSaysNothing DEF HandleRemoteRun, HandleRemoteStop
<1>4. SaysNothing(HandleRemotePause(s, k)) /\ SaysNothing(HandleRemoteLatchClear(s, k))
  BY <1>1, UnlessSaysNothing DEF HandleRemotePause, HandleRemoteLatchClear
<1>5. SaysNothing(HandleRemoteReset(s, k)) /\ SaysNothing(HandleClearError(s, k))
  BY <1>1, NothingSaid, UnlessSaysNothing DEF HandleRemoteReset, HandleClearError
<1>6. SaysNothing(HandleBatchWrite(s, k))
  <2> DEFINE WroteAt(device, count, values) ==
                 IF s.unit = "word" THEN Written(s, <<[device |-> device, values |-> values]>>)
                 ELSE Unless(s, BitSpanFault(s, device, count),
                             Reply([s EXCEPT !.memory = WriteCells(@, device.type, device.index, values)],
                                   <<>>))
  <2>1. \A device, count, values : SaysNothing(WroteAt(device, count, values))
    BY <1>1, NothingSaid, UnlessSaysNothing
  <2> HIDE DEF WroteAt
  <2>2. \A w : SaysNothing(Unless(s, w.fault, WroteAt(Field(w, 1), Field(w, 2), Field(w, 3))))
    BY <2>1, UnlessSaysNothing
  <2> QED
    BY <2>2, UnlessSaysNothing, SMTT(30) DEF HandleBatchWrite, WroteAt
<1>7. SaysNothing(HandleWriteRandomWords(s, k))
  BY NothingSaid, UnlessSaysNothing DEF HandleWriteRandomWords
<1>8. SaysNothing(HandleWriteRandomBits(s, k))
  <2>1. \A end : SaysNothing(Ended(s, end))
    BY <1>1, UnlessSaysNothing DEF Ended
  <2> QED
    BY <2>1, UnlessSaysNothing DEF HandleWriteRandomBits
<1>9. SaysNothing(HandleWriteBlocks(s, k))
  BY NothingSaid, UnlessSaysNothing DEF HandleWriteBlocks
<1>10. \A locked : SaysNothing(HandlePassword(s, k, locked))
  BY <1>1, UnlessSaysNothing DEF HandlePassword
<1> QED
  BY <1>2, <1>3, <1>4, <1>5, <1>6, <1>7, <1>8, <1>9, <1>10
     DEF HandleWriteRandom, HandleUnlockPassword, HandleLockPassword

\* The codes of the rows that mutate.
MutatingRows == {2049, 4097, 4098, 4099, 4101, 4102, 5121, 5122, 5126, 5655, 5680, 5681}

\* A command that mutates has no data to answer with (testing/dispatch.py, HANDLERS).
LEMMA MutatingIsAnsweredEmpty ==
    ASSUME NEW target, NEW mem, NEW st, NEW encoding, NEW request, request.command \in MutatingRows
    PROVE  SaysNothing(Handle(target, mem, st, encoding, request))
<1>1. ASSUME NEW s, NEW k PROVE SaysNothing(Handler(s, request.command, k))
  <2> DEFINE code == request.command
  <2>1. code = 2049 => SaysNothing(Handler(s, code, k))
    BY MutatingSayNothing DEF Handler
  <2>2. code = 4097 => SaysNothing(Handler(s, code, k))
    BY MutatingSayNothing DEF Handler
  <2>3. code = 4098 => SaysNothing(Handler(s, code, k))
    BY MutatingSayNothing DEF Handler
  <2>4. code = 4099 => SaysNothing(Handler(s, code, k))
    BY MutatingSayNothing DEF Handler
  <2>5. code = 4101 => SaysNothing(Handler(s, code, k))
    BY MutatingSayNothing DEF Handler
  <2>6. code = 4102 => SaysNothing(Handler(s, code, k))
    BY MutatingSayNothing DEF Handler
  <2>7. code = 5121 => SaysNothing(Handler(s, code, k))
    BY MutatingSayNothing DEF Handler
  <2>8. code = 5122 => SaysNothing(Handler(s, code, k))
    BY MutatingSayNothing DEF Handler
  <2>9. code = 5126 => SaysNothing(Handler(s, code, k))
    BY MutatingSayNothing DEF Handler
  <2>10. code = 5655 => SaysNothing(Handler(s, code, k))
    BY MutatingSayNothing DEF Handler
  <2>11. code = 5680 => SaysNothing(Handler(s, code, k))
    BY MutatingSayNothing DEF Handler
  <2>12. code = 5681 => SaysNothing(Handler(s, code, k))
    BY MutatingSayNothing DEF Handler
  <2> HIDE DEF code
  <2>13. code \in MutatingRows
    BY DEF code
  <2>14. SaysNothing(Handler(s, code, k))
    BY <2>1, <2>2, <2>3, <2>4, <2>5, <2>6, <2>7, <2>8, <2>9, <2>10, <2>11, <2>12, <2>13 DEF MutatingRows
  <2> QED
    BY <2>14 DEF code
<1> QED
  BY <1>1, UnlessSaysNothing DEF Handle

\* Nor does its client look for any.
LEMMA MutatingDecodesEmpty ==
    ASSUME NEW cmd, Known(cmd) \/ Honest(cmd), Mutates(cmd), NEW ctx
    PROVE  /\ cmd.name # "Raw" => Code(cmd) \in MutatingRows
           /\ DecodeFault(cmd, <<>>, ctx) = "none"
           /\ cmd.name = "Raw" => \A payload : DecodeFault(cmd, payload, ctx) = "none"
<1>1. CASE cmd.name = "Raw"
  BY <1>1 DEF DecodeFault, Refuse, ??
<1>2. CASE Known(cmd) /\ cmd.name # "Raw"
  <2>1. Row(cmd) \in COMMANDS /\ cmd.name \in Row(cmd).commands /\ Row(cmd).mutates /\ Code(cmd) = Row(cmd).code
    BY <1>2, RowOfCommand DEF Known
  <2>2. \A row \in COMMANDS : row.mutates =>
            /\ row.code \in MutatingRows
            /\ row.commands \cap {"ReadWords", "ReadBits", "ReadRandom", "ExecuteMonitor", "ReadBlocks",
                                  "ReadTypeName", "SelfTest"} = {}
    BY DEF COMMANDS, CommandSpec, MutatingRows
  <2>3. /\ Code(cmd) \in MutatingRows
        /\ cmd.name \notin {"ReadWords", "ReadBits", "ReadRandom", "ExecuteMonitor", "ReadBlocks",
                            "ReadTypeName", "SelfTest"}
    BY <2>1, <2>2
  <2>4. AnswerLen(cmd, ctx) = 0
    BY <2>3 DEF AnswerLen, Batches, BatchAnswerLen, BatchCode, BlocksAnswerLen
  <2> QED
    BY <1>2, <2>3, <2>4 DEF DecodeFault, Refuse, ??
<1> QED
  BY <1>1, <1>2 DEF Honest

\* What is wrong with an answer is its shape or its units.
LEMMA DecodeFaults ==
    ASSUME NEW cmd, NEW payload, NEW ctx
    PROVE  DecodeFault(cmd, payload, ctx) \in {"none", "format", "shape"}
BY DEF DecodeFault, Refuse, ??

LEMMA FillFaults ==
    ASSUME NEW reader, NEW payload, NEW codec
    PROVE  FillFault(reader, payload, codec) \in {"none", "format", "shape", "implausible"}
<1> DEFINE image == Image(reader, payload, codec)
           value(k) == GroupValue(reader, k, image)
           text(k) == Refuse(reader[k].spec.form = "string" /\ \E octet \in Range(value(k)) : octet > 127, "shape")
           number(k) == Refuse(reader[k].spec.bounds # NoBounds /\ Outside(value(k)[1], reader[k].spec.bounds),
                               "implausible")
<1>1. \A k : text(k) \in {"none", "shape"} /\ number(k) \in {"none", "implausible"}
  BY DEF Refuse
<1>2. FillFault(reader, payload, codec)
          = (Refuse(Len(payload) # PointAnswerLen(PointsOf(reader), codec), "shape")
             ?? Refuse(~Legible(codec, payload), "format")
             ?? FirstFault(Len(reader), text) ?? FirstFault(Len(reader), number))
  BY DEF FillFault
<1> HIDE DEF text, number
<1>3. FirstFault(Len(reader), text) \in {"none", "shape"}
  BY <1>1 DEF FirstFault
<1>4. FirstFault(Len(reader), number) \in {"none", "implausible"}
  BY <1>1 DEF FirstFault
<1>5. /\ Refuse(Len(payload) # PointAnswerLen(PointsOf(reader), codec), "shape") \in {"none", "shape"}
      /\ Refuse(~Legible(codec, payload), "format") \in {"none", "format"}
  BY DEF Refuse
<1> QED
  BY <1>2, <1>3, <1>4, <1>5 DEF ??

-----------------------------------------------------------------------------
(***************************************************************************)
(* The steps of a verb.                                                    *)
(***************************************************************************)

\* Commands that only look.
LEMMA ReadsMutateNothing ==
    ASSUME NEW cmd, cmd.name \in {"ReadWords", "ReadBits", "ReadRandom"}
    PROVE  ~Mutates(cmd)
<1>1. Known(cmd)
  BY KnownNames
<1>2. Row(cmd) \in COMMANDS /\ cmd.name \in Row(cmd).commands /\ Mutates(cmd) = Row(cmd).mutates
  BY <1>1, RowOfCommand DEF Known
<1>3. \A row \in COMMANDS : {"ReadWords", "ReadBits", "ReadRandom"} \cap row.commands # {} => ~row.mutates
  BY DEF COMMANDS, CommandSpec
<1> QED
  BY <1>2, <1>3

LEMMA ReadingMutatesNothing ==
    ASSUME NEW x, NEW y
    PROVE  /\ ~Mutates(ReadWordsOf(x, y)) /\ ~Mutates(ReadBitsOf(x, y)) /\ ~Mutates(ReadRandomOf(x))
           /\ ~Mutates(CpuStatusCommand)
<1>1. \A a, b : /\ ReadWordsOf(a, b).name = "ReadWords" /\ ReadBitsOf(a, b).name = "ReadBits"
                /\ ReadRandomOf(a).name = "ReadRandom"
  BY DEF ReadWordsOf, ReadBitsOf, ReadRandomOf
<1> QED
  BY <1>1, ReadsMutateNothing DEF CpuStatusCommand

\* What a step does.
Looks(step) == step.do = "ask" /\ ~Mutates(step.cmd)
Objects(step, whys) == step.do = "raise" /\ step.why \in whys
Returns(step) == step.do = "return"

LEMMA StepsDo ==
    ASSUME NEW cmd, NEW value, NEW why
    PROVE  /\ AskFor(cmd).do = "ask" /\ AskFor(cmd).cmd = cmd
           /\ Returns(Return(value)) /\ Raise(why).do = "raise" /\ Raise(why).why = why
BY DEF AskFor, Return, Raise, Returns

\* read: one request, and then a value or what is wrong with it.
LEMMA ReadStepsDo ==
    ASSUME NEW v, NEW got
    PROVE  /\ got = <<>> => ReadSteps(v, got) = AskFor(ReadCommand(v)) /\ Looks(ReadSteps(v, got))
           /\ got # <<>> => \/ Returns(ReadSteps(v, got))
                            \/ Objects(ReadSteps(v, got), {"configuration", "implausible", "shape"})
           /\ got # <<>> /\ v.spec.bounds = NoBounds =>
                  Returns(ReadSteps(v, got)) \/ Objects(ReadSteps(v, got), {"shape"})
<1>1. ~Mutates(ReadCommand(v))
  BY ReadingMutatesNothing DEF ReadCommand
<1>2. CASE got = <<>>
  <2>1. ReadSteps(v, got) = AskFor(ReadCommand(v))
    BY <1>2 DEF ReadSteps
  <2> QED
    BY <1>1, <1>2, <2>1, StepsDo DEF Looks
<1>3. CASE got # <<>>
  <2> DEFINE value == Valued(v, got[1])
             step == ReadSteps(v, got)
  <2>1. step = Judged(v.spec, value)
    BY <1>3 DEF ReadSteps
  <2> HIDE DEF value, step
  <2>2. \/ step \in {Return(value), Raise("shape")}
        \/ v.spec.bounds # NoBounds /\ step \in {Raise("configuration"), Raise("implausible"), Return(value)}
    BY <2>1 DEF Judged, CheckReading
  <2>3. \A why : Raise(why).do = "raise" /\ Raise(why).why = why
    BY StepsDo
  <2>4. \/ Returns(step) \/ Objects(step, {"shape"})
        \/ v.spec.bounds # NoBounds /\ Objects(step, {"configuration", "implausible"})
    BY <2>2, <2>3, StepsDo DEF Objects
  <2> QED
    BY <1>3, <2>4 DEF step, Objects
<1> QED
  BY <1>2, <1>3

\* write: one request, and where it is verified the read of what was written.
LEMMA WriteStepsDo ==
    ASSUME NEW v, {"spec", "address"} \subseteq DOMAIN v, {"form", "words", "bounds"} \subseteq DOMAIN v.spec,
           NEW got
    PROVE  /\ got = <<>> => WriteSteps(v, got) = AskFor(WriteCommand(v))
           /\ got # <<>> =>
                 \/ Returns(WriteSteps(v, got))
                 \/ v.verify /\ Tail(got) = <<>> /\ WriteSteps(v, got) = AskFor(ReadCommand(v))
                 \/ Tail(got) # <<>> /\ Objects(WriteSteps(v, got), {"shape", "verification"})
<1>1. CASE got = <<>>
  BY <1>1 DEF WriteSteps
<1>2. CASE got # <<>>
  <2> DEFINE plain == [v EXCEPT !.spec.bounds = NoBounds]
             back == ReadSteps(plain, Tail(got))
             step == WriteSteps(v, got)
  <2>1. /\ plain.spec.bounds = NoBounds /\ plain.spec.form = v.spec.form
        /\ plain.spec.words = v.spec.words /\ plain.address = v.address
    OBVIOUS
  <2>2. step = IF ~v.verify THEN Return(<<>>) ELSE IF back.do = "ask" THEN back ELSE Check(v.value, back)
    BY <1>2 DEF WriteSteps
  <2> HIDE DEF plain
  <2>3. ReadCommand(plain) = ReadCommand(v)
    BY <2>1 DEF ReadCommand
  <2>4. /\ Tail(got) = <<>> => back = AskFor(ReadCommand(v)) /\ back.do = "ask"
        /\ Tail(got) # <<>> => Returns(back) \/ Objects(back, {"shape"})
    <3>1. Tail(got) = <<>> => back = AskFor(ReadCommand(v))
      BY <2>3, ReadStepsDo
    <3>2. Tail(got) # <<>> => Returns(back) \/ Objects(back, {"shape"})
      BY <2>1, ReadStepsDo
    <3> QED
      BY <3>1, <3>2, StepsDo
  <2> HIDE DEF back, step
  <2>5. ~v.verify => Returns(step)
    BY <2>2, StepsDo
  <2>6. CASE v.verify /\ Tail(got) = <<>>
    BY <1>2, <2>2, <2>4, <2>6 DEF step
  <2>7. CASE v.verify /\ Tail(got) # <<>>
    <3>1. step = Check(v.value, back)
      BY <2>2, <2>4, <2>7 DEF Returns, Objects
    <3>2. \/ Objects(back, {"shape"}) /\ step = back
          \/ step \in {Return(<<>>), Raise("verification")}
      BY <2>4, <2>7, <3>1 DEF Check, Returns, Objects
    <3>3. Returns(step) \/ Objects(step, {"shape", "verification"})
      BY <3>2, StepsDo DEF Objects
    <3> QED
      BY <1>2, <2>7, <3>3 DEF step
  <2> QED
    BY <1>2, <2>5, <2>6, <2>7 DEF step
<1> QED
  BY <1>1, <1>2

\* A remote verb: one request, and where it is verified SD203 over and over.
LEMMA RemoteStepsDo ==
    ASSUME NEW v, NEW got, NEW step \in RemoteSteps(v, got)
    PROVE  /\ got = <<>> => step = AskFor(v.cmd)
           /\ got # <<>> =>
                 \/ Returns(step)
                 \/ v.verify /\ step = AskFor(CpuStatusCommand)
                 \/ Len(got) # 1 /\ Objects(step, {"shape", "not_reached"})
<1>1. CASE got = <<>>
  BY <1>1 DEF RemoteSteps
<1>2. CASE got # <<>>
  <2>1. \/ step = Return(<<v.wanted>>)
        \/ v.verify /\ step = AskFor(CpuStatusCommand)
        \/ Len(got) # 1 /\ step \in {Raise("shape"), Raise("not_reached")}
    BY <1>2 DEF RemoteSteps
  <2> QED
    BY <1>2, <2>1, StepsDo DEF Objects
<1> QED
  BY <1>1, <1>2

\* The verbs that are one request or several, and then a value.
LEMMA OtherStepsDo ==
    ASSUME NEW v, NEW ctx, NEW got
    PROVE  /\ Looks(ArrayReadSteps(v, got)) \/ Returns(ArrayReadSteps(v, got))
           /\ Looks(RandomReadSteps(v, ctx, got)) \/ Returns(RandomReadSteps(v, ctx, got))
           /\ got # <<>> => /\ Returns(ArrayWriteSteps(v, got)) /\ Returns(RandomWriteSteps(v, got))
                            /\ Returns(RawSteps(v, got))
           /\ got = <<>> => /\ ArrayWriteSteps(v, got).do = "ask" /\ RandomWriteSteps(v, got).do = "ask"
                            /\ RawSteps(v, got).do = "ask"
<1>1. Looks(ArrayReadSteps(v, got)) \/ Returns(ArrayReadSteps(v, got))
  BY StepsDo, ReadingMutatesNothing DEF ArrayReadSteps, Looks
<1>2. Looks(RandomReadSteps(v, ctx, got)) \/ Returns(RandomReadSteps(v, ctx, got))
  <2>1. \E points : RandomReadSteps(v, ctx, got) \in {AskFor(ReadRandomOf(points)), Return(FlattenSeq(got))}
    BY DEF RandomReadSteps
  <2> QED
    BY <2>1, StepsDo, ReadingMutatesNothing DEF Looks
<1> QED
  BY <1>1, <1>2, StepsDo DEF ArrayWriteSteps, RandomWriteSteps, RawSteps

\* The CPU's state and its diagnostics.
LEMMA StatusStepsDo ==
    ASSUME NEW got
    PROVE  /\ got = <<>> => Looks(StatusSteps(got)) /\ Looks(DiagnosticsSteps(got))
           /\ got # <<>> => /\ Returns(StatusSteps(got)) \/ Objects(StatusSteps(got), {"shape"})
                            /\ Returns(DiagnosticsSteps(got)) \/ Objects(DiagnosticsSteps(got), {"shape"})
<1>1. CASE got = <<>>
  BY <1>1, StepsDo, ReadingMutatesNothing DEF StatusSteps, DiagnosticsSteps, Looks
<1>2. CASE got # <<>>
  <2>1. /\ StatusSteps(got) \in {Return(got[1]), Raise("shape")}
        /\ DiagnosticsSteps(got) \in {Return(<<DecodeDiagnostics(got[1])>>), Raise("shape")}
    BY <1>2 DEF StatusSteps, DiagnosticsSteps
  <2> QED
    BY <1>2, <2>1, StepsDo DEF Objects
<1> QED
  BY <1>1, <1>2

\* Verbs that may change something; and whether all a verb still does is to look.
Changers == {"write", "write_f32_array", "write_random", "remote", "raw_command"}
OnlyLooks(v, got) == v.verb \notin Changers \/ got # <<>>

\* What a write and a remote verb ask for first.
FirstCommand(v) == IF v.verb = "write" THEN WriteCommand(v) ELSE v.cmd
LooksAfterwards(v) == v.verb \in {"write", "remote"}

\* A step that asks, and one that raises.
AsksWell(v, ctx, got, cmd) ==
    /\ OnlyLooks(v, got) => ~Mutates(cmd)
    /\ LooksAfterwards(v) /\ got = <<>> => cmd = FirstCommand(v)
    /\ v.verb \in Changers /\ got # <<>> =>
          LooksAfterwards(v) /\ LooksBack(ctx, FirstCommand(v), cmd)
RaisesWell(v, got, why) ==
    /\ why \in {"configuration", "implausible", "shape", "verification", "not_reached"}
    /\ why = "configuration" => v.verb \notin Changers
    /\ got # <<>> /\ \A old, x : got = Append(old, x) => OnlyLooks(v, old)

\* One answer is the first.
LEMMA OneAnswer ==
    ASSUME NEW old, NEW x, old = <<>>
    PROVE  Tail(Append(old, x)) = <<>> /\ Len(Append(old, x)) = 1
OBVIOUS

LEMMA VerbsDo ==
    ASSUME WrittenMayBeRead, NEW p \in Range(Plants), NEW e \in Range(p.entries), NEW v \in VerbsOf(e),
           NEW got, NEW step \in NextSteps(v, e.ctx, got)
    PROVE  /\ step.do = "ask" => AsksWell(v, e.ctx, got, step.cmd)
           /\ step.do \notin {"ask", "return"} => RaisesWell(v, got, step.why)
<1> DEFINE Good == /\ step.do = "ask" => AsksWell(v, e.ctx, got, step.cmd)
                   /\ step.do \notin {"ask", "return"} => RaisesWell(v, got, step.why)
<1>1. /\ v.verb \in {"read", "write", "read_f32_array", "write_f32_array", "read_random",
                     "write_random", "read_cpu_status", "remote", "read_diagnostics", "raw_command"}
      /\ v.verb = "write" =>
            /\ {"spec", "address"} \subseteq DOMAIN v
            /\ {"form", "words", "bounds"} \subseteq DOMAIN v.spec
  BY VerbsAssumption
<1>2. /\ v.verb = "write" /\ v.verify => LooksBack(e.ctx, WriteCommand(v), ReadCommand(v))
      /\ v.verb = "remote" /\ v.verify => LooksBack(e.ctx, v.cmd, CpuStatusCommand)
  BY DEF WrittenMayBeRead
<1>3. ASSUME v.verb \notin Changers, Looks(step) \/ Returns(step) PROVE Good
  BY <1>3 DEF Looks, Returns, AsksWell, LooksAfterwards, Changers
<1>4. ASSUME v.verb \notin Changers, got # <<>>,
             Objects(step, {"configuration", "implausible", "shape"})
      PROVE  Good
  BY <1>4 DEF Objects, RaisesWell, OnlyLooks
<1>5. CASE v.verb = "read"
  <2>1. step = ReadSteps(v, got) /\ v.verb \notin Changers
    BY <1>5 DEF NextSteps, Changers
  <2> QED
    BY <1>3, <1>4, <2>1, ReadStepsDo
<1>6. CASE v.verb = "write"
  <2>1. step = WriteSteps(v, got)
    BY <1>6 DEF NextSteps
  <2>2. LooksAfterwards(v) /\ v.verb \in Changers /\ FirstCommand(v) = WriteCommand(v)
    BY <1>6 DEF LooksAfterwards, Changers, FirstCommand
  <2>3. ~Mutates(ReadCommand(v))
    BY ReadingMutatesNothing DEF ReadCommand
  <2>4. CASE got = <<>>
    <3>1. step = AskFor(WriteCommand(v))
      BY <1>1, <1>6, <2>1, <2>4, WriteStepsDo
    <3>2. step.do = "ask" /\ step.cmd = WriteCommand(v)
      BY <3>1, StepsDo
    <3> QED
      BY <2>2, <2>4, <3>2 DEF AsksWell, OnlyLooks
  <2>5. CASE Returns(step)
    BY <2>5 DEF Returns
  <2>6. CASE got # <<>> /\ v.verify /\ step = AskFor(ReadCommand(v))
    <3>1. step.do = "ask" /\ step.cmd = ReadCommand(v)
      BY <2>6, StepsDo
    <3> QED
      BY <1>2, <1>6, <2>2, <2>3, <2>6, <3>1 DEF AsksWell
  <2>7. CASE got # <<>> /\ Tail(got) # <<>> /\ Objects(step, {"shape", "verification"})
    BY <2>7, OneAnswer DEF Objects, RaisesWell, OnlyLooks
  <2> QED
    BY <1>1, <1>6, <2>1, <2>4, <2>5, <2>6, <2>7, WriteStepsDo
<1>7. CASE v.verb = "remote"
  <2>1. step \in RemoteSteps(v, got)
    BY <1>7 DEF NextSteps
  <2>2. LooksAfterwards(v) /\ v.verb \in Changers /\ FirstCommand(v) = v.cmd
    BY <1>7 DEF LooksAfterwards, Changers, FirstCommand
  <2>3. CASE got = <<>>
    <3>1. step.do = "ask" /\ step.cmd = v.cmd
      BY <2>1, <2>3, RemoteStepsDo, StepsDo
    <3> QED
      BY <2>2, <2>3, <3>1 DEF AsksWell, OnlyLooks
  <2>4. CASE Returns(step)
    BY <2>4 DEF Returns
  <2>5. CASE got # <<>> /\ v.verify /\ step = AskFor(CpuStatusCommand)
    <3>1. step.do = "ask" /\ step.cmd = CpuStatusCommand
      BY <2>5, StepsDo
    <3> QED
      BY <1>2, <1>7, <2>2, <2>5, <3>1, ReadingMutatesNothing DEF AsksWell
  <2>6. CASE got # <<>> /\ Len(got) # 1 /\ Objects(step, {"shape", "not_reached"})
    BY <2>6, OneAnswer DEF Objects, RaisesWell, OnlyLooks
  <2> QED
    BY <2>1, <2>3, <2>4, <2>5, <2>6, RemoteStepsDo
<1>8. CASE v.verb \in {"write_f32_array", "write_random", "raw_command"}
  <2>1. step \in {ArrayWriteSteps(v, got), RandomWriteSteps(v, got), RawSteps(v, got)}
    BY <1>8 DEF NextSteps
  <2>2. ~LooksAfterwards(v) /\ v.verb \in Changers
    BY <1>8 DEF LooksAfterwards, Changers
  <2>3. CASE got = <<>>
    <3>1. step.do = "ask"
      BY <2>1, <2>3, OtherStepsDo
    <3> QED
      BY <2>2, <2>3, <3>1 DEF AsksWell, OnlyLooks
  <2>4. CASE got # <<>>
    <3>1. Returns(step)
      BY <2>1, <2>4, OtherStepsDo
    <3> QED
      BY <3>1 DEF Returns
  <2> QED
    BY <2>3, <2>4
<1>9. CASE v.verb \in {"read_f32_array", "read_random"}
  <2>1. step \in {ArrayReadSteps(v, got), RandomReadSteps(v, e.ctx, got)} /\ v.verb \notin Changers
    BY <1>9 DEF NextSteps, Changers
  <2> QED
    BY <1>3, <2>1, OtherStepsDo
<1>10. CASE v.verb \in {"read_cpu_status", "read_diagnostics"}
  <2>1. step \in {StatusSteps(got), DiagnosticsSteps(got)} /\ v.verb \notin Changers
    BY <1>10 DEF NextSteps, Changers
  <2>2. Objects(step, {"shape"}) => Objects(step, {"configuration", "implausible", "shape"})
    BY DEF Objects
  <2> QED
    BY <1>3, <1>4, <2>1, <2>2, StatusStepsDo
<1> QED
  BY <1>1, <1>5, <1>6, <1>7, <1>8, <1>9, <1>10

-----------------------------------------------------------------------------
(***************************************************************************)
(* Calls and what becomes of them.                                         *)
(***************************************************************************)

\* Where there was no call, none is under way and none has failed.
Failures == {"refused", "timeout", "protocol", "end_code", "decode", "raised"}
Called == call = NoCall => phase = "idle" /\ outcome.kind \notin Failures

\* The memory is as the call found it until it is served, for good if its command does not
\* mutate, and of course if it was refused.
LeftAlone ==
    phase = "asked" \/ ~Mutates(call.cmd) \/ outcome.kind = "refused" =>
        (call # NoCall => memory = call.before)

\* A command that mutates is answered with what its client can read.
IsLegible(response) == response.end_code = 0 => DecodeFault(call.cmd, response.payload, Ctx) = "none"
AnswerIsLegible ==
    phase = "answered" /\ ~ThePlant.stale /\ Mutates(call.cmd) =>
        IsLegible(RawResponse(Client(call).frame, Ctx.codec, wire))

\* So an answer that cannot be read is one to a command that does not.
Misread(why) == why \in {"format", "shape", "implausible"} /\ (~ThePlant.stale => ~Mutates(call.cmd))
DecodeTold == outcome.kind = "decode" => Misread(outcome.why)

\* The invariant of calls on the wire, and with it that blocks only read.
WireTold == Called /\ LeftAlone /\ AnswerIsLegible /\ DecodeTold
ReadsOnly == Reading /\ phase # "idle" => ~Mutates(call.cmd)

\* A step that keeps it, and is none of a verb that raises.
StepTold == WireTold' /\ (outcome.kind # "raised" => outcome'.kind # "raised")

\* A call is not the lack of one.
LEMMA ACallIsOne ==
    ASSUME NEW e, NEW cmd, NEW serial, Begin(e, cmd, serial)
    PROVE  /\ call' # NoCall /\ call'.cmd = cmd /\ call'.before = memory /\ call'.entry = e
           /\ UNCHANGED <<plant, memory>>
<1>1. call' = [entry |-> e, cmd |-> cmd, before |-> memory, serial |-> serial] /\ UNCHANGED <<plant, memory>>
  BY DEF Begin
<1>2. "entry" \in DOMAIN call' /\ "entry" \notin DOMAIN NoCall
  BY <1>1 DEF NoCall
<1> QED
  BY <1>1, <1>2

\* Nothing happens to a call, but that the client may be ready for another one.
LEMMA QuietIsTold ==
    ASSUME WireTold, UNCHANGED <<plant, memory, call, phase, wire>>,
           outcome' = outcome \/ outcome'.kind = "none"
    PROVE  StepTold
<1>1. ThePlant' = ThePlant /\ Client(call)' = Client(call) /\ Ctx' = Ctx
  BY SamePlant
<1>2. Called'
  BY DEF WireTold, Called, Failures
<1>3. LeftAlone'
  BY DEF WireTold, LeftAlone
<1>4. AnswerIsLegible'
  BY <1>1 DEF WireTold, AnswerIsLegible, IsLegible
<1>5. DecodeTold'
  BY <1>1 DEF WireTold, DecodeTold, Misread
<1> QED
  BY <1>2, <1>3, <1>4, <1>5 DEF StepTold, WireTold

\* A call that comes to its end.
LEMMA EndIsTold ==
    ASSUME WireTold, phase # "idle", NEW o, End(o), UNCHANGED <<plant, call>>,
           ~Mutates(call.cmd) => memory' = memory,
           o.kind \notin {"refused", "raised"}, o.kind = "decode" => Misread(o.why)
    PROVE  StepTold /\ phase' = "idle" /\ outcome'.kind \notin {"refused", "raised"}
<1>1. phase' = "idle" /\ outcome' = o
  BY DEF End
<1>2. ThePlant' = ThePlant /\ call # NoCall /\ call' = call
  BY SamePlant DEF WireTold, Called
<1>3. Called' /\ AnswerIsLegible'
  BY <1>1, <1>2 DEF Called, AnswerIsLegible
<1>4. LeftAlone'
  BY <1>1, <1>2 DEF WireTold, LeftAlone
<1>5. DecodeTold'
  BY <1>1, <1>2 DEF DecodeTold, Misread
<1> QED
  BY <1>1, <1>3, <1>4, <1>5 DEF StepTold, WireTold

\* A call that is refused ...
LEMMA RefusedIsTold ==
    ASSUME NEW e, NEW cmd, NEW refusal, RefuseToSend(e, cmd, refusal)
    PROVE  /\ StepTold /\ phase' = "idle" /\ outcome'.kind = "refused" /\ UNCHANGED memory
           /\ call' # NoCall /\ call'.cmd = cmd
<1>1. /\ phase' = "idle" /\ outcome' = Outcome("refused", refusal, <<>>) /\ Begin(e, cmd, NoSerial)
  BY DEF RefuseToSend, End
<1>2. outcome'.kind = "refused"
  BY <1>1 DEF Outcome
<1>3. call' # NoCall /\ call'.cmd = cmd /\ call'.before = memory /\ memory' = memory
  BY <1>1, ACallIsOne
<1>4. Called' /\ LeftAlone' /\ AnswerIsLegible' /\ DecodeTold'
  BY <1>1, <1>2, <1>3 DEF Called, LeftAlone, AnswerIsLegible, DecodeTold
<1> QED
  BY <1>1, <1>2, <1>3, <1>4 DEF StepTold, WireTold

\* ... and one that is asked.
LEMMA BegunIsTold ==
    ASSUME NEW e, NEW cmd, NEW serial, Begin(e, cmd, serial), phase' = "asked", outcome'.kind = "none"
    PROVE  StepTold /\ UNCHANGED memory /\ call' # NoCall /\ call'.cmd = cmd
<1>1. call' # NoCall /\ call'.cmd = cmd /\ call'.before = memory /\ memory' = memory
  BY ACallIsOne
<1>2. Called' /\ LeftAlone' /\ AnswerIsLegible' /\ DecodeTold'
  BY <1>1 DEF Called, LeftAlone, AnswerIsLegible, DecodeTold
<1> QED
  BY <1>1, <1>2 DEF StepTold, WireTold

LEMMA AskIsTold ==
    ASSUME NEW e, NEW cmd, Ask(e, cmd)
    PROVE  /\ StepTold /\ UNCHANGED memory /\ call' # NoCall /\ call'.cmd = cmd
           /\ IF Refused(cmd, ThePlant.entries[e].ctx) = "none" THEN outcome'.kind = "none"
              ELSE outcome'.kind = "refused"
<1> DEFINE entry == ThePlant.entries[e]
           refusal == Refused(cmd, entry.ctx)
<1>1. CASE refusal # "none"
  <2>1. RefuseToSend(e, cmd, refusal)
    BY <1>1 DEF Ask
  <2> QED
    BY <1>1, <2>1, RefusedIsTold
<1>2. CASE refusal = "none"
  <2>1. Send(e, entry, cmd, SerialFor(entry.frame, calls + 1))
    BY <1>2 DEF Ask
  <2>2. outcome'.kind = "none"
    BY <2>1 DEF Send, NoOutcome, Outcome
  <2> QED
    BY <1>2, <2>1, <2>2, BegunIsTold DEF Send
<1> QED
  BY <1>1, <1>2

\* What a CPU answers to a command that mutates is legible.
LEMMA MutatingIsLegible ==
    ASSUME WireInv, MessagesFit, phase = "asked", Mutates(call.cmd), NEW request, NEW served,
           request = RawRequest(Client(call).frame, Ctx.codec, wire),
           served = Handle(Target, memory, state, Ctx.encoding, request)
    PROVE  IsLegible(RawResponse(Client(call).frame, Ctx.codec, AnswerUnits(Client(call), request, served)))
<1> DEFINE cmd == call.cmd
           response == RawResponse(Client(call).frame, Ctx.codec, AnswerUnits(Client(call), request, served))
<1>1. /\ request.command = Code(cmd) /\ Sendable(cmd, Ctx)
      /\ IsServed(Client(call), request, call.serial, served) /\ Ctx = Client(call).ctx
  BY ServedRequest DEF Ctx
<1>2. response.end_code = served.end_code /\ (served.end_code = 0 => response.payload = served.payload)
  BY <1>1, WhatIsAnswered
<1>3. Known(cmd) \/ Honest(cmd)
  BY <1>1 DEF Sendable
<1> HIDE DEF cmd, response
<1>4. /\ cmd.name # "Raw" => Code(cmd) \in MutatingRows
      /\ DecodeFault(cmd, <<>>, Ctx) = "none"
      /\ cmd.name = "Raw" => DecodeFault(cmd, response.payload, Ctx) = "none"
  BY <1>3, MutatingDecodesEmpty DEF cmd
<1>5. cmd.name # "Raw" => SaysNothing(served)
  BY <1>1, <1>4, MutatingIsAnsweredEmpty
<1>6. response.end_code = 0 => DecodeFault(cmd, response.payload, Ctx) = "none"
  BY <1>2, <1>4, <1>5 DEF SaysNothing
<1> QED
  BY <1>6 DEF IsLegible, cmd, response

\* A command that does not mutate leaves the memory alone: SD203 shows already what it says again.
LEMMA LookingChangesNothing ==
    ASSUME WireInv, SentAsMeant, Travel, ~Mutates(call.cmd)
    PROVE  memory' = memory
<1>1. phase = "asked" => memory' = PublishState(memory, state)
  BY TravelIsWell DEF SentAsMeant, Harmless
<1>2. phase # "asked" => memory' = memory
  BY DEF Travel, Serve, ReceiveStream, ReceiveDatagram, Fed
<1> QED
  BY <1>1, <1>2 DEF SentAsMeant, StateIsShown

\* A request is served ...
LEMMA ServeIsTold ==
    ASSUME WireInv, WireTold, SentAsMeant, Serve
    PROVE  StepTold /\ UNCHANGED call /\ outcome'.kind \notin {"refused", "raised"}
<1> DEFINE entry == Client(call)
           request == RawRequest(entry.frame, Ctx.codec, wire)
           served == Handle(Target, memory, state, Ctx.encoding, request)
           raw == AnswerUnits(entry, request, served)
           o == Outcome(IF ResponseOptional(call.cmd) THEN "silent" ELSE "timeout", "none", <<>>)
<1>1. /\ phase = "asked" /\ UNCHANGED <<plant, call>>
      /\ End(o) \/ Answer(entry, raw)
  BY DEF Serve, Ctx
<1>2. ~Mutates(call.cmd) => memory' = memory
  BY LookingChangesNothing DEF Travel
<1>3. CASE End(o)
  <2>1. o.kind \in {"silent", "timeout"}
    BY DEF Outcome
  <2> HIDE DEF o
  <2> QED
    BY <1>1, <1>2, <1>3, <2>1, EndIsTold
<1>4. CASE Answer(entry, raw)
  <2>1. phase' = "answered" /\ (~ThePlant.stale => wire' = raw) /\ outcome' = outcome
    BY <1>4 DEF Answer
  <2>2. outcome.kind = "none" /\ call # NoCall /\ call' = call
    BY <1>1 DEF WireInv, OutcomeWell, WireTold, Called
  <2>3. Mutates(call.cmd) => IsLegible(RawResponse(entry.frame, Ctx.codec, raw))
    BY <1>1, MutatingIsLegible DEF SentAsMeant
  <2>4. ThePlant' = ThePlant /\ Client(call)' = Client(call) /\ Ctx' = Ctx
    BY <1>1, SamePlant
  <2>5. Mutates(call.cmd) /\ ~ThePlant.stale => IsLegible(RawResponse(entry.frame, Ctx.codec, wire'))
    BY <2>1, <2>3
  <2> HIDE DEF request, served, raw, entry
  <2>6. AnswerIsLegible'
    BY <2>2, <2>4, <2>5 DEF AnswerIsLegible, IsLegible, entry
  <2>7. Called' /\ DecodeTold'
    BY <2>1, <2>2 DEF Called, DecodeTold
  <2>8. LeftAlone'
    BY <1>1, <1>2, <2>1, <2>2 DEF WireTold, LeftAlone
  <2> QED
    BY <2>1, <2>2, <2>6, <2>7, <2>8 DEF StepTold, WireTold
<1> QED
  BY <1>1, <1>3, <1>4

\* ... and its answer read ...
LEMMA FedIsTold ==
    ASSUME WireInv, WireTold, phase = "answered", NEW units, NEW whole \in BOOLEAN, Fed(units, whole)
    PROVE  StepTold /\ UNCHANGED call /\ outcome'.kind \notin {"refused", "raised"}
<1>1. /\ UNCHANGED <<plant, memory, call>>
      /\ \/ \E fault : Broken(fault)
         \/ UNCHANGED <<phase, wire, outcome>>
  BY DEF Fed
<1>2. CASE \E fault : Broken(fault)
  <2>1. PICK fault : End(Outcome("protocol", fault, <<>>))
    BY <1>2 DEF Broken
  <2>2. Outcome("protocol", fault, <<>>).kind = "protocol"
    BY DEF Outcome
  <2> QED
    BY <1>1, <2>1, <2>2, EndIsTold
<1>3. CASE UNCHANGED <<phase, wire, outcome>>
  <2>1. outcome.kind = "none"
    BY DEF WireInv, OutcomeWell
  <2> QED
    BY <1>1, <1>3, <2>1, QuietIsTold
<1> QED
  BY <1>1, <1>2, <1>3

LEMMA TravelIsTold ==
    ASSUME WireInv, WireTold, SentAsMeant, Travel
    PROVE  StepTold /\ UNCHANGED call /\ outcome'.kind \notin {"refused", "raised"}
<1>1. CASE Serve
  BY <1>1, ServeIsTold
<1>2. CASE ReceiveStream
  BY <1>2, FedIsTold DEF ReceiveStream
<1>3. CASE ReceiveDatagram
  BY <1>3, FedIsTold DEF ReceiveDatagram
<1> QED
  BY <1>1, <1>2, <1>3 DEF Travel

\* ... and taken.
LEMMA ConclusionIsTold ==
    ASSUME WireInv, WireTold, phase = "answered", BytesNeeded(acc) = 0
    PROVE  /\ Conclusion.kind \notin {"refused", "raised"}
           /\ Conclusion.kind = "decode" => Misread(Conclusion.why)
<1> DEFINE response == Taken(acc)
           misfit == DecodeFault(call.cmd, response.payload, Ctx)
<1>1. \/ Conclusion.kind \in {"protocol", "end_code"}
      \/ /\ TakeFault(acc) = "none" /\ response.end_code = 0
         /\ Conclusion = Meaning(call.cmd, response.payload, Ctx)
  BY DEF Conclusion, Outcome
<1>2. misfit \in {"none", "format", "shape"}
  BY DecodeFaults
<1>3. Meaning(call.cmd, response.payload, Ctx)
          = IF misfit # "none" THEN Outcome("decode", misfit, <<>>)
            ELSE Outcome("returned", "none", Decode(call.cmd, response.payload, Ctx))
  BY DEF Meaning
<1>4. \/ Meaning(call.cmd, response.payload, Ctx).kind = "returned"
      \/ /\ misfit # "none" /\ Meaning(call.cmd, response.payload, Ctx).kind = "decode"
         /\ Meaning(call.cmd, response.payload, Ctx).why = misfit
  BY <1>3 DEF Outcome
<1>5. ~ThePlant.stale /\ Mutates(call.cmd) /\ response.end_code = 0 => misfit = "none"
  <2>1. ~ThePlant.stale /\ Mutates(call.cmd) => IsLegible(response)
    BY TakenIsTheAnswer DEF WireTold, AnswerIsLegible
  <2> QED
    BY <2>1 DEF IsLegible
<1> QED
  BY <1>1, <1>2, <1>4, <1>5 DEF Misread

LEMMA ConcludeIsTold ==
    ASSUME WireInv, WireTold, Conclude
    PROVE  StepTold /\ UNCHANGED <<call, memory>> /\ outcome'.kind \notin {"refused", "raised"}
<1>1. /\ phase = "answered" /\ BytesNeeded(acc) = 0 /\ End(Conclusion)
      /\ UNCHANGED <<plant, memory, call>>
  BY DEF Conclude
<1>2. /\ Conclusion.kind \notin {"refused", "raised"}
      /\ Conclusion.kind = "decode" => Misread(Conclusion.why)
  BY <1>1, ConclusionIsTold
<1> HIDE DEF Conclusion
<1> QED
  BY <1>1, <1>2, EndIsTold

\* Every step of Wire.
LEMMA WireNextIsTold ==
    ASSUME WireInv, WireTold, SentAsMeant, WireNext
    PROVE  StepTold
<1>1. ASSUME NEW e, NEW cmd, Ask(e, cmd) PROVE StepTold
  BY <1>1, AskIsTold
<1>2. CASE Travel
  BY <1>2, TravelIsTold
<1>3. CASE Conclude
  BY <1>3, ConcludeIsTold
<1>4. CASE Finished
  BY <1>4, QuietIsTold DEF Finished, vars
<1> QED
  BY <1>1, <1>2, <1>3, <1>4 DEF WireNext

-----------------------------------------------------------------------------
(***************************************************************************)
(* Among blocks and verbs.                                                 *)
(***************************************************************************)

\* Of a step beside the verbs.
BlockTold == StepTold /\ ReadsOnly'

\* A step of Wire beside the blocks.
LEMMA AsideIsTold ==
    ASSUME WireInv, WireTold, ReadsOnly, SentAsMeant, AsideFromBlocks
    PROVE  BlockTold
<1>1. plan' = IF calls' # calls \/ (Reading /\ phase' = "idle") THEN NoPlan ELSE plan
  BY DEF AsideFromBlocks
<1>2. CASE Reading
  <2>1. Travel
    BY <1>2 DEF AsideFromBlocks
  <2>2. StepTold /\ UNCHANGED call /\ phase # "idle"
    BY <2>1, TravelIsTold, TravelIsWell DEF SentAsMeant
  <2>3. ~Mutates(call.cmd)
    BY <1>2, <2>2 DEF ReadsOnly
  <2> QED
    BY <2>2, <2>3 DEF BlockTold, ReadsOnly
<1>3. CASE ~Reading
  <2>1. StepTold
    BY <1>3, WireNextIsTold DEF AsideFromBlocks
  <2>2. ~Reading'
    BY <1>1, <1>3 DEF Reading, NoPlan
  <2> QED
    BY <2>1, <2>2 DEF BlockTold, ReadsOnly
<1> QED
  BY <1>2, <1>3

\* A block is bound.
LEMMA BindIsTold ==
    ASSUME WireTold, NEW e, NEW b, Bind(e, b)
    PROVE  BlockTold
<1>1. /\ phase = "idle"
      /\ \/ \E fault : RefuseToSend(e, NoCommand, fault)
         \/ /\ outcome' = NoOutcome
            /\ UNCHANGED <<plant, memory, call, phase, wire>>
  BY DEF Bind
<1>2. NoOutcome.kind = "none"
  BY DEF NoOutcome, Outcome
<1>3. StepTold /\ phase' = "idle"
  BY <1>1, <1>2, RefusedIsTold, QuietIsTold
<1> QED
  BY <1>3 DEF BlockTold, ReadsOnly

\* A part of a block is asked for, and only read.
LEMMA RequestPartIsTold ==
    ASSUME PlanWell, RequestPart
    PROVE  BlockTold
<1> DEFINE cmd == ReaderCommand(TheReader)
<1>1. /\ \E serial : Begin(plan.entry, cmd, serial) /\ phase' = "asked"
      /\ outcome' = outcome /\ outcome.kind = "none"
  BY DEF RequestPart, PlanWell
<1>2. ~Mutates(cmd)
  BY ReadingMutatesNothing DEF ReaderCommand
<1> HIDE DEF cmd
<1>3. StepTold /\ call'.cmd = cmd
  BY <1>1, BegunIsTold
<1> QED
  BY <1>2, <1>3 DEF BlockTold, ReadsOnly

\* A part of a block is decoded.
LEMMA DecodePartIsTold ==
    ASSUME WireTold, ReadsOnly, DecodePart
    PROVE  BlockTold
<1>1. phase = "answered" /\ Reading /\ UNCHANGED <<plant, memory, call>> /\ ~Mutates(call.cmd)
  BY DEF DecodePart, ReadsOnly
<1>2. \E o : /\ End(o) /\ o.kind \notin {"refused", "raised"}
             /\ o.kind = "decode" => o.why \in {"format", "shape", "implausible"}
  <2> DEFINE misfit == FillFault(TheReader, Taken(acc).payload, acc.codec)
  <2>1. \/ End(Outcome("protocol", TakeFault(acc), <<>>))
        \/ End(Outcome("end_code", "none", <<Taken(acc).end_code>>))
        \/ misfit # "none" /\ End(Outcome("decode", misfit, <<>>))
        \/ \E into : End(Outcome("block", "none", into))
        \/ End(NoOutcome)
    BY DEF DecodePart, GivenUp, Fill
  <2>2. misfit \in {"none", "format", "shape", "implausible"}
    BY FillFaults
  <2> HIDE DEF misfit
  <2>3. \A kind, why, values : Outcome(kind, why, values).kind = kind /\ Outcome(kind, why, values).why = why
    BY DEF Outcome
  <2>4. NoOutcome.kind = "none"
    BY <2>3 DEF NoOutcome
  <2>5. CASE End(Outcome("protocol", TakeFault(acc), <<>>))
    BY <2>3, <2>5
  <2>6. CASE End(Outcome("end_code", "none", <<Taken(acc).end_code>>))
    BY <2>3, <2>6
  <2>7. CASE misfit # "none" /\ End(Outcome("decode", misfit, <<>>))
    BY <2>2, <2>3, <2>7
  <2>8. CASE \E into : End(Outcome("block", "none", into))
    BY <2>3, <2>8
  <2>9. CASE End(NoOutcome)
    BY <2>4, <2>9
  <2> QED
    BY <2>1, <2>5, <2>6, <2>7, <2>8, <2>9
<1>3. StepTold /\ phase' = "idle"
  BY <1>1, <1>2, EndIsTold DEF Misread
<1> QED
  BY <1>3 DEF BlockTold, ReadsOnly

\* Fields of a block are written.
LEMMA WriteFieldsIsTold ==
    ASSUME NEW e, NEW w, WriteFields(e, w)
    PROVE  BlockTold
<1>1. /\ plan'.doing = "write"
      /\ \E cmd, fault : RefuseToSend(e, cmd, fault) \/ Ask(e, cmd)
  BY DEF WriteFields
<1>2. StepTold
  BY <1>1, RefusedIsTold, AskIsTold
<1> QED
  BY <1>1, <1>2 DEF BlockTold, ReadsOnly, Reading

\* Every step of BlockPlan.
LEMMA BlockNextIsTold ==
    ASSUME WireInv, PlanWell, WireTold, ReadsOnly, SentAsMeant, BlockNext
    PROVE  BlockTold
BY AsideIsTold, BindIsTold, WriteFieldsIsTold, RequestPartIsTold, DecodePartIsTold DEF BlockNext

-----------------------------------------------------------------------------
\* Where a verb stands.
TaskCtx == ThePlant.entries[task.entry].ctx
AsItFoundIt == memory = task.before

\* Until it has sent something that may change the memory, a verb leaves it as it found it:
\* one that only looks for good, and one that is refused.
NothingYet ==
    \/ task.verb.verb \notin Changers
    \/ Is("next") /\ task.got = <<>>
    \/ outcome.kind = "refused"

\* The answers are a sequence, and all that comes after the first of a verb that changes
\* something is to look; what it looks with is not refused, as its first request was not.
AskedTold ==
    /\ Is("waiting") =>
          call # NoCall /\ (OnlyLooks(task.verb, task.got) => ~Mutates(call.cmd))
    /\ Is("next") /\ task.got # <<>> =>
          /\ call # NoCall
          /\ \E old, x : task.got = Append(old, x) /\ (OnlyLooks(task.verb, old) => ~Mutates(call.cmd))
Admitted ==
    LooksAfterwards(task.verb) /\ (task.got # <<>> \/ (Is("waiting") /\ outcome.kind # "refused")) =>
        Refused(FirstCommand(task.verb), TaskCtx) = "none"
VerbTold ==
    ~Is("none") =>
        /\ \E S : task.got \in Seq(S)
        /\ NothingYet => AsItFoundIt
        /\ AskedTold /\ Admitted

\* What a verb raises.
RaisedTold ==
    outcome.kind = "raised" =>
        /\ Is("over") /\ call # NoCall /\ ~Mutates(call.cmd)
        /\ outcome.why \in {"configuration", "implausible", "shape", "verification", "not_reached"}
        /\ outcome.why = "configuration" => AsItFoundIt

\* The invariant of what is told.
ToldInv == WireTold /\ ReadsOnly /\ VerbTold /\ RaisedTold

\* A verb at hand is no block.
LEMMA VerbReadsOnly ==
    ASSUME ~Reading, UNCHANGED plan
    PROVE  ReadsOnly'
BY DEF ReadsOnly, Reading

\* A verb is entered ...
LEMMA EnterIsTold ==
    ASSUME ToldInv, Is("none"), NEW e, NEW v, Enter(e, v)
    PROVE  ToldInv'
<1>1. /\ ~Reading /\ UNCHANGED plan
      /\ \E at \in {"next", "over"} :
            /\ task' = [at |-> at, entry |-> e, verb |-> v, got |-> <<>>, before |-> memory]
            /\ at = "next" => UNCHANGED vars
            /\ at = "over" => \E fault : RefuseToSend(e, NoCommand, fault)
  BY DEF Enter
<1>2. PICK at \in {"next", "over"} :
          /\ task' = [at |-> at, entry |-> e, verb |-> v, got |-> <<>>, before |-> memory]
          /\ at = "next" => UNCHANGED vars
          /\ at = "over" => \E fault : RefuseToSend(e, NoCommand, fault)
  BY <1>1
<1>3. outcome.kind # "raised"
  BY DEF ToldInv, RaisedTold, Is
<1>4. StepTold /\ memory' = memory
  BY <1>2, QuietIsTold, RefusedIsTold DEF vars, ToldInv
<1>5. ReadsOnly'
  BY <1>1, VerbReadsOnly
<1>6. /\ task'.at \in {"next", "over"} /\ task'.got = <<>> /\ task'.before = memory'
      /\ task'.got \in Seq({})
  BY <1>2, <1>4
<1>7. VerbTold'
  BY <1>6 DEF VerbTold, NothingYet, AsItFoundIt, AskedTold, Admitted, Is
<1>8. RaisedTold'
  BY <1>3, <1>4 DEF StepTold, RaisedTold
<1> QED
  BY <1>4, <1>5, <1>7, <1>8 DEF ToldInv, StepTold

\* The parts of a task, and what stays of it.
LEMMA TaskParts ==
    ASSUME TaskWell, ~Is("none")
    PROVE  /\ \A at : LET t == [task EXCEPT !.at = at] IN
                  /\ t.at = at /\ t.entry = task.entry /\ t.verb = task.verb /\ t.got = task.got
                  /\ t.before = task.before
           /\ \A at, got : LET t == [task EXCEPT !.at = at, !.got = got] IN
                  /\ t.at = at /\ t.entry = task.entry /\ t.verb = task.verb /\ t.got = got
                  /\ t.before = task.before
<1>1. task \in [at : {"next", "waiting", "over"}, entry : DOMAIN ThePlant.entries,
                verb : {task.verb}, got : {task.got}, before : {task.before}]
  BY DEF TaskWell
<1> QED
  BY <1>1

\* A verb asks ...
LEMMA RequestIsTold ==
    ASSUME CallsInv, ToldInv, Is("next"), UNCHANGED plan, NEW step, step.do = "ask",
           AsksWell(task.verb, TaskCtx, task.got, step.cmd), Request(step)
    PROVE  ToldInv'
<1>1. /\ Ask(task.entry, step.cmd) /\ task' = [task EXCEPT !.at = "waiting"]
      /\ ~Is("none") /\ TaskWell /\ ~Reading
  BY DEF Request, Is, CallsInv, TaskWell
<1>2. /\ StepTold /\ memory' = memory /\ call' # NoCall /\ call'.cmd = step.cmd
      /\ IF Refused(step.cmd, TaskCtx) = "none" THEN outcome'.kind = "none"
         ELSE outcome'.kind = "refused"
  BY <1>1, AskIsTold DEF TaskCtx
<1>3. /\ task'.at = "waiting" /\ task'.entry = task.entry /\ task'.verb = task.verb
      /\ task'.got = task.got /\ task'.before = task.before
  BY <1>1, TaskParts
<1>4. UNCHANGED plant
  BY <1>1 DEF Ask, RefuseToSend, Send, Begin
<1>5. TaskCtx' = TaskCtx
  BY <1>3, <1>4, SamePlant DEF TaskCtx
<1>6. ReadsOnly'
  BY <1>1, VerbReadsOnly
<1>7. VerbTold
  BY DEF ToldInv
<1>8. Admitted'
  <2>1. ASSUME LooksAfterwards(task.verb), task.got = <<>>, outcome'.kind # "refused"
        PROVE  Refused(FirstCommand(task.verb), TaskCtx) = "none"
    BY <1>2, <2>1 DEF AsksWell
  <2>2. ASSUME LooksAfterwards(task.verb), task.got # <<>>
        PROVE  Refused(FirstCommand(task.verb), TaskCtx) = "none"
    BY <1>1, <1>7, <2>2 DEF VerbTold, Admitted
  <2> QED
    BY <1>3, <1>5, <2>1, <2>2 DEF Admitted
<1>9. AskedTold'
  BY <1>2, <1>3 DEF AskedTold, AsksWell, Is
<1>10. NothingYet' => AsItFoundIt'
  <2>1. ASSUME task.verb.verb \in Changers, task.got # <<>> PROVE outcome'.kind # "refused"
    <3>1. LooksAfterwards(task.verb) /\ LooksBack(TaskCtx, FirstCommand(task.verb), step.cmd)
      BY <2>1 DEF AsksWell
    <3>2. Refused(FirstCommand(task.verb), TaskCtx) = "none"
      BY <1>1, <1>7, <2>1, <3>1 DEF VerbTold, Admitted
    <3> QED
      BY <1>2, <3>1, <3>2 DEF LooksBack
  <2>2. task.verb.verb \notin Changers \/ task.got = <<>> => AsItFoundIt
    BY <1>1, <1>7 DEF VerbTold, NothingYet
  <2> QED
    BY <1>2, <1>3, <2>1, <2>2 DEF NothingYet, AsItFoundIt, Is
<1>11. VerbTold'
  BY <1>1, <1>3, <1>7, <1>8, <1>9, <1>10 DEF VerbTold
<1>12. RaisedTold'
  BY <1>2 DEF RaisedTold
<1> QED
  BY <1>2, <1>6, <1>11, <1>12 DEF ToldInv, StepTold

\* ... and tells ...
LEMMA TellIsTold ==
    ASSUME CallsInv, ToldInv, Is("next"), UNCHANGED plan, NEW step,
           step.do \notin {"ask", "return"} => RaisesWell(task.verb, task.got, step.why), Tell(step)
    PROVE  ToldInv'
<1> DEFINE o == IF step.do = "return" THEN Outcome("value", "none", step.value)
                ELSE Outcome("raised", step.why, <<>>)
<1>1. /\ step.do # "ask" /\ End(o) /\ task' = [task EXCEPT !.at = "over"]
      /\ UNCHANGED <<plant, memory, call>>
      /\ ~Is("none") /\ TaskWell /\ ~Reading /\ phase = "idle"
  BY DEF Tell, Is, CallsInv, TaskWell
<1>2. /\ o.kind \in {"value", "raised"}
      /\ o.kind = "raised" => step.do # "return" /\ o.why = step.why
  BY DEF Outcome
<1> HIDE DEF o
<1>3. /\ task'.at = "over" /\ task'.entry = task.entry /\ task'.verb = task.verb
      /\ task'.got = task.got /\ task'.before = task.before
  BY <1>1, TaskParts
<1>4. phase' = "idle" /\ outcome' = o
  BY <1>1 DEF End
<1>5. VerbTold /\ WireTold
  BY DEF ToldInv
<1>6. ASSUME o.kind = "raised"
      PROVE  /\ call # NoCall /\ ~Mutates(call.cmd)
             /\ step.why \in {"configuration", "implausible", "shape", "verification", "not_reached"}
             /\ step.why = "configuration" => AsItFoundIt
  <2>1. RaisesWell(task.verb, task.got, step.why)
    BY <1>1, <1>2, <1>6
  <2>2. call # NoCall /\ \E old, x : task.got = Append(old, x) /\ (OnlyLooks(task.verb, old) => ~Mutates(call.cmd))
    BY <1>1, <1>5, <2>1 DEF VerbTold, AskedTold, RaisesWell
  <2>3. ~Mutates(call.cmd)
    BY <2>1, <2>2 DEF RaisesWell
  <2>4. step.why = "configuration" => AsItFoundIt
    BY <1>1, <1>5, <2>1 DEF VerbTold, NothingYet, RaisesWell
  <2> QED
    BY <2>1, <2>2, <2>3, <2>4 DEF RaisesWell
<1>7. Called' /\ LeftAlone' /\ AnswerIsLegible' /\ DecodeTold'
  <2>1. Called'
    BY <1>1, <1>2, <1>4, <1>6 DEF Called, Failures
  <2>2. LeftAlone'
    BY <1>1, <1>2, <1>4, <1>5 DEF WireTold, LeftAlone
  <2> QED
    BY <1>2, <1>4, <2>1, <2>2 DEF AnswerIsLegible, DecodeTold
<1>8. ReadsOnly'
  BY <1>1, VerbReadsOnly
<1>9. RaisedTold'
  BY <1>1, <1>2, <1>3, <1>4, <1>6 DEF RaisedTold, AsItFoundIt, Is
<1>10. VerbTold'
  <2>1. task.verb.verb \notin Changers => AsItFoundIt
    BY <1>1, <1>5 DEF VerbTold, NothingYet
  <2>2. NothingYet' => AsItFoundIt'
    BY <1>1, <1>2, <1>3, <1>4, <2>1 DEF NothingYet, AsItFoundIt, Is
  <2>3. TaskCtx' = TaskCtx
    BY <1>1, <1>3, SamePlant DEF TaskCtx
  <2>4. Admitted' /\ AskedTold'
    BY <1>1, <1>3, <1>5, <2>3 DEF VerbTold, Admitted, AskedTold, Is
  <2> QED
    BY <1>1, <1>3, <1>5, <2>2, <2>4 DEF VerbTold
<1> QED
  BY <1>7, <1>8, <1>9, <1>10 DEF ToldInv, WireTold

LEMMA DecideIsTold ==
    ASSUME WrittenMayBeRead, CallsInv, ToldInv, Decide
    PROVE  ToldInv'
<1>1. Is("next") /\ UNCHANGED plan /\ ~Is("none") /\ \E step \in Steps : Request(step) \/ Tell(step)
  BY DEF Decide, Is
<1>2. PICK step \in Steps : Request(step) \/ Tell(step)
  BY <1>1
<1>3. /\ plant \in DOMAIN Plants /\ task.entry \in DOMAIN ThePlant.entries
      /\ task.verb \in VerbsOf(ThePlant.entries[task.entry])
  BY <1>1 DEF CallsInv, WireInv, WireTypeOK, TaskWell
<1>4. ThePlant \in Range(Plants) /\ ThePlant.entries[task.entry] \in Range(ThePlant.entries)
  BY <1>3 DEF ThePlant, Range
<1>5. step \in NextSteps(task.verb, ThePlant.entries[task.entry].ctx, task.got)
  BY DEF Steps
<1>6. /\ step.do = "ask" => AsksWell(task.verb, TaskCtx, task.got, step.cmd)
      /\ step.do \notin {"ask", "return"} => RaisesWell(task.verb, task.got, step.why)
  BY <1>3, <1>4, <1>5, VerbsDo DEF TaskCtx
<1>7. Request(step) => step.do = "ask"
  BY DEF Request
<1> QED
  BY <1>1, <1>2, <1>6, <1>7, RequestIsTold, TellIsTold

\* ... waits for its request ...
LEMMA AwaitIsTold ==
    ASSUME CallsInv, ToldInv, SentAsMeant, Await
    PROVE  ToldInv'
<1>1. /\ Is("waiting") /\ UNCHANGED <<task, plan>> /\ (Travel \/ Conclude)
      /\ ~Is("none") /\ ~Is("over") /\ ~Reading /\ WireInv /\ WireTold /\ VerbTold
  BY DEF Await, Is, CallsInv, TaskWell, ToldInv
<1>2. /\ StepTold /\ UNCHANGED call /\ outcome'.kind \notin {"refused", "raised"}
      /\ UNCHANGED plant /\ phase # "idle"
  BY <1>1, TravelIsTold, ConcludeIsTold, TravelIsWell, ConcludeIsWell DEF SentAsMeant
<1>3. ~Mutates(call.cmd) => memory' = memory
  BY <1>1, LookingChangesNothing, ConcludeIsTold
<1>4. outcome.kind = "none"
  BY <1>1, <1>2 DEF WireInv, OutcomeWell
<1>5. ReadsOnly'
  BY <1>1, VerbReadsOnly
<1>6. NothingYet' => AsItFoundIt'
  <2>1. NothingYet' => task.verb.verb \notin Changers
    BY <1>1, <1>2 DEF NothingYet, Is
  <2>2. task.verb.verb \notin Changers => AsItFoundIt /\ ~Mutates(call.cmd)
    BY <1>1 DEF VerbTold, NothingYet, AskedTold, OnlyLooks
  <2> QED
    BY <1>1, <1>3, <2>1, <2>2 DEF AsItFoundIt
<1>7. TaskCtx' = TaskCtx
  BY <1>1, <1>2, SamePlant DEF TaskCtx
<1>8. AskedTold' /\ Admitted'
  BY <1>1, <1>2, <1>4, <1>7 DEF VerbTold, AskedTold, Admitted, Is
<1>9. VerbTold'
  BY <1>1, <1>6, <1>8 DEF VerbTold
<1>10. RaisedTold'
  BY <1>2 DEF RaisedTold
<1> QED
  BY <1>2, <1>5, <1>9, <1>10 DEF ToldInv, StepTold

\* ... and uses its answer.
LEMMA ProceedIsTold ==
    ASSUME CallsInv, ToldInv, Proceed
    PROVE  ToldInv'
<1>1. /\ Is("waiting") /\ UNCHANGED vars /\ UNCHANGED plan
      /\ task' = IF outcome.kind \in {"returned", "silent"}
                 THEN [task EXCEPT !.at = "next", !.got = Append(@, outcome.values)]
                 ELSE [task EXCEPT !.at = "over"]
      /\ ~Is("none") /\ ~Is("over") /\ ~Reading /\ TaskWell /\ WireTold /\ VerbTold
  BY DEF Proceed, planVars, Is, CallsInv, TaskWell, ToldInv
<1>2. UNCHANGED <<plant, memory, call, phase, wire, outcome>>
  BY <1>1 DEF vars
<1>3. StepTold /\ ReadsOnly'
  BY <1>1, <1>2, QuietIsTold, VerbReadsOnly
<1>4. outcome.kind # "raised"
  BY <1>1 DEF ToldInv, RaisedTold
<1>5. RaisedTold'
  BY <1>2, <1>4 DEF RaisedTold
<1>6. CASE outcome.kind \in {"returned", "silent"}
  <2> DEFINE got == Append(task.got, outcome.values)
  <2>1. /\ task'.at = "next" /\ task'.entry = task.entry /\ task'.verb = task.verb
        /\ task'.got = got /\ task'.before = task.before
    BY <1>1, <1>6, TaskParts
  <2>2. got # <<>> /\ \E S : got \in Seq(S)
    <3>1. PICK S : task.got \in Seq(S)
      BY <1>1 DEF VerbTold
    <3>2. task.got \in Seq(S \cup {outcome.values}) /\ outcome.values \in S \cup {outcome.values}
      BY <3>1
    <3>3. got \in Seq(S \cup {outcome.values}) /\ got # <<>>
      BY <3>2, AppendProperties
    <3> QED
      BY <3>3
  <2>3. TaskCtx' = TaskCtx
    BY <1>2, <2>1, SamePlant DEF TaskCtx
  <2>4. call # NoCall /\ (OnlyLooks(task.verb, task.got) => ~Mutates(call.cmd))
    BY <1>1 DEF VerbTold, AskedTold
  <2> HIDE DEF got
  <2>5. AskedTold'
    BY <1>2, <2>1, <2>4 DEF AskedTold, Is, got
  <2>6. Admitted'
    BY <1>1, <1>2, <1>6, <2>1, <2>3 DEF VerbTold, Admitted
  <2>7. NothingYet' => AsItFoundIt'
    BY <1>1, <1>2, <1>6, <2>1, <2>2 DEF VerbTold, NothingYet, AsItFoundIt
  <2>8. VerbTold'
    BY <2>1, <2>2, <2>5, <2>6, <2>7 DEF VerbTold
  <2> QED
    BY <1>3, <1>5, <2>8 DEF ToldInv, StepTold
<1>7. CASE outcome.kind \notin {"returned", "silent"}
  <2>1. /\ task'.at = "over" /\ task'.entry = task.entry /\ task'.verb = task.verb
        /\ task'.got = task.got /\ task'.before = task.before
    BY <1>1, <1>7, TaskParts
  <2>2. TaskCtx' = TaskCtx
    BY <1>2, <2>1, SamePlant DEF TaskCtx
  <2>3. AskedTold' /\ Admitted'
    BY <1>1, <1>2, <2>1, <2>2 DEF VerbTold, AskedTold, Admitted, Is
  <2>4. NothingYet' => AsItFoundIt'
    BY <1>1, <1>2, <2>1 DEF VerbTold, NothingYet, AsItFoundIt, Is
  <2>5. VerbTold'
    BY <1>1, <2>1, <2>3, <2>4 DEF VerbTold
  <2> QED
    BY <1>3, <1>5, <2>5 DEF ToldInv, StepTold
<1> QED
  BY <1>6, <1>7

\* Every step of Calls.
LEMMA CallsNextIsTold ==
    ASSUME WrittenMayBeRead, CallsInv, ToldInv, SentAsMeant, [CallsNext]_callVars
    PROVE  ToldInv'
<1>1. CASE Is("none") /\ BlockNext /\ UNCHANGED task
  <2>1. BlockTold
    BY <1>1, BlockNextIsTold DEF CallsInv, ToldInv
  <2>2. outcome.kind # "raised"
    BY <1>1 DEF ToldInv, RaisedTold, Is
  <2>3. VerbTold' /\ RaisedTold'
    BY <1>1, <2>1, <2>2 DEF VerbTold, RaisedTold, Is, BlockTold, StepTold
  <2> QED
    BY <2>1, <2>3 DEF ToldInv, BlockTold, StepTold
<1>2. ASSUME Is("none"), NEW e, NEW v, Enter(e, v) PROVE ToldInv'
  BY <1>2, EnterIsTold
<1>3. CASE Decide
  BY <1>3, DecideIsTold
<1>4. CASE Await
  BY <1>4, AwaitIsTold
<1>5. CASE Proceed
  BY <1>5, ProceedIsTold
<1>6. CASE UNCHANGED callVars
  <2>1. UNCHANGED <<plant, memory, call, phase, wire, outcome, plan, task>>
    BY <1>6 DEF callVars, planVars, vars
  <2>2. StepTold
    BY <2>1, QuietIsTold DEF ToldInv
  <2>3. TaskCtx' = TaskCtx
    BY <2>1, SamePlant DEF TaskCtx
  <2>4. ReadsOnly' /\ VerbTold' /\ RaisedTold'
    BY <2>1, <2>3 DEF ToldInv, ReadsOnly, Reading, VerbTold, NothingYet, AsItFoundIt, AskedTold, Admitted,
                      RaisedTold, Is
  <2> QED
    BY <2>2, <2>4 DEF ToldInv, StepTold
<1> QED
  BY <1>1, <1>2, <1>3, <1>4, <1>5, <1>6 DEF CallsNext

\* At first there is no call and no verb.
LEMMA CallsBeginAllTold ==
    ASSUME CallsInit PROVE ToldInv
<1>1. phase = "idle" /\ call = NoCall /\ outcome = NoOutcome /\ task = NoTask
  BY DEF CallsInit, BlockInit, WireInit
<1>2. outcome.kind = "none" /\ Is("none")
  BY <1>1 DEF NoOutcome, Outcome, NoTask, Is
<1> QED
  BY <1>1, <1>2 DEF ToldInv, WireTold, Called, Failures, LeftAlone, AnswerIsLegible, DecodeTold,
                    ReadsOnly, VerbTold, RaisedTold

LEMMA CallsStayTold ==
    ASSUME WrittenMayBeRead
    PROVE  CallsSpec /\ []SentAsMeant => [](CallsInv /\ ToldInv)
<1>1. CallsInit => CallsInv /\ ToldInv
  BY CallsBeginWell, CallsBeginAllTold
<1>2. SentAsMeant => MessagesFit
  BY DEF SentAsMeant
<1>3. SentAsMeant' => MessagesFit'
  BY DEF SentAsMeant
<1>4. CallsInv /\ ToldInv /\ SentAsMeant /\ SentAsMeant' /\ [CallsNext]_callVars => CallsInv' /\ ToldInv'
  BY <1>2, <1>3, CallsNextIsWell, CallsNextIsTold DEF CallWell
<1> QED
  BY <1>1, <1>4, PTL DEF CallsSpec

-----------------------------------------------------------------------------
\* The class of what is told, by how the call ended.
LEMMA TellsOfARefusal ==
    ASSUME ToldInv, outcome.kind = "refused"
    PROVE  Raised = UsageClass(outcome.why) /\ memory = AtFirst
<1>1. call # NoCall /\ memory = call.before
  BY DEF ToldInv, WireTold, Called, Failures, LeftAlone
<1>2. ~Is("none") => memory = task.before
  BY DEF ToldInv, VerbTold, NothingYet, AsItFoundIt
<1> QED
  BY <1>1, <1>2 DEF Raised, AtFirst

\* An exchange that fails after a command that mutates has an unknown outcome, and after
\* another one it may be tried again.
LEMMA TellsOfAFailure ==
    ASSUME ToldInv, outcome.kind \in {"timeout", "protocol"}, NEW class,
           \/ OfLine(class, "SlmpTransportError")
           \/ OfLine(class, "SlmpProtocolError")
    PROVE  /\ IsA(AfterSending(class), "SlmpError") /\ ~IsA(AfterSending(class), "SlmpUsageError")
           /\ IsA(AfterSending(class), "SlmpTransportError") \/ IsA(AfterSending(class), "SlmpProtocolError")
                  => memory = call.before
<1>1. IsA(class, "SlmpError") /\ ~IsA(class, "SlmpUsageError")
  BY OfOneLine DEF Lines
<1>2. AfterSending(class) = IF Mutates(call.cmd) THEN "SlmpOutcomeUnknownError" ELSE class
  BY <1>1 DEF AfterSending, FailedExchange
<1>3. ~Mutates(call.cmd) => memory = call.before
  BY DEF ToldInv, WireTold, Called, Failures, LeftAlone
<1>4. OfLine("SlmpOutcomeUnknownError", "SlmpOutcomeUnknownError")
  BY TreeAssumption
<1> QED
  BY <1>1, <1>2, <1>3, <1>4, OfOneLine DEF Lines

\* What comes after the answer.
LEMMA TellsOfAMeaning ==
    ASSUME ToldInv, ~ThePlant.stale, outcome.kind \in {"decode", "raised"}
    PROVE  /\ Raised = MeaningClass(outcome.why) /\ memory = call.before
           /\ outcome.why \in {"format", "shape", "implausible", "verification", "not_reached", "configuration"}
           /\ outcome.why = "configuration" => memory = AtFirst
<1>1. Raised = MeaningClass(outcome.why)
  BY DEF Raised
<1>2. call # NoCall /\ ~Mutates(call.cmd)
  BY DEF ToldInv, WireTold, Called, Failures, DecodeTold, Misread, RaisedTold
<1>3. memory = call.before
  BY <1>2 DEF ToldInv, WireTold, LeftAlone
<1>4. CASE outcome.kind = "decode"
  BY <1>1, <1>3, <1>4 DEF ToldInv, WireTold, DecodeTold, Misread
<1>5. CASE outcome.kind = "raised"
  <2>1. /\ Is("over")
        /\ outcome.why \in {"configuration", "implausible", "shape", "verification", "not_reached"}
        /\ outcome.why = "configuration" => memory = task.before
    BY <1>5 DEF ToldInv, RaisedTold, AsItFoundIt
  <2> QED
    BY <1>1, <1>3, <2>1 DEF AtFirst, Is
<1> QED
  BY <1>4, <1>5

\* What a caller may do next hangs on the class of the exception, and the class is right:
\* after a usage error its call has changed nothing, after a transport or a protocol error
\* its last request has not, so that a command that may have been carried out never ends in
\* either, and a refusal by the CPU is told by its cause; of every command, block and verb,
\* over any entry of any CPU that answers in order (Txn._fail, errors/__init__.py).
THEOREM ErrorTells ==
    ASSUME CodesTellTheCause, WrittenMayBeRead
    PROVE  CallsSpec /\ []SentAsMeant => [](~ThePlant.stale => ErrorTellsWhatHappened)
<1>1. ASSUME CallsInv, ToldInv, ~ThePlant.stale, Failed
      PROVE  /\ IsA(Raised, "SlmpUsageError") => memory = AtFirst
             /\ IsA(Raised, "SlmpTransportError") \/ IsA(Raised, "SlmpProtocolError") => memory = call.before
             /\ IsA(Raised, "SlmpError") \/ outcome.why \in {"codec", "route"}
             /\ outcome.kind = "end_code" =>
                   \A cause \in Causes :
                       Target.end_codes[cause[1]] = outcome.values[1] => IsA(Raised, cause[2])
  <2>1. CASE outcome.kind = "refused"
    <3>1. Raised = UsageClass(outcome.why) /\ memory = AtFirst
      BY <1>1, <2>1, TellsOfARefusal
    <3>2. CASE OfLine(Raised, "SlmpUsageError")
      BY <2>1, <3>1, <3>2, OfOneLine DEF Lines
    <3>3. CASE outcome.why = "codec"
      <4>1. Raised \in DOMAIN Untranslated
        BY <3>1, <3>3 DEF UsageClass, Untranslated, Deriving
      <4> QED
        BY <2>1, <3>3, <4>1, OfNoLine DEF Lines
    <3> QED
      BY <3>1, <3>2, <3>3, RefusalsAreUsage
  <2>2. CASE outcome.kind = "timeout"
    <3>1. Raised = AfterSending("SlmpTimeoutError")
      BY <2>2 DEF Raised
    <3>2. OfLine("SlmpTimeoutError", "SlmpTransportError")
      BY TreeAssumption
    <3> QED
      BY <1>1, <2>2, <3>1, <3>2, TellsOfAFailure
  <2>3. CASE outcome.kind = "protocol"
    <3>1. Raised = AfterSending(ProtocolClass(outcome.why))
      BY <2>3 DEF Raised
    <3>2. CASE OfLine(ProtocolClass(outcome.why), "SlmpProtocolError")
      BY <1>1, <2>3, <3>1, <3>2, TellsOfAFailure
    <3>3. CASE /\ outcome.why = "route"
               /\ \A line \in {"SlmpError"} \cup Lines : ~IsA(ProtocolClass(outcome.why), line)
      <4>1. Raised = ProtocolClass(outcome.why)
        BY <3>1, <3>3 DEF AfterSending
      <4> QED
        BY <2>3, <3>3, <4>1 DEF Lines
    <3> QED
      BY <3>2, <3>3, FaultsAreProtocol
  <2>4. CASE outcome.kind = "end_code"
    <3>1. Raised = EndCodeClass(outcome.values[1])
      BY <2>4 DEF Raised
    <3>2. OfLine(Raised, "SlmpEndCodeError")
      BY <3>1, EndCodesAreEndCodes
    <3>3. ThePlant \in Range(Plants)
      BY <1>1 DEF CallsInv, WireInv, WireTypeOK, ThePlant, Range
    <3>4. \A cause \in Causes :
              Target.end_codes[cause[1]] = outcome.values[1] => IsA(Raised, cause[2])
      BY <3>1, <3>3 DEF CodesTellTheCause, Target
    <3> QED
      BY <3>2, <3>4, OfOneLine DEF Lines
  <2>5. CASE outcome.kind \in {"decode", "raised"}
    <3>1. /\ Raised = MeaningClass(outcome.why) /\ memory = call.before
          /\ outcome.why \in {"format", "shape", "implausible", "verification", "not_reached", "configuration"}
          /\ outcome.why = "configuration" => memory = AtFirst
      BY <1>1, <2>5, TellsOfAMeaning
    <3>2. IsA(Raised, "SlmpError") /\ (IsA(Raised, "SlmpUsageError") => outcome.why = "configuration")
      BY <3>1, MeaningsAreLines, OfOneLine DEF Lines
    <3> QED
      BY <2>5, <3>1, <3>2
  <2> QED
    BY <1>1, <2>1, <2>2, <2>3, <2>4, <2>5 DEF Failed
<1>2. CallsInv /\ ToldInv => (~ThePlant.stale => ErrorTellsWhatHappened)
  BY <1>1 DEF ErrorTellsWhatHappened
<1> QED
  BY <1>2, CallsStayTold, PTL

-----------------------------------------------------------------------------
(***************************************************************************)
(* What a verb of one value returns: the memory, and a value in it.        *)
(***************************************************************************)

\* A memory after something was put into it.
LEMMA StoreHolds ==
    ASSUME NEW m, NEW put, NEW cell
    PROVE  Held(Store(m, put), cell) = IF cell \in DOMAIN put THEN put[cell] ELSE Held(m, cell)
BY DEF Held, Store

\* The cells of so many numbers of a family from one on.
CellsFrom(at, n) == {Cell(at.type, at.index + k - 1) : k \in 1 .. n}

\* Nothing but the cells that were written has changed.
LEMMA CellsBeside ==
    ASSUME NEW m, NEW at, NEW values, NEW n, DOMAIN values = 1 .. n,
           NEW cell, cell \notin CellsFrom(at, n)
    PROVE  Held(WriteCells(m, at.type, at.index, values), cell) = Held(m, cell)
<1> DEFINE cells == {Cell(at.type, at.index + i - 1) : i \in DOMAIN values}
           put == [c \in cells |-> values[c[2] - at.index + 1]]
<1>1. cells = CellsFrom(at, n)
  BY DEF CellsFrom
<1>2. WriteCells(m, at.type, at.index, values) = Store(m, put)
  BY DEF WriteCells
<1>3. DOMAIN put = cells
  OBVIOUS
<1> HIDE DEF put, cells
<1> QED
  BY <1>1, <1>2, <1>3, StoreHolds

\* After a request SD203 is what the CPU does.
LEMMA StatusIsShown ==
    ASSUME NEW m, NEW st
    PROVE  WordsFrom(PublishState(m, st), Address(Device_SD, CPU_STATUS_INDEX), 1) = <<EffectiveState(st)>>
<1> DEFINE values == <<EffectiveState(st)>>
           index == CPU_STATUS_INDEX
           cell == Cell(Device_SD, index)
           cells == {Cell(Device_SD, index + i - 1) : i \in DOMAIN values}
           put == [c \in cells |-> values[c[2] - index + 1]]
           after == PublishState(m, st)
<1>1. index \in Nat /\ index + 1 - 1 = index /\ index - index + 1 = 1
  BY DEF CPU_STATUS_INDEX
<1>2. after = Store(m, put)
  BY DEF PublishState, WriteCells
<1>3. cell \in cells /\ cell[2] = index
  BY <1>1 DEF Cell
<1>4. cell \in DOMAIN put /\ put[cell] = EffectiveState(st)
  <2>1. put[cell] = values[cell[2] - index + 1]
    BY <1>3
  <2> QED
    BY <1>1, <1>3, <2>1
<1> HIDE DEF put, cells
<1>5. Held(after, cell) = EffectiveState(st)
  BY <1>2, <1>4, StoreHolds
<1> HIDE DEF after
<1>6. ReadCell(after, Device_SD, index) = EffectiveState(st)
  BY <1>5 DEF ReadCell, Held
<1>7. Device_SD.unit = "word"
  BY DEF Device_SD, DeviceType
<1>8. /\ Address(Device_SD, index).type = Device_SD /\ Address(Device_SD, index).index = index
  BY DEF Address
<1>9. WordsFrom(after, Address(Device_SD, index), 1)
          = [i \in 1 .. 1 |-> ReadCell(after, Device_SD, index + i - 1)]
  BY <1>7, <1>8 DEF WordsFrom, MemoryWords
<1> HIDE DEF index
<1>10. [i \in 1 .. 1 |-> ReadCell(after, Device_SD, index + i - 1)] = <<ReadCell(after, Device_SD, index)>>
  BY <1>1
<1> QED
  BY <1>6, <1>9, <1>10 DEF index, after

\* A verb of one number or of one bit, at a literal.
Numbers == {U16, I16, U32, I32, F32, F64}
Simple(v) ==
    /\ v.address # RunningBase /\ "order" \in DOMAIN v /\ v.order \in {"low-first", "high-first"}
    /\ \E spec \in Numbers \cup {Bit} : v.spec = Bounded(spec, v.spec.bounds)

\* What there is to know of a specification.
IsForm(spec, form, kind, words) == spec.form = form /\ spec.kind = kind /\ spec.words = words

LEMMA SimpleForms ==
    ASSUME NEW v, Simple(v)
    PROVE  \/ IsForm(v.spec, "bit", "bits", 0)
           \/ IsForm(v.spec, "number", "u16", 1)
           \/ IsForm(v.spec, "number", "i16", 1)
           \/ IsForm(v.spec, "number", "u32", 2)
           \/ IsForm(v.spec, "number", "i32", 2)
           \/ IsForm(v.spec, "number", "f32", 2)
           \/ IsForm(v.spec, "number", "u32", 4)
<1>1. PICK spec \in Numbers \cup {Bit} : v.spec = Bounded(spec, v.spec.bounds)
  BY DEF Simple
<1>2. ASSUME NEW form, NEW kind, NEW words, spec = [form |-> form, kind |-> kind, words |-> words, bounds |-> NoBounds]
      PROVE  IsForm(v.spec, form, kind, words)
  BY <1>1, <1>2 DEF Bounded, IsForm
<1> QED
  BY <1>2 DEF Numbers, Bit, U16, I16, U32, I32, F32, F64, NumberSpec

\* The bit or the words that a verb finds in a memory, and the cells that are its.
FoundThere(profile, m, v) ==
    LET From(at) == IF v.spec.form = "bit" THEN BitsFrom(m, at, 1) ELSE WordsFrom(m, at, v.spec.words) IN
    From(MeantOn(profile, v.address))
ItsCells(v, at) ==
    CellsFrom(at, IF v.spec.form = "bit" THEN 1 ELSE IF at.type.unit = "bit" THEN 16 * v.spec.words
                  ELSE v.spec.words)

\* A verb's value, as a block of one field.
LEMMA OneField ==
    ASSUME NEW v, v.address # RunningBase
    PROVE  /\ OneValue(v).fields[1].spec = v.spec /\ OneValue(v).word_order = v.order
           /\ Begins(OneValue(v), 1) = Meant(v.address)
           /\ CellsOf(OneValue(v), 1) = ItsCells(v, Meant(v.address))
<1> DEFINE block == OneValue(v)
<1>1. block.fields[1] = [name |-> <<"value", 1>>, spec |-> v.spec, address |-> v.address]
      /\ block.word_order = v.order
  BY DEF OneValue, AsBlock, PlcBlock, FieldPlan
<1> HIDE DEF block
<1>2. block.fields[1].spec = v.spec /\ block.fields[1].address = v.address
  BY <1>1
<1>3. Begins(block, 1) = Meant(v.address)
  BY <1>2 DEF Begins
<1>4. CellsOf(block, 1) = ItsCells(v, Meant(v.address))
  BY <1>2, <1>3 DEF CellsOf, ItsCells, CellsFrom
<1> QED
  BY <1>1, <1>2, <1>3, <1>4 DEF block

\* The sign, both ways.
LEMMA SignedIsSigned ==
    ASSUME NEW word
    PROVE  Signed(word, 16) = HalfSigned(word)
<1>1. 2 ^ 15 = 32768 /\ 2 ^ 16 = 65536
  OBVIOUS
<1> QED
  BY <1>1 DEF Signed, HalfSigned

\* The words of a number in the order of their weight, and what a person reads in them.
Lowest(spec, words, order) == IF IsWide(spec) /\ order = "high-first" THEN Reverse(words) ELSE words
ReadOff(spec, words) ==
    CASE spec.words = 4 -> <<words[2] * 65536 + words[1], words[4] * 65536 + words[3]>>
      [] spec.kind = "i32" -> <<HalfSigned(words[2]) * 65536 + words[1]>>
      [] spec.kind \in {"u32", "f32"} /\ spec.words = 2 -> <<words[2] * 65536 + words[1]>>
      [] spec.kind = "i16" -> <<HalfSigned(words[1])>>
      [] OTHER -> words

\* What the client makes of the words is what a person would.
LEMMA NumbersAreRead ==
    ASSUME NEW spec, NEW kind, NEW n, IsForm(spec, "number", kind, n),
           <<kind, n>> \in {<<"u16", 1>>, <<"i16", 1>>, <<"u32", 2>>, <<"i32", 2>>, <<"f32", 2>>, <<"u32", 4>>},
           NEW words, words = [i \in 1 .. n |-> words[i]], NEW order \in {"low-first", "high-first"}
    PROVE  FromWords(spec, words, order) = ReadOff(spec, Lowest(spec, words, order))
<1> DEFINE low == Lowest(spec, words, order)
<1>1. spec.form = "number" /\ spec.kind = kind /\ spec.words = n
  BY DEF IsForm
<1>2. CASE n = 1
  <2>1. low = words /\ words = <<words[1]>>
    BY <1>1, <1>2 DEF IsWide, Lowest
  <2>2. FromWords(spec, words, order) = <<IF kind = "i16" THEN HalfSigned(words[1]) ELSE words[1]>>
    BY <1>1, <1>2, SignedIsSigned DEF FromWords
  <2> HIDE DEF low
  <2>3. ReadOff(spec, low) = IF kind = "i16" THEN <<HalfSigned(words[1])>> ELSE words
    BY <1>1, <1>2, <2>1 DEF ReadOff
  <2> QED
    BY <2>1, <2>2, <2>3 DEF low
<1>3. CASE n = 2
  <2>1. low = OrderWords(words, order)
    BY <1>1, <1>3 DEF IsWide, Lowest, OrderWords
  <2>2. 2 \div 2 = 1 /\ 2 * 1 = 2 /\ 2 * 1 - 1 = 1 /\ 1 .. 1 = {1}
    OBVIOUS
  <2> HIDE DEF low
  <2>3. FromWords(spec, words, order)
            = [k \in 1 .. 1 |-> (IF kind = "i32" THEN HalfSigned(low[2 * k]) ELSE low[2 * k]) * 65536
                                    + low[2 * k - 1]]
    BY <1>1, <1>3, <2>1, <2>2, SignedIsSigned DEF FromWords
  <2>4. FromWords(spec, words, order)
            = <<(IF kind = "i32" THEN HalfSigned(low[2]) ELSE low[2]) * 65536 + low[1]>>
    BY <2>2, <2>3
  <2>5. ReadOff(spec, low) = <<(IF kind = "i32" THEN HalfSigned(low[2]) ELSE low[2]) * 65536 + low[1]>>
    BY <1>1, <1>3 DEF ReadOff
  <2> QED
    BY <2>4, <2>5 DEF low
<1>4. CASE n = 4
  <2>1. low = OrderWords(words, order) /\ kind = "u32"
    BY <1>1, <1>4 DEF IsWide, Lowest, OrderWords
  <2>2. 4 \div 2 = 2 /\ 2 * 1 = 2 /\ 2 * 1 - 1 = 1 /\ 2 * 2 = 4 /\ 2 * 2 - 1 = 3 /\ 1 .. 2 = {1, 2}
    OBVIOUS
  <2> HIDE DEF low
  <2>3. FromWords(spec, words, order) = [k \in 1 .. 2 |-> low[2 * k] * 65536 + low[2 * k - 1]]
    BY <1>1, <1>4, <2>1, <2>2 DEF FromWords
  <2>4. FromWords(spec, words, order) = <<low[2] * 65536 + low[1], low[4] * 65536 + low[3]>>
    BY <2>2, <2>3
  <2>5. ReadOff(spec, low) = <<low[2] * 65536 + low[1], low[4] * 65536 + low[3]>>
    BY <1>1, <1>4 DEF ReadOff
  <2> QED
    BY <2>4, <2>5 DEF low
<1> QED
  BY <1>2, <1>3, <1>4

LEMMA ValuedIsThere ==
    ASSUME NEW v, Simple(v)
    PROVE  Valued(v, FoundThere(Target.profile, memory, v)) = ValueThere(memory, OneValue(v), 1)
<1> DEFINE at == Meant(v.address)
           block == OneValue(v)
           spec == v.spec
           words == WordsFrom(memory, at, spec.words)
<1>1. /\ block.fields[1].spec = spec /\ block.word_order = v.order /\ Begins(block, 1) = at
      /\ v.order \in {"low-first", "high-first"}
  BY OneField DEF Simple
<1>2. FoundThere(Target.profile, memory, v) = IF spec.form = "bit" THEN BitsFrom(memory, at, 1) ELSE words
  BY DEF FoundThere, Meant
<1> HIDE DEF at, block
<1>3. CASE spec.form = "bit"
  BY <1>1, <1>2, <1>3 DEF Valued, ValueThere, block
<1>4. CASE spec.form = "number"
  <2>1. words = [i \in 1 .. spec.words |-> words[i]]
    BY DEF WordsFrom, MemoryWords
  <2>2. FromWords(spec, words, v.order) = ReadOff(spec, Lowest(spec, words, v.order))
    <3> HIDE DEF words
    <3>1. IsForm(spec, "number", spec.kind, spec.words)
      BY <1>4 DEF IsForm
    <3>2. <<spec.kind, spec.words>> \in
              {<<"u16", 1>>, <<"i16", 1>>, <<"u32", 2>>, <<"i32", 2>>, <<"f32", 2>>, <<"u32", 4>>}
      BY <1>4, SimpleForms DEF IsForm
    <3> QED
      BY <1>1, <2>1, <3>1, <3>2, NumbersAreRead
  <2>3. Valued(v, words) = FromWords(spec, words, v.order)
    BY <1>4 DEF Valued
  <2> HIDE DEF words
  <2>4. ValueThere(memory, block, 1) = ReadOff(spec, Lowest(spec, words, v.order))
    BY <1>1, <1>4 DEF ValueThere, ReadOff, Lowest, words
  <2> QED
    BY <1>2, <1>4, <2>2, <2>3, <2>4 DEF block, words
<1> QED
  BY <1>3, <1>4, SimpleForms DEF IsForm

-----------------------------------------------------------------------------
(***************************************************************************)
(* The steps of a verb of one value.                                       *)
(***************************************************************************)

OfOneValue(v) ==
    \/ v.verb = "read" /\ Simple(v)
    \/ v.verb = "write" /\ Simple(v) /\ (v.spec.form = "bit" => DOMAIN v.value = 1 .. 1)
    \/ v.verb \in {"read_cpu_status", "remote"}

\* What VerbsAssumption says of a write.
Formed(v) ==
    v.verb = "write" =>
        {"spec", "address"} \subseteq DOMAIN v /\ {"form", "words", "bounds"} \subseteq DOMAIN v.spec

\* With these answers at hand it may ask this.
AsksFor(v, ctx, got, cmd) == \E step \in NextSteps(v, ctx, got) : step.do = "ask" /\ step.cmd = cmd

LEMMA OneValueAsks ==
    ASSUME NEW v, OfOneValue(v), Formed(v), NEW ctx, NEW got, NEW cmd, AsksFor(v, ctx, got, cmd)
    PROVE  /\ v.verb = "read" => got = <<>> /\ cmd = ReadCommand(v)
           /\ v.verb = "write" => IF got = <<>> THEN cmd = WriteCommand(v)
                                  ELSE Tail(got) = <<>> /\ cmd = ReadCommand(v)
           /\ v.verb = "read_cpu_status" => got = <<>> /\ cmd = CpuStatusCommand
           /\ v.verb = "remote" /\ got # <<>> => cmd = CpuStatusCommand
<1>1. PICK step \in NextSteps(v, ctx, got) : step.do = "ask" /\ step.cmd = cmd
  BY DEF AsksFor
<1>2. ~Returns(step) /\ \A whys : ~Objects(step, whys)
  BY <1>1 DEF Returns, Objects
<1>3. CASE v.verb = "read"
  <2>1. step = ReadSteps(v, got)
    BY <1>1, <1>3 DEF NextSteps
  <2>2. got = <<>> /\ step = AskFor(ReadCommand(v))
    BY <1>2, <2>1, ReadStepsDo
  <2> QED
    BY <1>1, <1>3, <2>2, StepsDo
<1>4. CASE v.verb = "write"
  <2>1. step = WriteSteps(v, got)
    BY <1>1, <1>4 DEF NextSteps
  <2>2. IF got = <<>> THEN step = AskFor(WriteCommand(v))
        ELSE Tail(got) = <<>> /\ step = AskFor(ReadCommand(v))
    BY <1>2, <1>4, <2>1, WriteStepsDo DEF Formed
  <2> QED
    BY <1>1, <1>4, <2>2, StepsDo
<1>5. CASE v.verb = "read_cpu_status"
  <2>1. step = StatusSteps(got)
    BY <1>1, <1>5 DEF NextSteps
  <2>2. got = <<>>
    BY <1>2, <2>1, StatusStepsDo
  <2>3. step = AskFor(CpuStatusCommand)
    BY <2>1, <2>2 DEF StatusSteps
  <2> QED
    BY <1>1, <1>5, <2>2, <2>3, StepsDo
<1>6. CASE v.verb = "remote"
  <2>1. step \in RemoteSteps(v, got)
    BY <1>1, <1>6 DEF NextSteps
  <2>2. got # <<>> => step = AskFor(CpuStatusCommand)
    BY <1>2, <2>1, RemoteStepsDo
  <2> QED
    BY <1>1, <1>6, <2>2, StepsDo
<1> QED
  BY <1>3, <1>4, <1>5, <1>6 DEF OfOneValue

\* The second of two answers.
LEMMA TwoAnswers ==
    ASSUME NEW S, NEW old \in Seq(S), old # <<>>, Tail(old) = <<>>, NEW x
    PROVE  Tail(Append(old, x)) # <<>> /\ Tail(Append(old, x))[1] = x
<1> DEFINE T == S \cup {x}
           got == Append(old, x)
<1>1. Len(old) = 1
  <2>1. Len(old) \in Nat /\ Len(old) # 0
    BY EmptySeq
  <2>2. Len(Tail(old)) = Len(old) - 1
    BY HeadTailProperties
  <2> QED
    BY <2>1, <2>2
<1>2. old \in Seq(T) /\ x \in T
  OBVIOUS
<1>3. got \in Seq(T) /\ got # <<>> /\ Len(got) = 2 /\ got[2] = x
  <2> HIDE DEF T
  <2>1. Len(got) = Len(old) + 1 /\ got[Len(old) + 1] = x /\ got \in Seq(T) /\ got # <<>>
    BY <1>2, AppendProperties
  <2>2. Len(old) + 1 = 2
    BY <1>1
  <2> QED
    BY <2>1, <2>2
<1> HIDE DEF got, T
<1>4. Len(Tail(got)) = 1 /\ Tail(got)[1] = got[2]
  <2>1. Len(Tail(got)) = 2 - 1 /\ \A i \in 1 .. Len(Tail(got)) : Tail(got)[i] = got[i + 1]
    BY <1>3, HeadTailProperties
  <2> QED
    BY <2>1
<1>5. Len(<<>>) = 0
  OBVIOUS
<1> QED
  BY <1>3, <1>4, <1>5 DEF got

\* A value is judged, and is what is told if it passes.
LEMMA JudgedIsTold ==
    ASSUME NEW spec, NEW value
    PROVE  /\ Judged(spec, value) = Return(value) \/ Judged(spec, value).do = "raise"
           /\ Return(value).do = "return" /\ Return(value).value = value
<1>1. Return(value).do = "return" /\ Return(value).value = value /\ \A why : Raise(why).do = "raise"
  BY DEF Return, Raise
<1>2. \/ Judged(spec, value) = Return(value)
      \/ \E why : Judged(spec, value) = Raise(why)
  BY DEF Judged, CheckReading
<1> QED
  BY <1>1, <1>2

\* What is told, of the last answer; and a write that is verified has looked.
LEMMA OneValueTells ==
    ASSUME NEW v, OfOneValue(v), Formed(v), NEW ctx, NEW S, NEW old \in Seq(S), NEW x, NEW cmd,
           AsksFor(v, ctx, old, cmd), NEW step \in NextSteps(v, ctx, Append(old, x)), step.do = "return"
    PROVE  /\ v.verb = "read" => step.value = Valued(v, x)
           /\ v.verb = "write" /\ v.verify => old # <<>> /\ v.value = Valued(v, x)
           /\ v.verb = "read_cpu_status" => step.value = x
           /\ v.verb = "remote" /\ v.verify => old # <<>> /\ x = <<v.wanted>>
<1> DEFINE got == Append(old, x)
<1>1. /\ got # <<>> /\ (old = <<>> => got[1] = x /\ Tail(got) = <<>> /\ Len(got) = 1)
      /\ got[Len(got)] = x
  OBVIOUS
<1>2. old # <<>> /\ Tail(old) = <<>> => Tail(got) # <<>> /\ Tail(got)[1] = x
  BY TwoAnswers
<1>3. step \in NextSteps(v, ctx, got)
  OBVIOUS
<1> HIDE DEF got
<1>4. CASE v.verb = "read"
  <2>1. old = <<>> /\ step = ReadSteps(v, got)
    BY <1>3, <1>4, OneValueAsks DEF NextSteps
  <2>2. step = Judged(v.spec, Valued(v, x))
    BY <1>1, <2>1 DEF ReadSteps
  <2> QED
    BY <1>4, <2>2, JudgedIsTold
<1>5. CASE v.verb = "write" /\ v.verify
  <2> DEFINE plain == [v EXCEPT !.spec.bounds = NoBounds]
             back == ReadSteps(plain, Tail(got))
  <2>1. step = IF back.do = "ask" THEN back ELSE Check(v.value, back)
    BY <1>1, <1>3, <1>5 DEF NextSteps, WriteSteps
  <2>2. /\ plain.spec.form = v.spec.form /\ plain.spec.kind = v.spec.kind /\ plain.spec.words = v.spec.words
        /\ plain.order = v.order
    <3>1. "spec" \in DOMAIN v /\ "order" \in DOMAIN v /\ {"form", "kind", "words", "bounds"} \subseteq DOMAIN v.spec
      <4>1. PICK spec \in Numbers \cup {Bit} : v.spec = Bounded(spec, v.spec.bounds)
        BY <1>5 DEF OfOneValue, Simple
      <4>2. DOMAIN spec = {"form", "kind", "words", "bounds"}
        BY DEF Numbers, Bit, U16, I16, U32, I32, F32, F64, NumberSpec
      <4>3. DOMAIN v.spec = {"form", "kind", "words", "bounds"}
        BY <4>1, <4>2 DEF Bounded
      <4> QED
        BY <1>5, <4>3 DEF OfOneValue, Simple, Formed
    <3> QED
      BY <3>1
  <2> HIDE DEF plain
  <2>3. v.spec.form # "text"
    BY <1>5, SimpleForms DEF OfOneValue, IsForm
  <2>4. Valued(plain, x) = Valued(v, x)
    BY <2>2, <2>3 DEF Valued, FromWords
  <2>5. Tail(got) = <<>> => back.do = "ask"
    BY StepsDo DEF ReadSteps
  <2>6. old # <<>> /\ Tail(got) # <<>> /\ Tail(got)[1] = x
    <3>1. old # <<>>
      BY <1>1, <2>1, <2>5
    <3> QED
      BY <1>2, <1>5, <3>1, OneValueAsks
  <2>7. back = Judged(plain.spec, Valued(v, x))
    BY <2>4, <2>6 DEF ReadSteps
  <2> HIDE DEF back
  <2>8. back = Return(Valued(v, x)) \/ back.do = "raise"
    BY <2>7, JudgedIsTold
  <2>9. back.do # "ask"
    BY <2>8, JudgedIsTold
  <2>10. step = Check(v.value, back)
    BY <2>1, <2>9
  <2>11. back.do # "raise" /\ back.value = v.value
    BY <2>10, StepsDo DEF Check
  <2> QED
    BY <1>5, <2>6, <2>8, <2>11, JudgedIsTold
<1>6. CASE v.verb = "read_cpu_status"
  <2>1. old = <<>> /\ step = StatusSteps(got)
    BY <1>3, <1>6, OneValueAsks DEF NextSteps
  <2>2. step \in {Return(x), Raise("shape")}
    BY <1>1, <2>1 DEF StatusSteps
  <2> QED
    BY <1>6, <2>2, StepsDo, JudgedIsTold
<1>7. CASE v.verb = "remote" /\ v.verify
  <2>1. step \in RemoteSteps(v, got)
    BY <1>3, <1>7 DEF NextSteps
  <2>2. \A c, why : AskFor(c).do # "return" /\ Raise(why).do # "return"
    BY StepsDo
  <2>3. Len(got) # 1 /\ Last(got) = <<v.wanted>>
    BY <1>1, <1>7, <2>1, <2>2 DEF RemoteSteps
  <2> QED
    BY <1>1, <1>7, <2>3 DEF Last
<1> QED
  BY <1>4, <1>5, <1>6, <1>7

\* What such a verb asks is a batch command, but for what a remote verb commands first; and
\* its read is of what is there.
LEMMA OneValueReads ==
    ASSUME NEW v, NEW profile, NEW m
    PROVE  /\ ReadCommand(v).name \in {"ReadWords", "ReadBits"} /\ WriteCommand(v).name \in {"WriteWords", "WriteBits"}
           /\ BatchThere(ReadCommand(v), MeantOn(profile, ReadCommand(v).address), m) = FoundThere(profile, m, v)
           /\ CpuStatusCommand.name = "ReadWords"
           /\ BatchThere(CpuStatusCommand, MeantOn(profile, CpuStatusCommand.address), m)
                  = WordsFrom(m, MeantOn(profile, SD203), 1)
           /\ ReadCommand(v).name \in {"ReadWords", "ReadBits"} /\ \A at : BatchLeaves(ReadCommand(v), at, m) = m
<1>1. \A x, y : /\ ReadWordsOf(x, y).name = "ReadWords" /\ ReadWordsOf(x, y).address = x /\ ReadWordsOf(x, y).count = y
                /\ ReadBitsOf(x, y).name = "ReadBits" /\ ReadBitsOf(x, y).address = x /\ ReadBitsOf(x, y).count = y
                /\ WriteWordsOf(x, y).name = "WriteWords" /\ WriteBitsOf(x, y).name = "WriteBits"
  BY DEF ReadWordsOf, ReadBitsOf, WriteWordsOf, WriteBitsOf
<1>2. CpuStatusCommand = ReadWordsOf(SD203, 1)
  BY DEF CpuStatusCommand
<1>3. ReadCommand(v) = IF v.spec.form = "bit" THEN ReadBitsOf(v.address, 1) ELSE ReadWordsOf(v.address, v.spec.words)
  BY DEF ReadCommand
<1>4. WriteCommand(v).name \in {"WriteWords", "WriteBits"}
  BY <1>1 DEF WriteCommand
<1>5. CASE v.spec.form = "bit"
  BY <1>1, <1>2, <1>3, <1>4, <1>5 DEF BatchThere, BatchLeaves, FoundThere
<1>6. CASE v.spec.form # "bit"
  BY <1>1, <1>2, <1>3, <1>4, <1>6 DEF BatchThere, BatchLeaves, FoundThere
<1> QED
  BY <1>5, <1>6

\* Beside the cells of a verb a memory is as it was before.
Beside(v, profile, before, m) ==
    \A cell : cell \notin ItsCells(v, MeantOn(profile, v.address)) => Held(m, cell) = Held(before, cell)

\* Before its first answer a verb has left the memory alone, and after it a write has left
\* alone what is beside it.
Left(v, profile, before, got, m) ==
    IF got = <<>> THEN m = before ELSE v.verb = "write" => Beside(v, profile, before, m)

\* A write puts as many words as its number has, or one bit.
LEMMA OneValueWrites ==
    ASSUME NEW v, OfOneValue(v), v.verb = "write", NEW profile, NEW m
    PROVE  Beside(v, profile, m, BatchLeaves(WriteCommand(v), MeantOn(profile, WriteCommand(v).address), m))
<1> DEFINE at == MeantOn(profile, v.address)
           words == ToWords(v.spec, v.value, v.order)
<1>1. Simple(v) /\ (v.spec.form = "bit" => DOMAIN v.value = 1 .. 1)
  BY DEF OfOneValue
<1>2. CASE v.spec.form = "bit"
  <2>1. WriteCommand(v) = WriteBitsOf(v.address, v.value)
    BY <1>2 DEF WriteCommand
  <2>2. /\ WriteCommand(v).address = v.address
        /\ BatchLeaves(WriteCommand(v), at, m) = WriteCells(m, at.type, at.index, v.value)
    BY <2>1 DEF WriteBitsOf, BatchLeaves
  <2> DEFINE values == v.value
             n == 1
  <2>3. ItsCells(v, at) = CellsFrom(at, n) /\ DOMAIN values = 1 .. n
    BY <1>1, <1>2 DEF ItsCells
  <2> HIDE DEF at, n, values
  <2>4. \A cell : cell \notin CellsFrom(at, n) =>
            Held(WriteCells(m, at.type, at.index, values), cell) = Held(m, cell)
    BY <2>3, CellsBeside
  <2> QED
    BY <2>2, <2>3, <2>4 DEF Beside, at, values
<1>3. CASE v.spec.form = "number" /\ v.spec.words \in {1, 2, 4}
  <2> DEFINE n == v.spec.words
             put == TwosComplement(words)
             values == IF at.type.unit = "bit" THEN WindowBits(put) ELSE put
             cells == IF at.type.unit = "bit" THEN 16 * n ELSE n
  <2>1. WriteCommand(v) = WriteWordsOf(v.address, words)
    BY <1>3 DEF WriteCommand
  <2>2. /\ WriteCommand(v).address = v.address
        /\ BatchLeaves(WriteCommand(v), at, m) = WriteCells(m, at.type, at.index, values)
    BY <2>1 DEF WriteWordsOf, BatchLeaves, WriteWordsAt
  <2>3. ItsCells(v, at) = CellsFrom(at, cells)
    BY <1>3 DEF ItsCells
  <2>4. DOMAIN words = 1 .. n /\ Len(words) = n
    <3>1. CASE n = 1
      BY <3>1 DEF ToWords
    <3>2. CASE n \in {2, 4}
      <4>1. PICK halves : halves = [k \in 1 .. n |-> halves[k]] /\ words = OrderWords(halves, v.order)
        <5> DEFINE half(k) == IF k % 2 = 1 THEN v.value[(k + 1) \div 2] ELSE v.value[k \div 2] \div 65536
                   all == [k \in 1 .. n |-> half(k) % 65536]
        <5>1. words = OrderWords(all, v.order)
          BY <3>2 DEF ToWords
        <5>2. all = [k \in 1 .. n |-> all[k]]
          OBVIOUS
        <5> HIDE DEF words, all
        <5> QED
          BY <5>1, <5>2
      <4>2. DOMAIN halves = 1 .. n /\ Len(halves) = n /\ n \in Nat
        BY <3>2, <4>1
      <4>3. words = halves \/ words = [i \in 1 .. n |-> halves[(n - i) + 1]]
        BY <4>1, <4>2 DEF OrderWords, Reverse
      <4> HIDE DEF words, n
      <4>4. DOMAIN words = 1 .. n
        BY <4>2, <4>3
      <4> QED
        BY <4>2, <4>3, <4>4
    <3> QED
      BY <1>3, <3>1, <3>2
  <2> HIDE DEF words
  <2>5. DOMAIN put = 1 .. n /\ Len(put) = n
    <3>1. DOMAIN put = 1 .. n /\ n \in Nat
      BY <1>3, <2>4 DEF TwosComplement
    <3> QED
      BY <1>3, <3>1 DEF TwosComplement
  <2> HIDE DEF put, n
  <2>6. DOMAIN values = 1 .. cells
    BY <2>5 DEF WindowBits
  <2> HIDE DEF values, cells, at
  <2>7. \A cell : cell \notin CellsFrom(at, cells) =>
            Held(WriteCells(m, at.type, at.index, values), cell) = Held(m, cell)
    BY <2>6, CellsBeside
  <2> QED
    BY <2>2, <2>3, <2>7 DEF Beside, at
<1> QED
  BY <1>1, <1>2, <1>3, SimpleForms DEF IsForm

\* A step of a write: it writes beside nothing, and then looks.
LEMMA WriteLeaves ==
    ASSUME NEW v, OfOneValue(v), Formed(v), v.verb = "write", NEW ctx, NEW got, NEW cmd, AsksFor(v, ctx, got, cmd),
           NEW profile, NEW before, NEW m, Left(v, profile, before, got, m)
    PROVE  /\ cmd.name \in Batches
           /\ Beside(v, profile, before, BatchLeaves(cmd, MeantOn(profile, cmd.address), m))
<1>1. CASE got = <<>>
  <2>1. cmd = WriteCommand(v) /\ m = before
    BY <1>1, OneValueAsks DEF Left
  <2> QED
    BY <2>1, OneValueReads, OneValueWrites DEF Batches
<1>2. CASE got # <<>>
  <2>1. cmd = ReadCommand(v) /\ Beside(v, profile, before, m)
    BY <1>2, OneValueAsks DEF Left
  <2>2. cmd.name \in Batches /\ \A at : BatchLeaves(cmd, at, m) = m
    BY <2>1, OneValueReads DEF Batches
  <2> QED
    BY <2>1, <2>2
<1> QED
  BY <1>1, <1>2

\* The answer x to a command that reads is what is there, in a memory that shows the state.
Finds == {"ReadWords", "ReadBits"}
AnswerIs(cmd, profile, m, st, x) ==
    cmd.name \in Finds => x = BatchThere(cmd, MeantOn(profile, cmd.address), m) /\ m = PublishState(m, st)
Answered(v, ctx, profile, got, m, st) ==
    \E S, x, cmd : \E old \in Seq(S) :
        got = Append(old, x) /\ AsksFor(v, ctx, old, cmd) /\ AnswerIs(cmd, profile, m, st, x)

\* The truth of a memory and of a state.
Told(v, profile, before, m, st, value) ==
    /\ v.verb = "read" => value = Valued(v, FoundThere(profile, m, v))
    /\ v.verb = "write" => /\ v.verify => v.value = Valued(v, FoundThere(profile, m, v))
                           /\ Beside(v, profile, before, m)
    /\ v.verb = "read_cpu_status" => value = <<EffectiveState(st)>>
    /\ v.verb = "remote" /\ v.verify => EffectiveState(st) = v.wanted

LEMMA OneValueIsTold ==
    ASSUME NEW v, OfOneValue(v), Formed(v), NEW ctx, NEW profile, NEW before, NEW got, NEW m, NEW st,
           Answered(v, ctx, profile, got, m, st), Left(v, profile, before, got, m),
           MeantOn(profile, SD203) = Address(Device_SD, CPU_STATUS_INDEX),
           NEW step \in NextSteps(v, ctx, got), step.do = "return"
    PROVE  Told(v, profile, before, m, st, step.value)
<1>1. PICK S, x, cmd : \E old \in Seq(S) :
          got = Append(old, x) /\ AsksFor(v, ctx, old, cmd) /\ AnswerIs(cmd, profile, m, st, x)
  BY DEF Answered
<1>2. PICK old \in Seq(S) :
          got = Append(old, x) /\ AsksFor(v, ctx, old, cmd) /\ AnswerIs(cmd, profile, m, st, x)
  BY <1>1
<1>3. got # <<>>
  BY <1>2
<1>4. /\ v.verb = "read" => step.value = Valued(v, x)
      /\ v.verb = "write" /\ v.verify => old # <<>> /\ v.value = Valued(v, x)
      /\ v.verb = "read_cpu_status" => step.value = x
      /\ v.verb = "remote" /\ v.verify => old # <<>> /\ x = <<v.wanted>>
  BY <1>2, OneValueTells
<1>5. /\ v.verb = "read" => cmd = ReadCommand(v)
      /\ v.verb = "write" /\ old # <<>> => cmd = ReadCommand(v)
      /\ v.verb = "read_cpu_status" => cmd = CpuStatusCommand
      /\ v.verb = "remote" /\ old # <<>> => cmd = CpuStatusCommand
  BY <1>2, OneValueAsks
<1>6. cmd = ReadCommand(v) => x = FoundThere(profile, m, v)
  BY <1>2, OneValueReads DEF AnswerIs, Finds
<1>7. cmd = CpuStatusCommand => x = <<EffectiveState(st)>>
  <2>1. ASSUME cmd = CpuStatusCommand
        PROVE  x = WordsFrom(m, MeantOn(profile, SD203), 1) /\ m = PublishState(m, st)
    BY <1>2, <2>1, OneValueReads DEF AnswerIs, Finds
  <2>2. WordsFrom(PublishState(m, st), MeantOn(profile, SD203), 1) = <<EffectiveState(st)>>
    BY StatusIsShown
  <2> QED
    BY <2>1, <2>2
<1>8. v.verb = "write" => Beside(v, profile, before, m)
  BY <1>3 DEF Left
<1>9. \A a, b : <<a>> = <<b>> => a = b
  OBVIOUS
<1> QED
  BY <1>4, <1>5, <1>6, <1>7, <1>8, <1>9 DEF Told

LEMMA ToldIsWell ==
    ASSUME NEW value, OfOneValue(task.verb),
           Told(task.verb, Target.profile, task.before, memory, state, value)
    PROVE  ToldWell(task.verb, value)
<1> DEFINE v == task.verb
<1>1. ASSUME v.verb \in {"read", "write"}
      PROVE  /\ Valued(v, FoundThere(Target.profile, memory, v)) = ValueThere(memory, OneValue(v), 1)
             /\ CellsOf(OneValue(v), 1) = ItsCells(v, Meant(v.address))
  BY <1>1, ValuedIsThere, OneField DEF OfOneValue, Simple
<1>2. ASSUME v.verb = "write" PROVE SameBut(CellsOf(OneValue(v), 1))
  BY <1>1, <1>2 DEF Told, Beside, SameBut, Meant
<1> QED
  BY <1>1, <1>2 DEF OfOneValue, Told, ToldWell

-----------------------------------------------------------------------------
(***************************************************************************)
(* Only a verb ends with a value.                                          *)
(***************************************************************************)

NoValueYet == outcome'.kind = "value" => outcome.kind = "value"

LEMMA KindsOfOutcome ==
    ASSUME NEW kind, NEW why, NEW values
    PROVE  Outcome(kind, why, values).kind = kind /\ NoOutcome.kind = "none"
BY DEF Outcome, NoOutcome

LEMMA NoValueInAQuestion ==
    ASSUME NEW e, NEW cmd
    PROVE  /\ \A refusal : RefuseToSend(e, cmd, refusal) => NoValueYet
           /\ Ask(e, cmd) => NoValueYet
<1>1. ASSUME NEW refusal, RefuseToSend(e, cmd, refusal) PROVE NoValueYet
  BY <1>1, KindsOfOutcome DEF RefuseToSend, End, NoValueYet
<1>2. ASSUME NEW entry, NEW serial, Send(e, entry, cmd, serial) PROVE NoValueYet
  BY <1>2, KindsOfOutcome DEF Send, NoValueYet
<1> QED
  BY <1>1, <1>2 DEF Ask

LEMMA NoValueOnTheWay ==
    ASSUME Travel \/ Conclude
    PROVE  NoValueYet
<1>1. ASSUME NEW units, NEW whole, Fed(units, whole) PROVE NoValueYet
  <2>1. (\E fault : outcome' = Outcome("protocol", fault, <<>>)) \/ outcome' = outcome
    BY <1>1 DEF Fed, Broken, End
  <2> QED
    BY <2>1, KindsOfOutcome DEF NoValueYet
<1>2. CASE Serve
  <2>1. (\E kind \in {"silent", "timeout"} : outcome' = Outcome(kind, "none", <<>>)) \/ outcome' = outcome
    BY <1>2 DEF Serve, End, Answer
  <2> QED
    BY <2>1, KindsOfOutcome DEF NoValueYet
<1>3. CASE ReceiveStream \/ ReceiveDatagram
  BY <1>1, <1>3 DEF ReceiveStream, ReceiveDatagram
<1>4. CASE Conclude
  <2>1. outcome' = Conclusion
    BY <1>4 DEF Conclude, End
  <2>2. \A fault, values : Outcome("decode", fault, values).kind # "value"
                           /\ Outcome("returned", fault, values).kind # "value"
                           /\ Outcome("protocol", fault, values).kind # "value"
                           /\ Outcome("end_code", fault, values).kind # "value"
    BY KindsOfOutcome
  <2>3. \A cmd, payload, ctx : Meaning(cmd, payload, ctx).kind # "value"
    BY <2>2 DEF Meaning
  <2>4. Conclusion.kind # "value"
    BY <2>2, <2>3 DEF Conclusion
  <2> QED
    BY <2>1, <2>4 DEF NoValueYet
<1> QED
  BY <1>2, <1>3, <1>4 DEF Travel

LEMMA NoValueInABlock ==
    ASSUME BlockNext
    PROVE  NoValueYet
<1>1. CASE AsideFromBlocks
  <2>1. (\E e, cmd : Ask(e, cmd)) \/ Travel \/ Conclude \/ Finished
    BY <1>1 DEF AsideFromBlocks, WireNext
  <2>2. Finished => NoValueYet
    BY DEF Finished, vars, NoValueYet
  <2> QED
    BY <2>1, <2>2, NoValueInAQuestion, NoValueOnTheWay
<1>2. ASSUME NEW e, NEW b, Bind(e, b) PROVE NoValueYet
  <2>1. (\E fault : RefuseToSend(e, NoCommand, fault)) \/ outcome' = NoOutcome
    BY <1>2 DEF Bind
  <2> QED
    BY <2>1, NoValueInAQuestion, KindsOfOutcome DEF NoValueYet
<1>3. ASSUME NEW e, NEW w, WriteFields(e, w) PROVE NoValueYet
  <2>1. \E cmd, fault : RefuseToSend(e, cmd, fault) \/ Ask(e, cmd)
    BY <1>3 DEF WriteFields
  <2> QED
    BY <2>1, NoValueInAQuestion
<1>4. CASE RequestPart
  BY <1>4 DEF RequestPart, NoValueYet
<1>5. CASE DecodePart
  <2>1. \/ \E kind \in {"protocol", "end_code", "decode", "block"} : \E why, values : End(Outcome(kind, why, values))
        \/ End(NoOutcome)
    BY <1>5 DEF DecodePart, GivenUp, Fill
  <2>2. outcome'.kind \in {"protocol", "end_code", "decode", "block", "none"}
    BY <2>1, KindsOfOutcome DEF End
  <2> QED
    BY <2>2 DEF NoValueYet
<1> QED
  BY <1>1, <1>2, <1>3, <1>4, <1>5 DEF BlockNext

-----------------------------------------------------------------------------
(***************************************************************************)
(* The invariant of a verb of one value.                                   *)
(***************************************************************************)

\* A request of a verb that only looks has been served by a CPU whose SD203 shows what it does.
Shows ==
    Is("waiting") /\ (phase = "answered" \/ outcome.kind = "returned") /\ ~Mutates(call.cmd) =>
        memory = PublishState(memory, state)

\* What it asks now, what it was answered before and what it has left of the memory; and,
\* in the end, that it has told the truth.
IsAsking ==
    /\ call # NoCall /\ AsksFor(task.verb, TaskCtx, task.got, call.cmd)
    /\ Left(task.verb, Target.profile, task.before, task.got, call.before)
HasAsked ==
    /\ Left(task.verb, Target.profile, task.before, task.got, memory)
    /\ task.got # <<>> => Answered(task.verb, TaskCtx, Target.profile, task.got, memory, state)
HasTold == Told(task.verb, Target.profile, task.before, memory, state, outcome.values)

OneValueStands ==
    ~Is("none") /\ ~ThePlant.stale /\ OfOneValue(task.verb) =>
        /\ \E S : task.got \in Seq(S)
        /\ Is("waiting") => IsAsking
        /\ Is("next") => HasAsked
        /\ outcome.kind = "value" => HasTold

ValueInv == (outcome.kind = "value" => Is("over")) /\ Shows /\ OneValueStands

\* Where nothing but the task moves on.
LEMMA SameTarget ==
    ASSUME UNCHANGED plant
    PROVE  /\ ThePlant' = ThePlant /\ Target' = Target
           /\ task'.entry = task.entry => TaskCtx' = TaskCtx
BY SamePlant DEF Target, TaskCtx

\* With no answer yet a verb of one value asks.
LEMMA OneValueBegins ==
    ASSUME NEW v, OfOneValue(v), Formed(v), NEW ctx, NEW got, got = <<>>, NEW step \in NextSteps(v, ctx, got)
    PROVE  step.do = "ask"
<1>1. CASE v.verb = "read"
  BY <1>1, ReadStepsDo DEF NextSteps, Looks
<1>2. CASE v.verb = "write"
  BY <1>2, WriteStepsDo, StepsDo DEF NextSteps, Formed
<1>3. CASE v.verb = "read_cpu_status"
  BY <1>3, StatusStepsDo DEF NextSteps, Looks
<1>4. CASE v.verb = "remote"
  BY <1>4, RemoteStepsDo, StepsDo DEF NextSteps
<1> QED
  BY <1>1, <1>2, <1>3, <1>4 DEF OfOneValue

\* A verb at hand is one of its entry's.
LEMMA TaskIsFormed ==
    ASSUME CallsInv, ~Is("none")
    PROVE  /\ Formed(task.verb) /\ ThePlant \in Range(Plants)
           /\ (StatusIsMeant => MeantOn(Target.profile, SD203) = Address(Device_SD, CPU_STATUS_INDEX))
<1>1. /\ plant \in DOMAIN Plants /\ task.entry \in DOMAIN ThePlant.entries
      /\ task.verb \in VerbsOf(ThePlant.entries[task.entry])
  BY DEF CallsInv, WireInv, WireTypeOK, TaskWell
<1>2. ThePlant \in Range(Plants) /\ ThePlant.entries[task.entry] \in Range(ThePlant.entries)
  BY <1>1 DEF ThePlant, Range
<1>3. Formed(task.verb)
  BY <1>1, <1>2, VerbsAssumption DEF Formed
<1> QED
  BY <1>2, <1>3 DEF StatusIsMeant, Target

\* A verb is entered ...
LEMMA EnterIsValued ==
    ASSUME ValueInv, Is("none"), NEW e, NEW v, Enter(e, v)
    PROVE  ValueInv'
<1>1. PICK at \in {"next", "over"} :
          /\ task' = [at |-> at, entry |-> e, verb |-> v, got |-> <<>>, before |-> memory]
          /\ at = "next" => UNCHANGED vars
          /\ at = "over" => \E fault : RefuseToSend(e, NoCommand, fault)
  BY DEF Enter
<1>2. /\ task'.at = at /\ task'.got = <<>> /\ task'.before = memory
  BY <1>1
<1>3. memory' = memory /\ NoValueYet
  BY <1>1, NoValueInAQuestion, RefusedIsTold DEF vars, NoValueYet
<1>4. outcome'.kind # "value"
  BY <1>3 DEF ValueInv, Is, NoValueYet
<1>5. Shows'
  BY <1>2 DEF Shows, Is
<1>6. HasAsked'
  BY <1>2, <1>3 DEF HasAsked, Left
<1>7. task'.got \in Seq({})
  BY <1>2
<1> QED
  BY <1>2, <1>4, <1>5, <1>6, <1>7 DEF ValueInv, OneValueStands, Is

\* ... asks ...
LEMMA RequestIsValued ==
    ASSUME CallsInv, ValueInv, Is("next"), NEW step \in Steps, Request(step)
    PROVE  ValueInv'
<1>1. /\ step.do = "ask" /\ Ask(task.entry, step.cmd) /\ task' = [task EXCEPT !.at = "waiting"]
      /\ ~Is("none") /\ TaskWell
  BY DEF Request, Is, CallsInv
<1>2. /\ task'.at = "waiting" /\ task'.entry = task.entry /\ task'.verb = task.verb
      /\ task'.got = task.got /\ task'.before = task.before
  BY <1>1, TaskParts
<1>3. PICK serial : Begin(task.entry, step.cmd, serial)
  BY <1>1 DEF Ask, RefuseToSend, Send
<1>4. call' # NoCall /\ call'.cmd = step.cmd /\ call'.before = memory /\ UNCHANGED plant
  BY <1>3, ACallIsOne
<1>5. NoValueYet /\ phase' \in {"idle", "asked"} /\ outcome'.kind \in {"none", "refused"}
  BY <1>1, NoValueInAQuestion, AskTells, AskIsTold
<1>6. ThePlant' = ThePlant /\ Target' = Target /\ TaskCtx' = TaskCtx
  BY <1>2, <1>4, SameTarget
<1>7. Shows'
  BY <1>5 DEF Shows
<1>8. AsksFor(task.verb, TaskCtx, task.got, step.cmd)
  BY <1>1 DEF AsksFor, Steps, TaskCtx
<1>9. HasAsked => IsAsking'
  BY <1>2, <1>4, <1>6, <1>8 DEF HasAsked, IsAsking
<1>10. OneValueStands'
  BY <1>1, <1>2, <1>5, <1>6, <1>9 DEF ValueInv, OneValueStands, Is
<1> QED
  BY <1>5, <1>7, <1>10 DEF ValueInv

\* ... tells ...
LEMMA TellIsValued ==
    ASSUME StatusIsMeant, CallsInv, ValueInv, Is("next"), NEW step \in Steps, Tell(step)
    PROVE  ValueInv'
<1> DEFINE o == IF step.do = "return" THEN Outcome("value", "none", step.value)
                ELSE Outcome("raised", step.why, <<>>)
<1>1. /\ step.do # "ask" /\ End(o) /\ task' = [task EXCEPT !.at = "over"]
      /\ UNCHANGED <<plant, memory, state>> /\ ~Is("none") /\ TaskWell
      /\ step \in NextSteps(task.verb, TaskCtx, task.got)
  BY DEF Tell, Is, CallsInv, Steps, TaskCtx
<1>2. /\ o.kind = "value" => step.do = "return" /\ o.values = step.value
  BY DEF Outcome
<1> HIDE DEF o
<1>3. /\ task'.at = "over" /\ task'.entry = task.entry /\ task'.verb = task.verb
      /\ task'.got = task.got /\ task'.before = task.before
  BY <1>1, TaskParts
<1>4. outcome' = o /\ ThePlant' = ThePlant /\ Target' = Target
  BY <1>1, SameTarget DEF End
<1>5. ASSUME ~ThePlant.stale, OfOneValue(task.verb), o.kind = "value" PROVE HasTold'
  <2>1. HasAsked /\ step.do = "return"
    BY <1>1, <1>2, <1>5 DEF ValueInv, OneValueStands
  <2>2. Formed(task.verb) /\ MeantOn(Target.profile, SD203) = Address(Device_SD, CPU_STATUS_INDEX)
    BY <1>1, TaskIsFormed
  <2>3. task.got # <<>>
    BY <1>1, <1>5, <2>2, OneValueBegins
  <2>4. Told(task.verb, Target.profile, task.before, memory, state, step.value)
    BY <1>1, <1>5, <2>1, <2>2, <2>3, OneValueIsTold DEF HasAsked
  <2> QED
    BY <1>1, <1>2, <1>3, <1>4, <1>5, <2>4 DEF HasTold
<1>6. Shows'
  BY <1>3 DEF Shows, Is
<1>7. OneValueStands'
  BY <1>1, <1>3, <1>4, <1>5 DEF ValueInv, OneValueStands, Is
<1> QED
  BY <1>3, <1>6, <1>7 DEF ValueInv, Is

\* ... waits for its request ...
LEMMA AwaitIsValued ==
    ASSUME CallsInv, ValueInv, SentAsMeant, Await
    PROVE  ValueInv'
<1>1. Is("waiting") /\ UNCHANGED task /\ (Travel \/ Conclude) /\ ~Is("over") /\ ~Is("next") /\ WireInv
  BY DEF Await, Is, CallsInv
<1>2. UNCHANGED <<plant, call>>
  BY <1>1 DEF Travel, Serve, ReceiveStream, ReceiveDatagram, Fed, Conclude
<1>3. outcome'.kind # "value"
  BY <1>1, NoValueOnTheWay DEF ValueInv, NoValueYet
<1>4. ThePlant' = ThePlant /\ Target' = Target /\ TaskCtx' = TaskCtx
  BY <1>1, <1>2, SameTarget
<1>5. IsAsking => IsAsking'
  BY <1>1, <1>2, <1>4 DEF IsAsking
<1>6. OneValueStands'
  BY <1>1, <1>3, <1>4, <1>5 DEF ValueInv, OneValueStands, Is
<1>7. ASSUME ~Mutates(call.cmd), phase' = "answered" \/ outcome'.kind = "returned"
      PROVE  memory' = PublishState(memory', state')
  <2>1. CASE phase = "asked"
    <3>1. memory = PublishState(memory, state)
      BY <2>1 DEF SentAsMeant, StateIsShown
    <3>2. Travel
      BY <1>1, <2>1 DEF Conclude
    <3>3. state' = state /\ memory' = PublishState(memory, state)
      BY <1>1, <1>7, <2>1, <3>2, TravelIsWell DEF SentAsMeant, Harmless
    <3> QED
      BY <3>1, <3>3
  <2>2. CASE phase # "asked"
    <3>1. phase = "answered" /\ UNCHANGED <<memory, state>>
      BY <1>1, <2>2 DEF Travel, Serve, ReceiveStream, ReceiveDatagram, Fed, Conclude
    <3>2. memory = PublishState(memory, state)
      BY <1>1, <1>7, <3>1 DEF ValueInv, Shows
    <3> QED
      BY <3>1, <3>2
  <2> QED
    BY <2>1, <2>2
<1>8. Shows'
  BY <1>2, <1>7 DEF Shows
<1> QED
  BY <1>3, <1>6, <1>8 DEF ValueInv

\* ... and uses its answer.
LEMMA AnswerIsUsed ==
    ASSUME CallsInv, BatchInv, ValueInv, Is("waiting"), phase = "idle", ~ThePlant.stale, OfOneValue(task.verb),
           outcome.kind \in {"returned", "silent"}, NEW got, got = Append(task.got, outcome.values)
    PROVE  /\ Left(task.verb, Target.profile, task.before, got, memory)
           /\ Answered(task.verb, TaskCtx, Target.profile, got, memory, state)
           /\ \E S : got \in Seq(S)
<1> DEFINE v == task.verb
           cmd == call.cmd
<1>1. ~Is("none") /\ Formed(v)
  BY TaskIsFormed DEF Is
<1>2. IsAsking /\ \E S : task.got \in Seq(S)
  BY <1>1 DEF ValueInv, OneValueStands
<1>3. PICK S : task.got \in Seq(S)
  BY <1>2
<1>4. got # <<>> /\ \E T : got \in Seq(T)
  <2>1. task.got \in Seq(S \cup {outcome.values}) /\ outcome.values \in S \cup {outcome.values}
    BY <1>3
  <2>2. got \in Seq(S \cup {outcome.values}) /\ got # <<>>
    BY <2>1, AppendProperties
  <2> QED
    BY <2>2
<1>5. ASSUME cmd.name \in Batches
      PROVE  /\ outcome.kind = "returned"
             /\ memory = BatchLeaves(cmd, MeantOn(Target.profile, cmd.address), call.before)
             /\ outcome.values = BatchThere(cmd, MeantOn(Target.profile, cmd.address), call.before)
  <2>1. OfBatch
    BY <1>2, <1>5 DEF OfBatch, IsAsking
  <2>2. TellsOutcome(outcome, memory)
    BY <2>1 DEF BatchInv, TellInv, OutcomeTells
  <2> QED
    BY <2>2 DEF TellsOutcome, IsAsMeant, MeantPoint, Meant
<1> HIDE DEF v, cmd
<1>6. ASSUME cmd.name \in Finds
      PROVE  /\ outcome.values = BatchThere(cmd, MeantOn(Target.profile, cmd.address), memory)
             /\ memory = PublishState(memory, state)
  <2>1. cmd.name \in Batches /\ ~Mutates(cmd)
    BY <1>6, ReadsMutateNothing DEF Finds, Batches
  <2>2. memory = call.before
    BY <1>5, <1>6, <2>1 DEF BatchLeaves, Finds
  <2>3. memory = PublishState(memory, state)
    BY <1>5, <2>1 DEF ValueInv, Shows, cmd
  <2> QED
    BY <1>5, <2>1, <2>2, <2>3
<1>7. AnswerIs(cmd, Target.profile, memory, state, outcome.values)
  BY <1>6 DEF AnswerIs
<1>8. Answered(v, TaskCtx, Target.profile, got, memory, state)
  BY <1>2, <1>3, <1>7 DEF Answered, IsAsking, v, cmd
<1>9. v.verb = "write" => Beside(v, Target.profile, task.before, memory)
  <2>1. ASSUME v.verb = "write"
        PROVE  /\ cmd.name \in Batches
               /\ Beside(v, Target.profile, task.before,
                         BatchLeaves(cmd, MeantOn(Target.profile, cmd.address), call.before))
    <3>1. /\ AsksFor(v, TaskCtx, task.got, cmd) /\ OfOneValue(v)
          /\ Left(v, Target.profile, task.before, task.got, call.before)
      BY <1>2 DEF IsAsking, v, cmd
    <3> QED
      BY <1>1, <2>1, <3>1, WriteLeaves
  <2> QED
    BY <1>5, <2>1
<1>10. Left(v, Target.profile, task.before, got, memory)
  BY <1>4, <1>9 DEF Left
<1> QED
  BY <1>4, <1>8, <1>10 DEF v

LEMMA ProceedIsValued ==
    ASSUME CallsInv, BatchInv, ValueInv, Proceed
    PROVE  ValueInv'
<1>1. /\ Is("waiting") /\ phase = "idle" /\ UNCHANGED <<plant, memory, state, outcome>>
      /\ task' = IF outcome.kind \in {"returned", "silent"}
                 THEN [task EXCEPT !.at = "next", !.got = Append(@, outcome.values)]
                 ELSE [task EXCEPT !.at = "over"]
      /\ ~Is("none") /\ ~Is("over") /\ TaskWell
  BY DEF Proceed, planVars, vars, Is, CallsInv
<1>2. outcome'.kind # "value"
  BY <1>1 DEF ValueInv
<1>3. CASE outcome.kind \in {"returned", "silent"}
  <2> DEFINE got == Append(task.got, outcome.values)
  <2>1. /\ task'.at = "next" /\ task'.entry = task.entry /\ task'.verb = task.verb
        /\ task'.got = got /\ task'.before = task.before
    BY <1>1, <1>3, TaskParts
  <2>2. ThePlant' = ThePlant /\ Target' = Target /\ TaskCtx' = TaskCtx
    BY <1>1, <2>1, SameTarget
  <2>3. ASSUME ~ThePlant.stale, OfOneValue(task.verb)
        PROVE  /\ Left(task.verb, Target.profile, task.before, got, memory)
               /\ Answered(task.verb, TaskCtx, Target.profile, got, memory, state)
               /\ \E S : got \in Seq(S)
    BY <1>1, <1>3, <2>3, AnswerIsUsed
  <2> HIDE DEF got
  <2>4. ASSUME ~ThePlant.stale, OfOneValue(task.verb) PROVE HasAsked'
    BY <1>1, <2>1, <2>2, <2>3, <2>4 DEF HasAsked
  <2>5. OneValueStands' /\ Shows'
    BY <1>2, <2>1, <2>2, <2>3, <2>4 DEF OneValueStands, Shows, Is
  <2> QED
    BY <1>2, <2>5 DEF ValueInv
<1>4. CASE outcome.kind \notin {"returned", "silent"}
  <2>1. /\ task'.at = "over" /\ task'.entry = task.entry /\ task'.verb = task.verb
        /\ task'.got = task.got /\ task'.before = task.before
    BY <1>1, <1>4, TaskParts
  <2>2. ThePlant' = ThePlant
    BY <1>1, SameTarget
  <2>3. OneValueStands' /\ Shows'
    BY <1>1, <1>2, <2>1, <2>2 DEF ValueInv, OneValueStands, Shows, Is
  <2> QED
    BY <1>2, <2>3 DEF ValueInv
<1> QED
  BY <1>3, <1>4

\* Every step of Calls.
LEMMA CallsNextIsValued ==
    ASSUME StatusIsMeant, CallsInv, BatchInv, ValueInv, SentAsMeant, [CallsNext]_callVars
    PROVE  ValueInv'
<1>1. CASE Is("none") /\ BlockNext /\ UNCHANGED task
  BY <1>1, NoValueInABlock DEF ValueInv, Shows, OneValueStands, Is, NoValueYet
<1>2. ASSUME Is("none"), NEW e, NEW v, Enter(e, v) PROVE ValueInv'
  BY <1>2, EnterIsValued
<1>3. CASE Decide
  BY <1>3, RequestIsValued, TellIsValued DEF Decide
<1>4. CASE Await
  BY <1>4, AwaitIsValued
<1>5. CASE Proceed
  BY <1>5, ProceedIsValued
<1>6. CASE UNCHANGED callVars
  <2>1. UNCHANGED <<plant, memory, state, call, phase, outcome, task>>
    BY <1>6 DEF callVars, planVars, vars
  <2>2. ThePlant' = ThePlant /\ Target' = Target /\ TaskCtx' = TaskCtx
    BY <2>1, SameTarget
  <2>3. IsAsking' = IsAsking /\ HasAsked' = HasAsked /\ HasTold' = HasTold
    BY <2>1, <2>2 DEF IsAsking, HasAsked, HasTold
  <2> QED
    BY <2>1, <2>2, <2>3 DEF ValueInv, Shows, OneValueStands, Is
<1> QED
  BY <1>1, <1>2, <1>3, <1>4, <1>5, <1>6 DEF CallsNext

\* A verb of one value that returns has told the truth of the CPU and left it as it was told
\* to: a value read, in the caller's word order and with its sign, is what a person who looks
\* at its registers would say, a verified write is there and, verified or not, nowhere else,
\* SD203 is what the CPU does and a verified remote command was obeyed; over any entry of any
\* CPU that answers in order, in every coding and frame (Plc's read_*, write_*, cpu_status and
\* RemoteControl of client.py).
THEOREM OneValueIsWhatIsThere ==
    ASSUME StatusIsMeant
    PROVE  CallsSpec /\ []SentAsMeant =>
               [](~ThePlant.stale /\ OfOneValue(task.verb) => TypedIsWhatIsThere)
<1>1. CallsInit => CallsInv /\ BatchInv /\ ValueInv
  <2>1. CallsInit => outcome.kind # "value" /\ Is("none")
    BY KindsOfOutcome DEF CallsInit, BlockInit, WireInit, NoTask, Is
  <2> QED
    BY <2>1, CallsBeginWell, CallsBeginTold DEF ValueInv, Shows, OneValueStands, Is
<1>2. SentAsMeant => MessagesFit
  BY DEF SentAsMeant
<1>3. SentAsMeant' => MessagesFit'
  BY DEF SentAsMeant
<1>4. CallsInv /\ BatchInv /\ ValueInv /\ SentAsMeant /\ SentAsMeant' /\ [CallsNext]_callVars
          => CallsInv' /\ BatchInv' /\ ValueInv'
  BY <1>2, <1>3, CallsNextIsWell, CallsNextTells, CallsNextIsValued DEF CallWell
<1>5. ValueInv => (~ThePlant.stale /\ OfOneValue(task.verb) => TypedIsWhatIsThere)
  BY ToldIsWell DEF ValueInv, OneValueStands, HasTold, TypedIsWhatIsThere, Is
<1> QED
  BY <1>1, <1>4, <1>5, PTL DEF CallsSpec
=============================================================================
