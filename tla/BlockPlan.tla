------------------------------ MODULE BlockPlan ------------------------------
(***************************************************************************)
(* Bound blocks on the wire: BlockPlan, SplitBlockPlan and their _Reader   *)
(* and _Writer (src/aslmp/blocks/plan.py), over the requests and answers   *)
(* of Wire.  A plan is bound and read at once: nothing that bind() looks   *)
(* at changes afterwards, and the guard against another CPU behind the     *)
(* same client (_check_target) is a matter of Supervisor's SameCpu.        *)
(***************************************************************************)
EXTENDS Wire, BlockLayout

CONSTANTS
    BlockReads(_, _),   \* the bindings the n-th call may read, by the entry it comes to
    BlockWrites(_, _)   \* [block, given]: the blocks it may write fields of

VARIABLE plan   \* what is being done with which block

planVars == <<plan, vars>>

NoPlan == [doing |-> "none"]
Reading == plan.doing = "read"

BlockInit == WireInit /\ plan = NoPlan

\* A call that came to no command.
NoCommand == ReadRandomOf(<<>>)

\* `bind` refuses, or prebuilds the requests; nothing is sent.
Bind(e, b) ==
    /\ phase = "idle" /\ ~Reading /\ calls < MaxCalls
    /\ \E ctx \in {ThePlant.entries[e].ctx} : \E fault \in {BindFault(b, ctx)} :
          IF fault # "none" THEN RefuseToSend(e, NoCommand, fault) /\ plan' = NoPlan
          ELSE /\ plan' = [doing |-> "read", entry |-> e, binding |-> b, readers |-> Readers(b, ctx),
                           next |-> 1, into |-> NoBits, before |-> memory]
               /\ outcome' = NoOutcome
               /\ UNCHANGED <<plant, memory, state, calls, call, phase, wire, segment, acc, last>>

TheReader == plan.readers[plan.next]

\* `_Reader.__init__` builds the frame with serial 0, `request` patches two units of it.
Prebuilt(entry, reader) ==
    RequestUnits(entry, ReaderCommand(reader), IF entry.frame.carries_serial THEN 0 ELSE NoSerial)

Patched(entry, units, serial) ==
    LET width == NumberLen(entry.ctx.codec, 16) IN
    IF serial = NoSerial THEN units
    ELSE SubSeq(units, 1, width) \o Number(entry.ctx.codec, serial, 16)
             \o SubSeq(units, 2 * width + 1, Len(units))

\* `_one`, up to the exchange.
RequestPart ==
    /\ Reading
    /\ \E entry \in {ThePlant.entries[plan.entry]} :
       \E serial \in {SerialFor(entry.frame, calls + 1)} :
          /\ Begin(plan.entry, ReaderCommand(TheReader), serial)
          /\ wire' = Patched(entry, Prebuilt(entry, TheReader), serial)
          /\ acc' = Accumulator(entry.frame, entry.ctx.codec, serial)
    /\ phase' = "asked"
    /\ UNCHANGED <<segment, outcome, plan>>

\* An exchange that fails is the end of the read, with nothing returned.
GivenUp(o) == End(o) /\ plan' = NoPlan

\* The values go to what the parts before gave, and after the last part to the caller.
Fill(values) ==
    \E into \in {values @@ plan.into} :
        IF plan.next = Len(plan.readers)
        THEN End(Outcome("block", "none", into)) /\ plan' = [plan EXCEPT !.doing = "done", !.into = into]
        ELSE End(NoOutcome) /\ plan' = [plan EXCEPT !.next = @ + 1, !.into = into]

\* `_one`, from the answer on.
DecodePart ==
    /\ phase = "answered" /\ Reading /\ BytesNeeded(acc) = 0
    /\ \E fault \in {TakeFault(acc)}, response \in {Taken(acc)} :
          CASE fault # "none" -> GivenUp(Outcome("protocol", fault, <<>>))
            [] response.end_code # 0 -> GivenUp(Outcome("end_code", "none", <<response.end_code>>))
            [] OTHER -> \E misfit \in {FillFault(TheReader, response.payload, acc.codec)} :
                           IF misfit # "none" THEN GivenUp(Outcome("decode", misfit, <<>>))
                           ELSE Fill(Filled(TheReader, Image(TheReader, response.payload, acc.codec)))
    /\ UNCHANGED <<plant, memory, state, calls, call, last>>

\* `_Writer.write`: one command, which then goes the way of every command.
WriteFields(e, w) ==
    /\ ~Reading /\ calls < MaxCalls
    /\ plan' = [doing |-> "write", entry |-> e, block |-> w.block, given |-> w.given, before |-> memory]
    /\ \E ctx \in {ThePlant.entries[e].ctx} :
       \E fault \in {BindFault(Binding(w.block, NoClock, FALSE), ctx) ?? BlockWriteFault(w.block, w.given)} :
          IF fault # "none" THEN RefuseToSend(e, NoCommand, fault)
          ELSE \E cmd \in {BlockWriteCommand(w.block, ctx, w.given)} : Ask(e, cmd)

\* A call of its own begins after the block is done with, and a part may fail on its way.
AsideFromBlocks ==
    /\ IF Reading THEN Travel ELSE WireNext
    /\ plan' = IF calls' # calls \/ (Reading /\ phase' = "idle") THEN NoPlan ELSE plan

BlockNext ==
    \/ AsideFromBlocks
    \/ \E e \in DOMAIN ThePlant.entries : \E entry \in {ThePlant.entries[e]} :
          \/ \E b \in BlockReads(calls + 1, entry) : Bind(e, b)
          \/ \E w \in BlockWrites(calls + 1, entry) : WriteFields(e, w)
    \/ RequestPart
    \/ DecodePart

-----------------------------------------------------------------------------
(***************************************************************************)
(* What a declaration says, read from the top: a field without an address  *)
(* of its own begins where the one before it ends.                         *)
(***************************************************************************)

\* The bit a field is, or the first of its registers.
Begins(block, i) ==
    LET autos == {j \in 1 .. i - 1 : block.fields[j].address = RunningBase}
        span[j \in 0 .. i - 1] ==
            IF j = 0 THEN 0 ELSE span[j - 1] + IF j \in autos THEN block.fields[j].spec.words ELSE 0
    IN  IF block.fields[i].address # RunningBase THEN Meant(block.fields[i].address)
        ELSE [Meant(block.base) EXCEPT !.index = @ + span[i - 1]]

\* What a person who looks at the registers would say: of a text, what is before its
\* first NUL and, where it has a length, within it; of a number, what its sign is and,
\* if it was stored so, its higher word first.
Octets(words) == [k \in 1 .. 2 * Len(words) |-> IF k % 2 = 1 THEN words[(k + 1) \div 2] % 256
                                                 ELSE words[k \div 2] \div 256]
Spelled(octets, length) ==
    SubSeq(octets, 1, Min({k \in DOMAIN octets : octets[k] = 0} \cup {length + 1}) - 1)
HalfSigned(word) == IF word >= 32768 THEN word - 65536 ELSE word

ValueThere(m, block, i) ==
    LET spec == block.fields[i].spec
        Read(words) ==
            CASE spec.form = "string" -> Spelled(Octets(words), 2 * spec.words)
              [] spec.form = "text" -> Spelled(Octets(words), spec.length)
              [] spec.words = 4 -> <<words[2] * 65536 + words[1], words[4] * 65536 + words[3]>>
              [] spec.kind = "i32" -> <<HalfSigned(words[2]) * 65536 + words[1]>>
              [] spec.kind \in {"u32", "f32"} /\ spec.words = 2 -> <<words[2] * 65536 + words[1]>>
              [] spec.kind = "i16" -> <<HalfSigned(words[1])>>
              [] OTHER -> words
        Ordered(words) ==
            IF IsWide(spec) /\ block.word_order = "high-first" THEN Reverse(words) ELSE words
        Seen(at) ==
            IF spec.form = "bit" THEN BitsFrom(m, at, 1)
            ELSE Read(Ordered(WordsFrom(m, at, spec.words)))
    IN  Seen(Begins(block, i))

\* The cells that belong to a field: of a bit device a register is sixteen.
CellsOf(block, i) ==
    LET spec == block.fields[i].spec
        Extent(dt) == IF spec.form = "bit" THEN 1
                      ELSE IF dt.unit = "bit" THEN 16 * spec.words ELSE spec.words
        From(at) == {Cell(at.type, at.index + k - 1) : k \in 1 .. Extent(at.type)}
    IN  From(Begins(block, i))

GivenNames(w) == {w.given[k].name : k \in DOMAIN w.given}
GivenValue(w, name) == w.given[CHOOSE k \in DOMAIN w.given : w.given[k].name = name].value

-----------------------------------------------------------------------------
(***************************************************************************)
(* Properties.                                                             *)
(***************************************************************************)

\* A block that is read has in every field what the CPU held where the class
\* declares it, whatever the order its points travel in, the windows its bits were
\* folded into, the coding, and the requests it was split over; and every field is
\* there (bind, _Reader.fill).
BlockIsWhatIsDeclared ==
    phase = "idle" /\ outcome.kind = "block" =>
        LET block == plan.binding.block IN
        /\ Names(block) \subseteq DOMAIN outcome.values
        /\ \A i \in Fields(block) :
              outcome.values[block.fields[i].name] = ValueThere(plan.before, block, i)
        /\ \A k \in DOMAIN plan.binding.clock :
              outcome.values[CLOCK][1] =
                  ValueThere(plan.before,
                      PlcBlock(plan.binding.clock[k].address,
                               <<FieldPlan(CLOCK, plan.binding.clock[k].spec, RunningBase)>>), 1)[1]

\* A write that returns has left in the fields it was given what it was given, and
\* every other cell of the CPU as it was, the block's own other fields among them
\* (_Writer.write, _write_points).
BlockWriteIsItsFields ==
    phase = "idle" /\ outcome.kind = "returned" /\ plan.doing = "write" =>
        LET block == plan.block
            named == {i \in Fields(block) : block.fields[i].name \in GivenNames(plan)}
        IN  /\ \A i \in named :
                  ValueThere(memory, block, i) = GivenValue(plan, block.fields[i].name)
            /\ \A cell \in (DOMAIN memory \cup DOMAIN plan.before) \ UNION {CellsOf(block, i) : i \in named} :
                  Held(memory, cell) = Held(plan.before, cell)
=============================================================================
