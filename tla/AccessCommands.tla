--------------------------- MODULE AccessCommands ---------------------------
(***************************************************************************)
(* The commands that read and write devices: src/aslmp/commands/batch.py,  *)
(* random.py, block.py and monitor.py.  A command is a record; for each    *)
(* there is what refuses it before anything is sent, the length its        *)
(* payload is declared to have, the payload, and what an answer means.     *)
(* An f32 point is its 32-bit pattern.                                     *)
(***************************************************************************)
EXTENDS CommandBase

-----------------------------------------------------------------------------
(***************************************************************************)
(* Batch: 0401 and 1401.                                                   *)
(***************************************************************************)

ReadWordsOf(address, count) == [name |-> "ReadWords", address |-> address, count |-> count]
ReadBitsOf(address, count) == [name |-> "ReadBits", address |-> address, count |-> count]
WriteWordsOf(address, values) == [name |-> "WriteWords", address |-> address, values |-> values]
WriteBitsOf(address, values) == [name |-> "WriteBits", address |-> address, values |-> values]

Batches == {"ReadWords", "ReadBits", "WriteWords", "WriteBits"}
BatchUnit(cmd) == IF cmd.name \in {"ReadBits", "WriteBits"} THEN "bit" ELSE "word"
BatchCode(cmd) == IF cmd.name \in {"ReadWords", "ReadBits"} THEN 1025 ELSE 5121
BatchPoints(cmd) ==
    IF cmd.name \in {"ReadWords", "ReadBits"} THEN cmd.count ELSE Len(cmd.values)

\* A register that holds no such value is refused before the command exists.
BatchValues(cmd) ==
    IF cmd.name = "WriteWords"
    THEN FirstFault(Len(cmd.values), LAMBDA i : UnsignedFault(cmd.values[i], 16, "raw"))
    ELSE "none"

ValidateBatch(cmd, ctx) ==
    LET address == Resolve(ctx, cmd.address)
        n       == BatchPoints(cmd)
        key     == <<BatchCode(cmd), ctx.encoding, BatchUnit(cmd), ctx.link>>
    IN  Require(ctx.profile, "batch-access")
        ?? RequireSpec(ctx)
        ?? ResolveFault(ctx, cmd.address)
        ?? Refuse("batch" \notin address.type.uses, "not_allowed")
        ?? CheckSpan(ctx, address, n, BatchUnit(cmd))
        ?? CheckPoints(ctx.profile, key,
                       IF BatchUnit(cmd) = "bit" THEN Points(0, 0, n, 0) ELSE Points(n, 0, 0, 0))

BatchHeadLen(ctx) == SpecLen(ctx) + NumberLen(ctx.codec, 16)
BatchHead(cmd, ctx) == SpecOf(ctx, cmd.address) \o Number(ctx.codec, BatchPoints(cmd), 16)

BatchDataLen(cmd, ctx) ==
    IF BatchUnit(cmd) = "bit" THEN BitDataLen(ctx.codec, BatchPoints(cmd))
                              ELSE WordDataLen(ctx.codec, BatchPoints(cmd))

BatchPayloadLen(cmd, ctx) ==
    BatchHeadLen(ctx) + (IF BatchCode(cmd) = 5121 THEN BatchDataLen(cmd, ctx) ELSE 0)

EncodeBatch(cmd, ctx) ==
    BatchHead(cmd, ctx) \o
    CASE cmd.name = "WriteWords" -> Words(ctx.codec, cmd.values)
      [] cmd.name = "WriteBits"  -> Bits(ctx.codec, cmd.values)
      [] OTHER -> <<>>

BatchAnswerLen(cmd, ctx) == IF BatchCode(cmd) = 1025 THEN BatchDataLen(cmd, ctx) ELSE 0

DecodeBatch(cmd, payload, ctx) ==
    CASE cmd.name = "ReadWords" -> ReadWords(ctx.codec, payload, 0, cmd.count)
      [] cmd.name = "ReadBits"  -> ReadBits(ctx.codec, payload, 0, cmd.count)
      [] OTHER -> <<>>

-----------------------------------------------------------------------------
(***************************************************************************)
(* Random: 0403, 1402 and, for the points of a monitor, 0801.              *)
(***************************************************************************)

MAX_POINT_COUNT_FIELD == 255

RandomPoint(address, kind) == [address |-> address, kind |-> kind]
DwordKinds == {"u32", "i32", "f32"}
PointWords(point) == IF point.kind \in DwordKinds THEN 2 ELSE 1
PointBits(point) == 16 * PointWords(point)

\* `_POINT_DOMAINS`: what a point of this kind holds.
PointDomain(point) ==
    CASE point.kind \in {"i16", "i32"} -> "signed"
      [] point.kind \in {"u16", "u32"} -> "unsigned"
      [] OTHER -> "raw"

\* A fault for SplitPoints: the order of the caller.
SplitAsGiven(points) == [i \in DOMAIN points |-> i]

\* `split_points`: words first.
SplitPoints(points) == WireOrder(Len(points), LAMBDA i : PointWords(points[i]) = 1)

HowMany(points, words) == Cardinality({i \in DOMAIN points : PointWords(points[i]) = words})

PointCounts(points, ctx) ==
    Number(ctx.codec, HowMany(points, 1), 8) \o Number(ctx.codec, HowMany(points, 2), 8)

PointSpecs(points, ctx) ==
    LET order == SplitPoints(points) IN
    PointCounts(points, ctx)
        \o FlattenSeq([k \in DOMAIN order |-> SpecOf(ctx, points[order[k]].address)])

PointSpecsLen(points, ctx) == 2 * NumberLen(ctx.codec, 8) + Len(points) * SpecLen(ctx)

\* `RANDOM_FAMILIES` and, without the long current values, `MONITOR_FAMILIES`.
LongCurrentValues == {Device_LTN, Device_LSTN, Device_LCN}
Allowed(access, dt) == access \in dt.uses /\ (access = "monitor" => dt \notin LongCurrentValues)

\* One double word is two device numbers here, whatever the width of the device.
PointFault(ctx, point, access) ==
    LET Placed(address) ==
            Refuse(~Allowed(access, address.type), "not_allowed")
            ?? Refuse(point.kind = "bits" /\ address.type.unit # "bit", "not_allowed")
            ?? CheckSpan(ctx, address, PointWords(point), "word")
    IN  ResolveFault(ctx, point.address) ?? Placed(Resolve(ctx, point.address))

ValidatePoints(points, ctx, capability, access, limit_command) ==
    Require(ctx.profile, capability)
    ?? RequireSpec(ctx)
    ?? FirstFault(Len(points), LAMBDA i : PointFault(ctx, points[i], access))
    ?? Refuse(\E w \in {1, 2} : HowMany(points, w) > MAX_POINT_COUNT_FIELD, "point_limit")
    ?? CheckPoints(ctx.profile, <<limit_command, ctx.encoding, "word", ctx.link>>,
                   Points(HowMany(points, 1), HowMany(points, 2), 0, 0))

PointAnswerLen(points, c) ==
    HowMany(points, 1) * NumberLen(c, 16) + HowMany(points, 2) * NumberLen(c, 32)

DecodeOne(point, raw) ==
    CASE point.kind \in {"i16", "i32"} -> <<Signed(raw, PointBits(point))>>
      [] point.kind = "bits" -> [b \in 1 .. 16 |-> (raw \div 2 ^ (b - 1)) % 2]
      [] OTHER -> <<raw>>

\* The values in the caller's order.
DecodePointValues(points, payload, ctx) ==
    LET order == SplitPoints(points)
        LenOf(i) == NumberLen(ctx.codec, PointBits(points[i]))
        raw(i) == ReadNumber(ctx.codec, payload, FieldOffset(order, i, LenOf), PointBits(points[i]))
    IN  [i \in DOMAIN points |-> DecodeOne(points[i], raw(i))]


ReadRandomOf(points) == [name |-> "ReadRandom", points |-> points]

\* A write is a point and its value; the bits of a window cannot be written.
RandomWrite(address, kind, value) == [address |-> address, kind |-> kind, value |-> value]
WriteRandomOf(writes) == [name |-> "WriteRandom", points |-> writes]

WireValueFault(write) ==
    IF write.kind = "f32" THEN "none"
    ELSE UnsignedFault(write.value, PointBits(write), PointDomain(write))

WriteRandomLen(writes, ctx) ==
    PointSpecsLen(writes, ctx) + PointAnswerLen(writes, ctx.codec)

EncodeWriteRandom(writes, ctx) ==
    LET order == SplitPoints(writes)
        put(write) == SpecOf(ctx, write.address) \o Number(ctx.codec, write.value, PointBits(write))
    IN  PointCounts(writes, ctx) \o FlattenSeq([k \in DOMAIN order |-> put(writes[order[k]])])

-----------------------------------------------------------------------------
(***************************************************************************)
(* Random bits: 1402 in bit units, one number per bit.                     *)
(***************************************************************************)

BitWrite(address, value) == [address |-> address, value |-> value]
WriteRandomBitsOf(writes) == [name |-> "WriteRandomBits", writes |-> writes]

\* `_value_bits`: the value has the width of the device code.
ValueBits(ctx) == IF ctx.spec = "short" THEN 8 ELSE 16

ValidateRandomBits(cmd, ctx) ==
    LET n == Len(cmd.writes)
        BitFault(i) ==
            LET address == Resolve(ctx, cmd.writes[i].address) IN
            ResolveFault(ctx, cmd.writes[i].address)
            ?? Refuse(~Allowed("random", address.type) \/ address.type.unit # "bit", "not_allowed")
            ?? CheckSpan(ctx, address, 1, "bit")
    IN  Require(ctx.profile, "random-access")
        ?? RequireSpec(ctx)
        ?? FirstFault(n, BitFault)
        ?? Refuse(n > MAX_POINT_COUNT_FIELD, "point_limit")
        ?? CheckPoints(ctx.profile, <<5122, ctx.encoding, "bit", ctx.link>>, Points(0, 0, n, 0))

RandomBitsLen(cmd, ctx) ==
    NumberLen(ctx.codec, 8)
        + Len(cmd.writes) * (SpecLen(ctx) + NumberLen(ctx.codec, ValueBits(ctx)))

EncodeRandomBits(cmd, ctx) ==
    LET put(write) == SpecOf(ctx, write.address) \o Number(ctx.codec, write.value, ValueBits(ctx)) IN
    Number(ctx.codec, Len(cmd.writes), 8)
        \o FlattenSeq([i \in DOMAIN cmd.writes |-> put(cmd.writes[i])])

-----------------------------------------------------------------------------
(***************************************************************************)
(* Blocks: 0406 and 1406.  A block of a bit device counts in words, and    *)
(* the word blocks travel first.                                           *)
(***************************************************************************)

BlockSpec(address, points) == [address |-> address, points |-> points]
ReadBlocksOf(blocks) == [name |-> "ReadBlocks", blocks |-> blocks]
BlockWrite(address, values) == [address |-> address, points |-> Len(values), values |-> values]
WriteBlocksOf(blocks) == [name |-> "WriteBlocks", blocks |-> blocks]

BlockValues(cmd) ==
    IF cmd.name = "ReadBlocks" THEN "none"
    ELSE FirstFault(Len(cmd.blocks), LAMBDA b :
             LET values == cmd.blocks[b].values IN
             FirstFault(Len(values), LAMBDA i : UnsignedFault(values[i], 16, "raw")))

LongCounterExclusions == {Device_LCS, Device_LCC, Device_LCN}

BlockCode(cmd) == IF cmd.name = "ReadBlocks" THEN 1030 ELSE 5126

IsBitBlock(ctx, block) == Resolve(ctx, block.address).type.unit = "bit"
BlockOrder(blocks, ctx) == WireOrder(Len(blocks), LAMBDA i : ~IsBitBlock(ctx, blocks[i]))
BitBlocks(blocks, ctx) == Cardinality({i \in DOMAIN blocks : IsBitBlock(ctx, blocks[i])})
BlockTotal(blocks) == SumUpTo(Len(blocks), LAMBDA i : blocks[i].points)

ValidateBlocks(cmd, ctx) ==
    LET blocks == cmd.blocks
        BlockFault(i) ==
            LET address == Resolve(ctx, blocks[i].address) IN
            ResolveFault(ctx, blocks[i].address)
            ?? Refuse("block" \notin address.type.uses \/ address.type \in LongCounterExclusions,
                      "not_allowed")
            ?? CheckSpan(ctx, address, blocks[i].points, "word")
        bits == BitBlocks(blocks, ctx)
    IN  Require(ctx.profile, "block-access")
        ?? RequireSpec(ctx)
        ?? FirstFault(Len(blocks), BlockFault)
        ?? Refuse(bits > 255 \/ Len(blocks) - bits > 255, "configuration")
        ?? CheckPoints(ctx.profile, <<BlockCode(cmd), ctx.encoding, "word", ctx.link>>,
                       Points(BlockTotal(blocks), 0, 0, Len(blocks)))

BlockHead(ctx, block) == SpecOf(ctx, block.address) \o Number(ctx.codec, block.points, 16)
BlockHeadLen(ctx) == SpecLen(ctx) + NumberLen(ctx.codec, 16)

BlocksPayloadLen(cmd, ctx) ==
    2 * NumberLen(ctx.codec, 8) + Len(cmd.blocks) * BlockHeadLen(ctx)
        + (IF cmd.name = "WriteBlocks" THEN WordDataLen(ctx.codec, BlockTotal(cmd.blocks)) ELSE 0)

EncodeBlocks(cmd, ctx) ==
    LET blocks == cmd.blocks
        order  == BlockOrder(blocks, ctx)
        bits   == BitBlocks(blocks, ctx)
        put(block) == BlockHead(ctx, block) \o
                      (IF cmd.name = "WriteBlocks" THEN Words(ctx.codec, block.values) ELSE <<>>)
    IN  Number(ctx.codec, Len(blocks) - bits, 8) \o Number(ctx.codec, bits, 8)
            \o FlattenSeq([k \in DOMAIN order |-> put(blocks[order[k]])])

BlocksAnswerLen(cmd, ctx) ==
    IF cmd.name = "ReadBlocks" THEN WordDataLen(ctx.codec, BlockTotal(cmd.blocks)) ELSE 0

DecodeBlocks(cmd, payload, ctx) ==
    LET blocks == cmd.blocks
        order  == BlockOrder(blocks, ctx)
        LenOf(i) == WordDataLen(ctx.codec, blocks[i].points)
        got(i) == ReadWords(ctx.codec, payload, FieldOffset(order, i, LenOf), blocks[i].points)
    IN  IF cmd.name = "WriteBlocks" THEN <<>> ELSE [i \in DOMAIN blocks |-> got(i)]

-----------------------------------------------------------------------------
(***************************************************************************)
(* Monitor: 0801 registers the points on the CPU, 0802 asks for them.  The *)
(* registration names the profile it was made for.                         *)
(***************************************************************************)

RegisterMonitorOf(points) == [name |-> "RegisterMonitor", points |-> points]
MonitorRegistration(points, ctx) == [points |-> points, profile_key |-> ctx.profile.key]
ExecuteMonitorOf(registration) == [name |-> "ExecuteMonitor", registration |-> registration]

ValidateExecute(cmd, ctx) ==
    LET points == cmd.registration.points IN
    Require(ctx.profile, "monitor")
    ?? Refuse(cmd.registration.profile_key # ctx.profile.key, "configuration")
    ?? FirstFault(Len(points), LAMBDA i :
           Refuse(~Allowed("monitor", Resolve(ctx, points[i].address).type), "not_allowed"))
=============================================================================
