------------------------------ MODULE Commands ------------------------------
(***************************************************************************)
(* The table of src/aslmp/commands/registry.py, and the methods of Command *)
(* (commands/base.py) on whichever command it is.                          *)
(***************************************************************************)
EXTENDS AccessCommands, ControlCommands

CommandSpec(code, mutates, commands) ==
    [code |-> code, mutates |-> mutates, commands |-> commands]

COMMANDS ==
    {CommandSpec(257,  FALSE, {"ReadTypeName"}),
     CommandSpec(1025, FALSE, {"ReadWords", "ReadBits"}),
     CommandSpec(1027, FALSE, {"ReadRandom"}),
     CommandSpec(1030, FALSE, {"ReadBlocks"}),
     CommandSpec(1561, FALSE, {"SelfTest"}),
     CommandSpec(2049, TRUE,  {"RegisterMonitor"}),
     CommandSpec(2050, FALSE, {"ExecuteMonitor"}),
     CommandSpec(4097, TRUE,  {"RemoteRun"}),
     CommandSpec(4098, TRUE,  {"RemoteStop"}),
     CommandSpec(4099, TRUE,  {"RemotePause"}),
     CommandSpec(4101, TRUE,  {"RemoteLatchClear"}),
     CommandSpec(4102, TRUE,  {"RemoteReset"}),
     CommandSpec(5121, TRUE,  {"WriteWords", "WriteBits"}),
     CommandSpec(5122, TRUE,  {"WriteRandom", "WriteRandomBits"}),
     CommandSpec(5126, TRUE,  {"WriteBlocks"}),
     CommandSpec(5655, TRUE,  {"ClearError"}),
     CommandSpec(5680, TRUE,  {"UnlockPassword"}),
     CommandSpec(5681, TRUE,  {"LockPassword"})}

Row(cmd) == CHOOSE row \in COMMANDS : cmd.name \in row.commands
\* `_RawCommand`: what the caller says it is, checked for nothing.
RawCommandOf(command, subcommand, data, mutates, silent) ==
    [name |-> "Raw", command |-> command, subcommand |-> subcommand, data |-> data,
     mutates |-> mutates, silent |-> silent]

Code(cmd) == IF cmd.name = "Raw" THEN cmd.command ELSE Row(cmd).code

\* A fault for Mutates: what puts nothing into a device is taken for a read.
MutatesDevices(cmd) == Row(cmd).mutates /\ cmd.name # "RegisterMonitor"

\* `mutates`.
Mutates(cmd) == IF cmd.name = "Raw" THEN cmd.mutates ELSE Row(cmd).mutates

\* `response_optional`: a CPU that resets may not answer.
ResponseOptional(cmd) == cmd.name = "RemoteReset" \/ (cmd.name = "Raw" /\ cmd.silent)

\* In bit units only where the command says so; a command without devices has 0.
SubcommandOf(cmd, ctx) ==
    CASE cmd.name \in Batches -> Subcommand(BatchUnit(cmd), ctx.spec)
      [] cmd.name = "Raw" -> cmd.subcommand
      [] cmd.name = "WriteRandomBits" -> Subcommand("bit", ctx.spec)
      [] cmd.name \in {"ReadRandom", "WriteRandom", "ReadBlocks", "WriteBlocks", "RegisterMonitor"}
            -> Subcommand("word", ctx.spec)
      [] OTHER -> 0

\* What the constructor of a command refuses.
ValuesFault(cmd) ==
    CASE cmd.name \in Batches -> BatchValues(cmd)
      [] cmd.name \in {"ReadBlocks", "WriteBlocks"} -> BlockValues(cmd)
      [] cmd.name = "Raw" -> Refuse(~({cmd.command, cmd.subcommand} \subseteq 0 .. UINT16_MAX), "configuration")
      [] OTHER -> "none"

\* `validate`.
Validate(cmd, ctx) ==
    CASE cmd.name \in Batches -> ValidateBatch(cmd, ctx)
      [] cmd.name \in {"ReadRandom", "WriteRandom"}
            -> ValidatePoints(cmd.points, ctx, "random-access", "random", Code(cmd))
      [] cmd.name = "RegisterMonitor"
            -> ValidatePoints(cmd.points, ctx, "monitor", "monitor", 1027)
      [] cmd.name = "ExecuteMonitor" -> ValidateExecute(cmd, ctx)
      [] cmd.name = "WriteRandomBits" -> ValidateRandomBits(cmd, ctx)
      [] cmd.name \in {"ReadBlocks", "WriteBlocks"} -> ValidateBlocks(cmd, ctx)
      [] cmd.name \in Remotes -> ValidateRemote(cmd, ctx)
      [] cmd.name = "ReadTypeName" -> Require(ctx.profile, "read-type-name")
      [] cmd.name = "SelfTest" -> ValidateSelfTest(cmd, ctx)
      [] cmd.name = "ClearError" -> Require(ctx.profile, "clear-error")
      [] cmd.name \in Passwords -> ValidatePassword(cmd, ctx)
      [] cmd.name = "Raw" -> "none"

\* `payload_len`: the length the command declares, computed without encoding.
PayloadLen(cmd, ctx) ==
    CASE cmd.name \in Batches -> BatchPayloadLen(cmd, ctx)
      [] cmd.name \in {"ReadRandom", "RegisterMonitor"} -> PointSpecsLen(cmd.points, ctx)
      [] cmd.name = "WriteRandom" -> WriteRandomLen(cmd.points, ctx)
      [] cmd.name = "WriteRandomBits" -> RandomBitsLen(cmd, ctx)
      [] cmd.name \in {"ReadBlocks", "WriteBlocks"} -> BlocksPayloadLen(cmd, ctx)
      [] cmd.name \in Remotes -> RemoteLen(cmd, ctx)
      [] cmd.name = "SelfTest" -> SelfTestLen(cmd, ctx)
      [] cmd.name \in Passwords -> PasswordLen(cmd, ctx)
      [] cmd.name = "Raw" -> Len(cmd.data)
      [] OTHER -> 0

\* The devices a command names, for the refusals of their encoding.
Named(cmd) ==
    CASE cmd.name \in Batches -> <<cmd.address>>
      [] cmd.name \in {"ReadRandom", "WriteRandom", "RegisterMonitor"}
            -> [i \in DOMAIN cmd.points |-> cmd.points[i].address]
      [] cmd.name = "WriteRandomBits" -> [i \in DOMAIN cmd.writes |-> cmd.writes[i].address]
      [] cmd.name \in {"ReadBlocks", "WriteBlocks"}
            -> [i \in DOMAIN cmd.blocks |-> cmd.blocks[i].address]
      [] OTHER -> <<>>

\* In which order they go on the wire.
NamingOrder(cmd, ctx) ==
    CASE cmd.name \in {"ReadRandom", "WriteRandom", "RegisterMonitor"} -> SplitPoints(cmd.points)
      [] cmd.name \in {"ReadBlocks", "WriteBlocks"} -> BlockOrder(cmd.blocks, ctx)
      [] OTHER -> [i \in DOMAIN Named(cmd) |-> i]

\* What `encode` refuses of a command that validated: a device, or the value behind it.
EncodeFault(cmd, ctx) ==
    LET order == NamingOrder(cmd, ctx)
        ItemFault(i) ==
            SpecFault(ctx, Named(cmd)[i])
            ?? (IF cmd.name = "WriteRandom" THEN WireValueFault(cmd.points[i]) ELSE "none")
    IN  FirstFault(Len(order), LAMBDA k : ItemFault(order[k]))
        ?? (IF cmd.name \in FixedFields THEN FixedFault(cmd, ctx) ELSE "none")

\* `encode`.
Encode(cmd, ctx) ==
    CASE cmd.name \in Batches -> EncodeBatch(cmd, ctx)
      [] cmd.name \in {"ReadRandom", "RegisterMonitor"} -> PointSpecs(cmd.points, ctx)
      [] cmd.name = "WriteRandom" -> EncodeWriteRandom(cmd.points, ctx)
      [] cmd.name = "WriteRandomBits" -> EncodeRandomBits(cmd, ctx)
      [] cmd.name \in {"ReadBlocks", "WriteBlocks"} -> EncodeBlocks(cmd, ctx)
      [] cmd.name \in Remotes -> EncodeRemote(cmd, ctx)
      [] cmd.name = "SelfTest" -> EncodeSelfTest(cmd, ctx)
      [] cmd.name \in Passwords -> EncodePassword(cmd, ctx)
      [] cmd.name = "Raw" -> cmd.data
      [] OTHER -> <<>>

\* `checked_encode`: a payload of another length than was declared is not sent.
CheckedEncodeFault(cmd, ctx) ==
    EncodeFault(cmd, ctx)
    ?? Refuse(PayloadLen(cmd, ctx) # Len(Encode(cmd, ctx)), "configuration")

\* How many units an answer to it has.
AnswerLen(cmd, ctx) ==
    CASE cmd.name \in Batches -> BatchAnswerLen(cmd, ctx)
      [] cmd.name = "ReadRandom" -> PointAnswerLen(cmd.points, ctx.codec)
      [] cmd.name = "ExecuteMonitor" -> PointAnswerLen(cmd.registration.points, ctx.codec)
      [] cmd.name \in {"ReadBlocks", "WriteBlocks"} -> BlocksAnswerLen(cmd, ctx)
      [] cmd.name = "ReadTypeName" -> TypeNameLen(ctx)
      [] cmd.name = "SelfTest" -> SelfTestLen(cmd, ctx)
      [] OTHER -> 0

\* `decode`, where the answer has the right length: nothing at all for a write.
Decode(cmd, payload, ctx) ==
    CASE cmd.name \in Batches -> DecodeBatch(cmd, payload, ctx)
      [] cmd.name = "ReadRandom" -> DecodePointValues(cmd.points, payload, ctx)
      [] cmd.name = "ExecuteMonitor" -> DecodePointValues(cmd.registration.points, payload, ctx)
      [] cmd.name \in {"ReadBlocks", "WriteBlocks"} -> DecodeBlocks(cmd, payload, ctx)
      [] cmd.name = "ReadTypeName" -> <<DecodeTypeName(payload, ctx)>>
      [] cmd.name = "SelfTest" -> cmd.payload
      [] cmd.name = "Raw" -> payload
      [] OTHER -> <<>>

\* `checked_decode`: a shape that is not this command's, or units that are no number.
DecodeFault(cmd, payload, ctx) ==
    Refuse(cmd.name # "Raw" /\ Len(payload) # AnswerLen(cmd, ctx), "shape")
    ?? CASE cmd.name = "ReadBits" -> Refuse(Decode(cmd, payload, ctx) = NoPoints, "format")
         [] cmd.name \in {"ReadWords", "ReadRandom", "ExecuteMonitor", "ReadBlocks"}
               -> Refuse(~Legible(ctx.codec, payload), "format")
         [] cmd.name = "ReadTypeName"
               -> Refuse(DecodeTypeName(payload, ctx).model_code = NoNumber, "format")
         [] cmd.name = "SelfTest" -> Refuse(~SelfTestEcho(cmd, payload, ctx), "shape")
         [] OTHER -> "none"
=============================================================================
