-------------------------- MODULE ControlCommands --------------------------
(***************************************************************************)
(* The commands that name no device: src/aslmp/commands/remote.py, info.py *)
(* and password.py.  Their subcommand is 0.  A character that travels as   *)
(* itself is one unit in either coding: its code in binary, the character  *)
(* in ASCII.                                                               *)
(***************************************************************************)
EXTENDS CommandBase

-----------------------------------------------------------------------------
(***************************************************************************)
(* Remote control: 1001, 1002, 1003, 1005, 1006.                           *)
(***************************************************************************)

NOT_FORCED == 1
FORCED == 3

\* A fixed field of <<>> stands for the profile's.
RemoteRun(mode, clear) == [name |-> "RemoteRun", mode |-> mode, clear |-> clear]
RemotePause(mode) == [name |-> "RemotePause", mode |-> mode]
RemoteStop(fixed) == [name |-> "RemoteStop", fixed |-> fixed]
RemoteLatchClear(fixed) == [name |-> "RemoteLatchClear", fixed |-> fixed]
RemoteReset(fixed) == [name |-> "RemoteReset", fixed |-> fixed]

FixedFields == {"RemoteStop", "RemoteLatchClear", "RemoteReset"}
Remotes == FixedFields \cup {"RemoteRun", "RemotePause"}
RemoteCapability(cmd) == IF cmd.name = "RemoteReset" THEN "remote-reset" ELSE "remote-control"

\* Nothing moves the CPU unless the client was opened for it.
RequireInterlock(cmd, ctx) ==
    Refuse(~ctx.allow_remote_control, "configuration")
    ?? Require(ctx.profile, RemoteCapability(cmd))

ValidateRemote(cmd, ctx) ==
    RequireInterlock(cmd, ctx)
    ?? Refuse(cmd.name = "RemoteRun" /\ cmd.clear \notin ctx.profile.allowed_clear_modes,
              "configuration")

FixedField(cmd, ctx) == IF cmd.fixed = <<>> THEN ctx.profile.remote_fixed_field ELSE cmd.fixed
FixedFault(cmd, ctx) == Refuse(Len(FixedField(cmd, ctx)) # 2, "configuration")

RemoteLen(cmd, ctx) ==
    NumberLen(ctx.codec, 16) + (IF cmd.name = "RemoteRun" THEN 2 * NumberLen(ctx.codec, 8) ELSE 0)

\* The two bytes of the manual are one little-endian number.
EncodeRemote(cmd, ctx) ==
    CASE cmd.name = "RemoteRun" -> Number(ctx.codec, cmd.mode, 16)
                                   \o Number(ctx.codec, cmd.clear, 8) \o Number(ctx.codec, 0, 8)
      [] cmd.name = "RemotePause" -> Number(ctx.codec, cmd.mode, 16)
      [] OTHER -> Number(ctx.codec, FromLittleEndian(FixedField(cmd, ctx)), 16)

-----------------------------------------------------------------------------
(***************************************************************************)
(* Information: 0101, 0619, 1617.                                          *)
(***************************************************************************)

MODEL_NAME_UNITS == 16

ReadTypeName == [name |-> "ReadTypeName"]
SelfTest(payload) == [name |-> "SelfTest", payload |-> payload]
ClearError == [name |-> "ClearError"]

TypeNameLen(ctx) == MODEL_NAME_UNITS + NumberLen(ctx.codec, 16)

\* The model's name is characters, not digits, in both codings.
DecodeTypeName(payload, ctx) ==
    [model      |-> SubSeq(payload, 1, MODEL_NAME_UNITS),
     model_code |-> ReadNumber(ctx.codec, payload, MODEL_NAME_UNITS, 16)]

ValidateSelfTest(cmd, ctx) ==
    Require(ctx.profile, "self-test")
    ?? Refuse(~LoopbackPayloadOk(ctx.codec, cmd.payload), "configuration")

SelfTestLen(cmd, ctx) == NumberLen(ctx.codec, 16) + Len(cmd.payload)
EncodeSelfTest(cmd, ctx) == Number(ctx.codec, Len(cmd.payload), 16) \o cmd.payload

\* What comes back is what was sent, under a count that counts it.
SelfTestEcho(cmd, payload, ctx) ==
    LET head == NumberLen(ctx.codec, 16) IN
    /\ ReadNumber(ctx.codec, payload, 0, 16) = Len(payload) - head
    /\ SubSeq(payload, head + 1, Len(payload)) = cmd.payload

-----------------------------------------------------------------------------
(***************************************************************************)
(* The remote password: 1630 and 1631.                                     *)
(***************************************************************************)

MAX_PASSWORD_CHARS == 32

UnlockPassword(password) == [name |-> "UnlockPassword", password |-> password]
LockPassword(password) == [name |-> "LockPassword", password |-> password]

Passwords == {"UnlockPassword", "LockPassword"}

\* 21H to 7EH: the model's characters are codes, or capitals and digits.
Printable(c) == IF c = "binary" THEN 33 .. 126 ELSE Letter \cup HexDigit

ValidatePassword(cmd, ctx) ==
    Require(ctx.profile, "remote-password")
    ?? Refuse(Len(cmd.password) \notin 1 .. MAX_PASSWORD_CHARS, "configuration")
    ?? Refuse(~(Range(cmd.password) \subseteq Printable(ctx.codec)), "configuration")

PasswordLen(cmd, ctx) == NumberLen(ctx.codec, 16) + Len(cmd.password)
EncodePassword(cmd, ctx) == Number(ctx.codec, Len(cmd.password), 16) \o cmd.password
=============================================================================
