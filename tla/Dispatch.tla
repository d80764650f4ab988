------------------------------ MODULE Dispatch ------------------------------
(***************************************************************************)
(* What a CPU does with a request, unit by unit: the simulated CPU of      *)
(* src/aslmp/testing/dispatch.py, on the CPU models of testing/targets.py. *)
(* Cpu.tla has the same CPU without codings and limits.                    *)
(*                                                                         *)
(* A request is served in a context `s`: the target, the memory, the       *)
(* session's state, the coding, and what the subcommand says.  A handler   *)
(* is an outcome: the answer, and the memory and the state after it.       *)
(***************************************************************************)
EXTENDS SimMemory, Commands

-----------------------------------------------------------------------------
(***************************************************************************)
(* Targets.                                                                *)
(***************************************************************************)

\* `EndCodePolicy`: the code of each refusal, as the manual has it.
EndCodePolicy ==
    [unsupported_command |-> 49241, unsupported_subcommand |-> 49241,
     unknown_device_code |-> 49243, device_absent |-> 49243, device_not_allowed_here |-> 49243,
     address_out_of_range |-> 49238, zero_point_count |-> 49238,
     batch_word_limit |-> 49234, batch_bit_limit |-> 49233, random_point_limit |-> 49236,
     random_bit_point_limit |-> 49235, block_count_limit |-> 49368,
     request_length_mismatch |-> 49239, monitor_not_registered |-> 49245,
     illegal_random_device |-> 16434, remote_control_disabled |-> 16523,
     password_incorrect |-> 49664, password_locked |-> 49665, latch_clear_refused |-> 16400]

LimitPolicy(batch_bit, write_block, ascii_word, ascii_bit, ascii_random) ==
    [batch_word |-> 960, batch_bit |-> batch_bit, random_points |-> 192, random_bit_points |-> 188,
     word_weight |-> 12, dword_weight |-> 14, budget |-> 1920, max_blocks |-> 120,
     read_block_points |-> 960, write_block_points |-> write_block,
     ascii_batch_word |-> ascii_word, ascii_batch_bit |-> ascii_bit,
     ascii_random_points |-> ascii_random]

REFERENCE_LIMITS == LimitPolicy(7168, 960, 960, 7168, 192)

BatchWordFor(limits, enc) == IF enc = "binary" THEN limits.batch_word ELSE limits.ascii_batch_word
BatchBitFor(limits, enc) == IF enc = "binary" THEN limits.batch_bit ELSE limits.ascii_batch_bit
RandomPointsFor(limits, enc) ==
    IF enc = "binary" THEN limits.random_points ELSE limits.ascii_random_points

\* A name padded to its field, as it travels in either coding.
ModelName(codes, characters) ==
    [c \in Codecs |->
        [i \in 1 .. MODEL_NAME_UNITS |->
            IF c = "binary" THEN IF i <= Len(codes) THEN codes[i] ELSE 32
            ELSE IF i <= Len(characters) THEN characters[i] ELSE " "]]

\* As the characters travel in either coding.
NoPassword == [c \in Codecs |-> <<>>]

R04CPU ==
    [model_name |-> ModelName(<<82, 48, 52, 67, 80, 85>>, <<"R", "0", "4", "C", "P", "U">>), model_code |-> 18432, profile |-> IQ_R,
     limits |-> REFERENCE_LIMITS, end_codes |-> EndCodePolicy, accept_illegal_random_points |-> {},
     long_device_spec |-> TRUE, monitor |-> TRUE, xy_ascii_octal |-> FALSE,
     remote_fixed_field |-> <<1, 0>>, clear_modes |-> {NONE, EXCEPT_LATCH, INCLUDING_LATCH},
     password |-> NoPassword]

FX5U_32MT_DS ==
    [model_name |-> ModelName(<<70, 88, 53, 85, 45, 51, 50, 77, 84, 47, 68, 83>>,
                              <<"F", "X", "5", "U", "-", "3", "2", "M", "T", "/", "D", "S">>),
     model_code |-> 19017, profile |-> FX5U,
     limits |-> LimitPolicy(3584, 760, 480, 1792, 96),
     end_codes |-> [EndCodePolicy EXCEPT !.unknown_device_code = 49244, !.device_absent = 49244,
                        !.device_not_allowed_here = 49244, !.zero_point_count = 49234,
                        !.request_length_mismatch = 49249, !.illegal_random_device = 49244],
     accept_illegal_random_points |-> {Device_TS, Device_TC, Device_STS, Device_STC,
                                       Device_CS, Device_CC},
     long_device_spec |-> FALSE, monitor |-> FALSE, xy_ascii_octal |-> TRUE,
     remote_fixed_field |-> <<0, 0>>, clear_modes |-> {NONE}, password |-> NoPassword]

SupportsSpec(target, spec) == spec = "short" \/ target.long_device_spec
AcceptsRandom(target, dt) == Allowed("random", dt) \/ dt \in target.accept_illegal_random_points

-----------------------------------------------------------------------------
(***************************************************************************)
(* The session, and what a handler comes to.                               *)
(***************************************************************************)

RUN == 0
STOP == 2
PAUSE == 3
CPU_STATUS_INDEX == 203

\* `monitor_points` is <<>> before a registration; nobody registers nothing.
SessionState ==
    [switch_position |-> RUN, remote_request |-> RUN, monitor_points |-> <<>>,
     password_locked |-> FALSE]

\* `effective_cpu_state`: the key switch first.
EffectiveState(state) ==
    IF state.switch_position = STOP THEN STOP ELSE state.remote_request

\* `publish_cpu_state`: SD203.
PublishState(memory, state) ==
    WriteCells(memory, Device_SD, CPU_STATUS_INDEX, <<EffectiveState(state)>>)

Reply(s, payload) ==
    [end_code |-> 0, payload |-> payload, silent |-> FALSE, memory |-> s.memory, state |-> s.state]
Silence(s) == [Reply(s, <<>>) EXCEPT !.silent = TRUE]
Refusal(s, name) == [Reply(s, <<>>) EXCEPT !.end_code = s.target.end_codes[name]]

\* An outcome unless there is something against it.
Unless(s, fault, outcome) == IF fault # "none" THEN Refusal(s, fault) ELSE outcome

-----------------------------------------------------------------------------
(***************************************************************************)
(* PayloadCursor: how far the payload was read, what was found in it, and  *)
(* what was wrong with it.  After the first fault nothing is read.         *)
(***************************************************************************)

Start(payload) == [payload |-> payload, at |-> 0, out |-> <<>>, fault |-> "none"]

Fault(k, name) == [k EXCEPT !.fault = name]
Found(k, units, value) == [k EXCEPT !.at = @ + units, !.out = Append(@, value)]

\* The next units, if they are there and read.
TakeField(k, units, good, value) ==
    CASE k.fault # "none" -> k
      [] ~HasSpan(k.payload, k.at, units) \/ ~good -> Fault(k, "request_length_mismatch")
      [] OTHER -> Found(k, units, value)

TakeNumber(s, k, bits) ==
    LET Took(v) == TakeField(k, NumberLen(s.codec, bits), v # NoNumber, v) IN
    Took(ReadNumber(s.codec, k.payload, k.at, bits))

TakeWords(s, k, count) ==
    LET n == WordDataLen(s.codec, count) IN
    TakeField(k, n, Legible(s.codec, Span(k.payload, k.at, n)),
              ReadWords(s.codec, k.payload, k.at, count))

TakeBits(s, k, count) ==
    LET Took(v) == TakeField(k, BitDataLen(s.codec, count), v # NoPoints, v) IN
    Took(ReadBits(s.codec, k.payload, k.at, count))

TakeUnits(k, count) == TakeField(k, count, TRUE, Span(k.payload, k.at, count))

Finish(k) ==
    IF k.fault = "none" /\ k.at # Len(k.payload) THEN Fault(k, "request_length_mismatch") ELSE k

\* What the n-th field held.
Field(k, n) == k.out[n]

-----------------------------------------------------------------------------
(***************************************************************************)
(* `read_device`: the code back to the family, the number in its base.     *)
(***************************************************************************)

DecodedDevice(dt, index) == [type |-> dt, index |-> index]

\* `device_number_base`.
NumberBase(s, dt) ==
    IF s.target.xy_ascii_octal /\ dt \in OctalNotation /\ s.encoding = "ascii-xy-oct"
    THEN OCTAL ELSE dt.radix

\* The families a code names; the tables of the code have one row for each.
Claims(s, code) ==
    {dt \in DOMAIN s.target.profile.devices :
        /\ HasDeviceCode(s.codec, dt, s.spec)
        /\ IF s.codec = "binary" THEN DeviceCode(s.codec, dt, s.spec) = code
           ELSE Mnemonic(DeviceCode(s.codec, dt, s.spec)) = Mnemonic(code)}

\* A number in the base of the family.
TakeIndex(s, k, dt, number, base) ==
    IF s.codec = "ascii" /\ ~(Range(number) \subseteq RadixDigits(base))
    THEN Fault(k, "unknown_device_code")
    ELSE Found(k, DevspecLen(s.codec, s.spec),
               DecodedDevice(dt, IF s.codec = "binary" THEN FromLittleEndian(number)
                                                       ELSE FromDigits(number, base)))

\* The number comes first in binary and the code in ASCII; split is where the second begins.
TakeSplit(s, k, units, split) ==
    LET head   == Span(k.payload, k.at, split)
        tail   == Span(k.payload, k.at + split, units - split)
        Of(dt, number) == TakeIndex(s, k, dt, number, NumberBase(s, dt))
        Coded(claims, number) ==
            CASE ~HasSpan(k.payload, k.at, split) -> Fault(k, "request_length_mismatch")
              [] s.codec = "ascii" /\ claims = {} -> Fault(k, "unknown_device_code")
              [] ~HasSpan(k.payload, k.at, units) -> Fault(k, "request_length_mismatch")
              [] claims = {} -> Fault(k, "unknown_device_code")
              [] OTHER -> Of(CHOOSE dt \in claims : TRUE, number)
    IN  Coded(Claims(s, IF s.codec = "binary" THEN tail ELSE head),
              IF s.codec = "binary" THEN head ELSE tail)

TakeDevice(s, k) ==
    IF k.fault # "none" THEN k
    ELSE TakeSplit(s, k, DevspecLen(s.codec, s.spec),
                   IF s.codec = "binary" THEN DeviceNumberLen(s.codec, s.spec)
                                         ELSE DeviceCodeLen(s.codec, s.spec))

\* n fields in a row, each by Take.
TakeEach(k, n, Take(_)) == FoldLeft(LAMBDA cursor, i : Take(cursor), k, [i \in 1 .. n |-> i])

CheckCount(count, limit, limit_name) ==
    Refuse(count = 0, "zero_point_count") ?? Refuse(count > limit, limit_name)

-----------------------------------------------------------------------------
(***************************************************************************)
(* Reading and writing the memory.                                         *)
(***************************************************************************)

ReadFault(s, device, count) ==
    WordsFault(s.target.profile.devices, device.type, device.index, count)
WordsAt(s, device, count) == MemoryWords(s.memory, device.type, device.index, count)

\* `_access_point_value`: the low word is the first.
AccessPointValue(s, device, words) ==
    LET values == WordsAt(s, device, words) IN
    IF words = 1 THEN values[1] ELSE values[2] * 65536 + values[1]

\* One after the other: the first the memory does not take ends it, and those before it stay.
WriteInTurn(s, pending) ==
    LET put(acc, w) ==
            LET fault == WordsFault(s.target.profile.devices, w.device.type, w.device.index,
                                    Len(w.values))
            IN  CASE acc.fault # "none" -> acc
                  [] fault # "none" -> [acc EXCEPT !.fault = fault]
                  [] OTHER -> [acc EXCEPT !.memory = WriteWordsAt(@, w.device.type, w.device.index,
                                                                  w.values)]
    IN  FoldLeft(put, [memory |-> s.memory, fault |-> "none"], pending)

\* What was written stays, whatever came of the rest.
Ended(s, end) ==
    LET after == [s EXCEPT !.memory = end.memory] IN Unless(after, end.fault, Reply(after, <<>>))

Written(s, pending) == Ended(s, WriteInTurn(s, pending))

RequireRandomDevice(s, device) ==
    Refuse(~AcceptsRandom(s.target, device.type), "illegal_random_device")

RequireBitDevice(device) == Refuse(device.type.unit # "bit", "device_not_allowed_here")

-----------------------------------------------------------------------------
(***************************************************************************)
(* Handlers: information and batch access.                                 *)
(***************************************************************************)

HandleReadTypeName(s, k) ==
    Unless(s, Finish(k).fault, Reply(s, s.target.model_name[s.codec] \o Number(s.codec, s.target.model_code, 16)))

\* As many units as the number before them says, and no more.
TakeCounted(counted) ==
    IF counted.fault # "none" THEN counted ELSE Finish(TakeUnits(counted, Field(counted, 1)))

HandleSelfTest(s, k) ==
    LET Echo(whole) ==
            Unless(s, whole.fault, Reply(s, Number(s.codec, Field(whole, 1), 16) \o Field(whole, 2)))
    IN  Echo(TakeCounted(TakeNumber(s, k, 16)))

HandleClearError(s, k) == Unless(s, Finish(k).fault, Reply(s, <<>>))

CheckBatch(s, count) ==
    IF s.unit = "bit"
    THEN CheckCount(count, BatchBitFor(s.target.limits, s.encoding), "batch_bit_limit")
    ELSE CheckCount(count, BatchWordFor(s.target.limits, s.encoding), "batch_word_limit")

BitSpanFault(s, device, count) ==
    BitsFault(s.target.profile.devices, device.type, device.index, count)

HandleBatchRead(s, k) ==
    LET Answer(device, count) ==
            IF s.unit = "bit"
            THEN Unless(s, RequireBitDevice(device) ?? BitSpanFault(s, device, count),
                        Reply(s, Bits(s.codec, MemoryBits(s.memory, device.type, device.index, count))))
            ELSE Unless(s, ReadFault(s, device, count),
                        Reply(s, Words(s.codec, WordsAt(s, device, count))))
        Read(whole) == Unless(s, whole.fault ?? CheckBatch(s, Field(whole, 2)),
                              Answer(Field(whole, 1), Field(whole, 2)))
    IN  Read(Finish(TakeNumber(s, TakeDevice(s, k), 16)))

HandleBatchWrite(s, k) ==
    LET Put(device, count, values) ==
            IF s.unit = "word" THEN Written(s, <<[device |-> device, values |-> values]>>)
            ELSE Unless(s, BitSpanFault(s, device, count),
                        Reply([s EXCEPT !.memory = WriteCells(@, device.type, device.index, values)], <<>>))
        Data(whole) == Unless(s, whole.fault, Put(Field(whole, 1), Field(whole, 2), Field(whole, 3)))
        Checked(head) ==
            head.fault ?? CheckBatch(s, Field(head, 2))
            ?? (IF s.unit = "bit" THEN RequireBitDevice(Field(head, 1)) ELSE "none")
        Counted(head) ==
            Unless(s, Checked(head), Data(Finish(IF s.unit = "bit" THEN TakeBits(s, head, Field(head, 2))
                                                  ELSE TakeWords(s, head, Field(head, 2)))))
    IN  Counted(TakeNumber(s, TakeDevice(s, k), 16))

-----------------------------------------------------------------------------
(***************************************************************************)
(* Handlers: random access and the monitor.                                *)
(***************************************************************************)

\* How many words and double words, or word and bit blocks.
Counts(counts) == Field(counts, 1) + Field(counts, 2)

\* `_read_point_specs`: two counts, and the devices, words first.
TakePointSpecs(s, k) ==
    LET Checked(whole, n) ==
            Fault(whole, whole.fault
                         ?? FirstFault(n, LAMBDA i : RequireRandomDevice(s, Field(whole, 2 + i))))
        Specs(counts, n) ==
            IF counts.fault # "none" THEN counts
            ELSE Checked(TakeEach(counts, n, LAMBDA c : TakeDevice(s, c)), n)
        Limited(counts, n) ==
            Fault(counts, counts.fault
                          ?? CheckCount(n, RandomPointsFor(s.target.limits, s.encoding),
                                        "random_point_limit"))
        Counted(counts) == Specs(Limited(counts, Counts(counts)), Counts(counts))
    IN  Counted(TakeNumber(s, TakeNumber(s, k, 8), 8))

\* The points a cursor found: device, and how many words of it.
FoundPoints(k) ==
    [i \in 1 .. Len(k.out) - 2 |->
        [device |-> Field(k, 2 + i), words |-> IF i <= Field(k, 1) THEN 1 ELSE 2]]

RandomPayload(s, points) ==
    FlattenSeq([i \in DOMAIN points |->
        Number(s.codec, AccessPointValue(s, points[i].device, points[i].words),
               16 * points[i].words)])

PointsFault(s, points) ==
    FirstFault(Len(points), LAMBDA i : ReadFault(s, points[i].device, points[i].words))

\* The points as they are now.
Sampled(s, points) == Unless(s, PointsFault(s, points), Reply(s, RandomPayload(s, points)))

HandleReadRandom(s, k) ==
    LET Read(whole) == Unless(s, whole.fault, Sampled(s, FoundPoints(whole))) IN
    Read(Finish(TakePointSpecs(s, k)))

\* A bit's value has the width of the device code.
BitValueWidth(s) == IF s.spec = "short" THEN 8 ELSE 16

\* A device and its value, of this many words or, with 0, one bit.
TakePut(s, k, words) ==
    LET Allow(device) ==
            Fault(device, device.fault
                          ?? RequireRandomDevice(s, Last(device.out))
                          ?? (IF words = 0 THEN RequireBitDevice(Last(device.out)) ELSE "none"))
    IN  TakeNumber(s, Allow(TakeDevice(s, k)), IF words = 0 THEN BitValueWidth(s) ELSE 16 * words)

\* What is to be written, from the fields after the counts.
PendingWrites(k, counts, singles) ==
    [i \in 1 .. (Len(k.out) - counts) \div 2 |->
        [device |-> Field(k, counts + 2 * i - 1),
         values |-> LET v == Field(k, counts + 2 * i) IN
                    IF i > singles THEN <<v % 65536, v \div 65536>> ELSE <<v>>]]

HandleWriteRandomWords(s, k) ==
    LET limits == s.target.limits
        Checked(counts) ==
            counts.fault
            ?? Refuse(Counts(counts) = 0, "zero_point_count")
            ?? Refuse(Field(counts, 1) * limits.word_weight + Field(counts, 2) * limits.dword_weight
                          > limits.budget, "random_point_limit")
        Puts(counts) ==
            [i \in 1 .. Counts(counts) |-> IF i <= Field(counts, 1) THEN 1 ELSE 2]
        Data(whole) == Unless(s, whole.fault, Written(s, PendingWrites(whole, 2, Field(whole, 1))))
        Counted(counts) ==
            Unless(s, Checked(counts),
                   Data(Finish(FoldLeft(LAMBDA c, words : TakePut(s, c, words), counts, Puts(counts)))))
    IN  Counted(TakeNumber(s, TakeNumber(s, k, 8), 8))

\* The bits are written one by one too.
BitsInTurn(s, pending) ==
    LET put(acc, w) ==
            LET fault == BitSpanFault(s, w.device, 1)
                point == IF w.values[1] = 0 THEN 0 ELSE 1
            IN  CASE acc.fault # "none" -> acc
                  [] fault # "none" -> [acc EXCEPT !.fault = fault]
                  [] OTHER -> [acc EXCEPT !.memory = WriteCells(@, w.device.type, w.device.index,
                                                                <<point>>)]
    IN  FoldLeft(put, [memory |-> s.memory, fault |-> "none"], pending)

HandleWriteRandomBits(s, k) ==
    LET Data(whole) ==
            Unless(s, whole.fault, Ended(s, BitsInTurn(s, PendingWrites(whole, 1, Field(whole, 1)))))
        Counted(count) ==
            Unless(s, count.fault ?? CheckCount(Field(count, 1), s.target.limits.random_bit_points,
                                                "random_bit_point_limit"),
                   Data(Finish(TakeEach(count, Field(count, 1), LAMBDA c : TakePut(s, c, 0)))))
    IN  Counted(TakeNumber(s, k, 8))

HandleWriteRandom(s, k) ==
    IF s.unit = "bit" THEN HandleWriteRandomBits(s, k) ELSE HandleWriteRandomWords(s, k)

HandleRegisterMonitor(s, k) ==
    LET Registered(whole) ==
            Unless(s, whole.fault, Reply([s EXCEPT !.state.monitor_points = FoundPoints(whole)], <<>>))
    IN  Unless(s, Refuse(~s.target.monitor, "unsupported_command"),
               Registered(Finish(TakePointSpecs(s, k))))

\* The points registered last, whoever registered them.
HandleExecuteMonitor(s, k) ==
    LET points == s.state.monitor_points IN
    Unless(s, Finish(k).fault
              ?? Refuse(~s.target.monitor, "unsupported_command")
              ?? Refuse(points = <<>>, "monitor_not_registered"),
           Sampled(s, points))

-----------------------------------------------------------------------------
(***************************************************************************)
(* Handlers: blocks.                                                       *)
(***************************************************************************)

TakeBlockCounts(s, k) ==
    LET Limited(counts) ==
            Fault(counts, counts.fault ?? CheckCount(Counts(counts), s.target.limits.max_blocks,
                                                     "block_count_limit"))
    IN  Limited(TakeNumber(s, TakeNumber(s, k, 8), 8))

\* A device and its points; with data, as many words.
TakeBlock(s, k, data) ==
    LET Data(head) ==
            CASE head.fault # "none" -> head
              [] Last(head.out) = 0 -> Fault(head, "zero_point_count")
              [] data -> TakeWords(s, head, Last(head.out))
              [] OTHER -> head
    IN  Data(TakeNumber(s, TakeDevice(s, k), 16))

TakeBlocks(s, k, data) ==
    LET Counted(counts) ==
            IF counts.fault # "none" THEN counts
            ELSE TakeEach(counts, Counts(counts), LAMBDA c : TakeBlock(s, c, data))
    IN  Counted(TakeBlockCounts(s, k))

\* The blocks a cursor found, each of so many fields.
FoundBlocks(k, fields) ==
    [b \in 1 .. (Len(k.out) - 2) \div fields |-> SubSeq(k.out, 3 + fields * (b - 1), 2 + fields * b)]
BlockPoints(blocks) == SumUpTo(Len(blocks), LAMBDA b : blocks[b][2])

HandleReadBlocks(s, k) ==
    LET Answer(blocks) ==
            Unless(s, Refuse(BlockPoints(blocks) > s.target.limits.read_block_points, "batch_word_limit")
                      ?? FirstFault(Len(blocks), LAMBDA b : ReadFault(s, blocks[b][1], blocks[b][2])),
                   Reply(s, Words(s.codec, FlattenSeq([b \in DOMAIN blocks |->
                                               WordsAt(s, blocks[b][1], blocks[b][2])]))))
        Read(whole) == Unless(s, whole.fault, Answer(FoundBlocks(whole, 2)))
    IN  Read(Finish(TakeBlocks(s, k, FALSE)))

HandleWriteBlocks(s, k) ==
    LET Put(blocks) ==
            Unless(s, Refuse(BlockPoints(blocks) > s.target.limits.write_block_points, "batch_word_limit"),
                   Written(s, [b \in DOMAIN blocks |->
                                  [device |-> blocks[b][1], values |-> blocks[b][3]]]))
        Data(whole) == Unless(s, whole.fault, Put(FoundBlocks(whole, 3)))
    IN  Data(Finish(TakeBlocks(s, k, TRUE)))

-----------------------------------------------------------------------------
(***************************************************************************)
(* Handlers: remote control and the password.                              *)
(***************************************************************************)

\* `request_cpu_state`.
Requested(s, to) ==
    LET state == [s.state EXCEPT !.remote_request = to] IN
    [s EXCEPT !.state = state, !.memory = PublishState(@, state)]

HandleRemoteRun(s, k) ==
    LET Run(whole) ==
            Unless(s, whole.fault
                      ?? Refuse(Field(whole, 2) \notin s.target.clear_modes, "unsupported_subcommand"),
                   Reply(Requested(s, RUN), <<>>))
    IN  Run(Finish(TakeNumber(s, TakeNumber(s, TakeNumber(s, k, 16), 8), 8)))

HandleRemotePause(s, k) ==
    Unless(s, Finish(TakeNumber(s, k, 16)).fault, Reply(Requested(s, PAUSE), <<>>))

\* `_consume_fixed_field`.
FixedFieldFault(s, k) ==
    LET Fixed(whole) ==
            whole.fault ?? Refuse(Field(whole, 1) # FromLittleEndian(s.target.remote_fixed_field),
                                  "unsupported_subcommand")
    IN  Fixed(Finish(TakeNumber(s, k, 16)))

HandleRemoteStop(s, k) == Unless(s, FixedFieldFault(s, k), Reply(Requested(s, STOP), <<>>))

HandleRemoteLatchClear(s, k) ==
    Unless(s, FixedFieldFault(s, k)
              ?? Refuse(EffectiveState(s.state) # STOP, "latch_clear_refused"),
           Reply(s, <<>>))

\* A CPU that resets has nobody left to answer: the pathology both models have.
HandleRemoteReset(s, k) == Unless(s, FixedFieldFault(s, k), Silence(s))

\* Every CPU model has the remote password.
HandlePassword(s, k, locked) ==
    LET Tried(whole) ==
            Unless(s, whole.fault
                      ?? Refuse(Field(whole, 2) # s.target.password[s.codec], "password_incorrect"),
                   Reply([s EXCEPT !.state.password_locked = locked], <<>>))
    IN  Tried(TakeCounted(TakeNumber(s, k, 16)))
HandleUnlockPassword(s, k) == HandlePassword(s, k, FALSE)
HandleLockPassword(s, k) == HandlePassword(s, k, TRUE)

-----------------------------------------------------------------------------
(***************************************************************************)
(* `HANDLERS` and `Dispatcher.handle`.                                     *)
(***************************************************************************)

Handler(s, command, k) ==
    CASE command = 257  -> HandleReadTypeName(s, k)
      [] command = 1025 -> HandleBatchRead(s, k)
      [] command = 1027 -> HandleReadRandom(s, k)
      [] command = 1030 -> HandleReadBlocks(s, k)
      [] command = 1561 -> HandleSelfTest(s, k)
      [] command = 2049 -> HandleRegisterMonitor(s, k)
      [] command = 2050 -> HandleExecuteMonitor(s, k)
      [] command = 4097 -> HandleRemoteRun(s, k)
      [] command = 4098 -> HandleRemoteStop(s, k)
      [] command = 4099 -> HandleRemotePause(s, k)
      [] command = 4101 -> HandleRemoteLatchClear(s, k)
      [] command = 4102 -> HandleRemoteReset(s, k)
      [] command = 5121 -> HandleBatchWrite(s, k)
      [] command = 5122 -> HandleWriteRandom(s, k)
      [] command = 5126 -> HandleWriteBlocks(s, k)
      [] command = 5655 -> HandleClearError(s, k)
      [] command = 5680 -> HandleUnlockPassword(s, k)
      [] command = 5681 -> HandleLockPassword(s, k)
      [] OTHER -> Refusal(s, "unsupported_command")

PASSWORD_EXEMPT_COMMANDS == {5680}

\* SD203 is published whatever becomes of the request.
Handle(target, memory, state, encoding, request) ==
    LET sub == request.subcommand
        Serve(s) ==
            Unless(s, Refuse(sub \notin KnownSubcommands, "unsupported_subcommand")
                      ?? Refuse(state.password_locked /\ request.command \notin PASSWORD_EXEMPT_COMMANDS,
                                "password_locked")
                      ?? Refuse(Extended(sub) \/ ~SupportsSpec(target, s.spec), "unsupported_subcommand"),
                   Handler(s, request.command, Start(request.payload)))
    IN  Serve([target |-> target, memory |-> PublishState(memory, state), state |-> state,
               codec |-> Coding(encoding), encoding |-> encoding,
               spec |-> SubcommandSpec(sub), unit |-> SubcommandUnit(sub)])
=============================================================================
