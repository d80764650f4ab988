----------------------------- MODULE SimMemory -----------------------------
(***************************************************************************)
(* DeviceMemory of src/aslmp/testing/memory.py: the words and bits of the  *)
(* devices a CPU has.  A memory is a function from the cells that are not  *)
(* 0, a cell being <<name of the family, device number>>; the bits of a    *)
(* bit device are cells of their own.                                      *)
(*                                                                         *)
(* `ranges` is the device table of a profile: only its spans are storage.  *)
(***************************************************************************)
EXTENDS CommandBase

Cell(dt, index) == <<dt.name, index>>

ReadCell(memory, dt, index) ==
    IF Cell(dt, index) \in DOMAIN memory THEN memory[Cell(dt, index)] ELSE 0

Store(memory, put) ==
    LET after(cell) == IF cell \in DOMAIN put THEN put[cell] ELSE memory[cell] IN
    [cell \in {c \in DOMAIN put \cup DOMAIN memory : after(c) # 0} |-> after(cell)]

\* `ranges_from_profile`.
HasRange(ranges, dt) == ranges[dt].kind = "span"

\* `check_span`.
InSpan(ranges, dt, index, points) ==
    points > 0 => index >= ranges[dt].first /\ index + points - 1 <= ranges[dt].last

\* `_as_refusal` of AbsentDeviceError and OutOfRangeError.
WordsFault(ranges, dt, index, count) ==
    CASE ~HasRange(ranges, dt) -> "device_absent"
      [] dt.unit = "word" /\ dt.words_per_point # 1 -> "address_out_of_range"
      [] ~InSpan(ranges, dt, index, IF dt.unit = "bit" THEN 16 * count ELSE count)
            -> "address_out_of_range"
      [] OTHER -> "none"

BitsFault(ranges, dt, index, count) ==
    CASE ~HasRange(ranges, dt) -> "device_absent"
      [] dt.unit # "bit" \/ ~InSpan(ranges, dt, index, count) -> "address_out_of_range"
      [] OTHER -> "none"

\* `_bit_window`: the first bit is the least significant.
BitWindow(memory, dt, index) ==
    FoldLeft(LAMBDA sum, b : sum + 2 ^ b * ReadCell(memory, dt, index + b), 0,
             [k \in 1 .. 16 |-> k - 1])

MemoryWords(memory, dt, index, count) ==
    [i \in 1 .. count |-> IF dt.unit = "bit" THEN BitWindow(memory, dt, index + 16 * (i - 1))
                                             ELSE ReadCell(memory, dt, index + i - 1)]

MemoryBits(memory, dt, index, count) == [i \in 1 .. count |-> ReadCell(memory, dt, index + i - 1)]

WriteCells(memory, dt, index, values) ==
    LET cells == {Cell(dt, index + i - 1) : i \in DOMAIN values} IN
    Store(memory, [cell \in cells |-> values[cell[2] - index + 1]])

\* `_set_bit_window`, of each of the words.
WindowBits(values) ==
    [k \in 1 .. 16 * Len(values) |-> (values[1 + ((k - 1) \div 16)] \div 2 ^ ((k - 1) % 16)) % 2]

WriteWordsAt(memory, dt, index, values) ==
    WriteCells(memory, dt, index, IF dt.unit = "bit" THEN WindowBits(values) ELSE values)
=============================================================================
