----------------------------- MODULE BlockLayout -----------------------------
(***************************************************************************)
(* A block of typed fields (src/aslmp/blocks): what a class declares       *)
(* (fields.py, layout.py) and what bind() makes of it for one CPU          *)
(* (plan.py): the access points of one or more 0403, a decoder of their    *)
(* answers, and the points of a 1402.                                      *)
(*                                                                         *)
(* A value is an integer; an f32 is its bit pattern, an f64 the patterns   *)
(* of its two double words, a string its octets, a bit 0 or 1.  The text   *)
(* of the reports (describe) and the annotations a field is declared by    *)
(* are left out: a field of the model is declared as it should be.         *)
(***************************************************************************)
EXTENDS Commands

-----------------------------------------------------------------------------
(***************************************************************************)
(* Fields.                                                                 *)
(***************************************************************************)

\* `Bounds`: either end may be missing.
NoBounds == [minimum |-> {}, maximum |-> {}]
Bounds(minimum, maximum) == [minimum |-> {minimum}, maximum |-> {maximum}]
Outside(value, bounds) ==
    (\E least \in bounds.minimum : value < least) \/ (\E most \in bounds.maximum : value > most)

NumberSpec(kind, words) ==
    [form |-> "number", kind |-> kind, words |-> words, bounds |-> NoBounds]

U16 == NumberSpec("u16", 1)
I16 == NumberSpec("i16", 1)
U32 == NumberSpec("u32", 2)
I32 == NumberSpec("i32", 2)
F32 == NumberSpec("f32", 2)
\* Two double-word points, which travel as u32.
F64 == NumberSpec("u32", 4)

\* `_declaring`.
Bounded(spec, bounds) == [spec EXCEPT !.bounds = bounds]

\* It folds into a window and costs no register of its own.
Bit == [form |-> "bit", kind |-> "bits", words |-> 0, bounds |-> NoBounds]

\* `string_words`: the octets, and the NUL that follows them.
StringWords(length) == (length + 2) \div 2
Str(length) == [form |-> "string", kind |-> "u16", words |-> StringWords(length), bounds |-> NoBounds]

IsBit(field) == field.spec.form = "bit"
IsWide(spec) == spec.form = "number" /\ spec.words >= 2

\* The registers of one access point.
Registers(spec) == IF spec.words >= 2 THEN 2 ELSE 1

\* A bound outside what the width can hold, or above the other, is a declaration error.
DeclarationFault(spec) ==
    LET ends == spec.bounds.minimum \cup spec.bounds.maximum IN
    Refuse(\/ \E v \in ends : UnsignedFault(v, 16 * Registers(spec), PointDomain(spec)) # "none"
           \/ \E least \in spec.bounds.minimum : Outside(least, [spec.bounds EXCEPT !.minimum = {}]),
           "layout")

-----------------------------------------------------------------------------
(***************************************************************************)
(* The layout.  A field without an address of its own comes after those    *)
(* before it, counted in registers from the base.                          *)
(***************************************************************************)

RunningBase == <<>>
FieldPlan(name, spec, address) == [name |-> name, spec |-> spec, address |-> address]
PlcBlock(base, fields) == [base |-> base, fields |-> fields, word_order |-> "low-first"]

IsAuto(field) == field.address = RunningBase
Fields(block) == DOMAIN block.fields
Names(block) == {block.fields[i].name : i \in Fields(block)}
FieldOf(block, name) == CHOOSE i \in Fields(block) : block.fields[i].name = name

\* The cursor of `compile_layout`: a field with an address does not move it.
WordOffset(block, i) ==
    SumUpTo(i - 1, LAMBDA j : IF IsAuto(block.fields[j]) THEN block.fields[j].spec.words ELSE 0)

LayoutFault(block) ==
    FirstFault(Len(block.fields), LAMBDA i : DeclarationFault(block.fields[i].spec))
    ?? Refuse(\/ block.fields = <<>>
              \/ \E i \in Fields(block) : IsBit(block.fields[i]) /\ IsAuto(block.fields[i])
              \/ block.base = RunningBase /\ \E i \in Fields(block) : IsAuto(block.fields[i]),
              "layout")

\* A double-word point is low word first: there is nothing to turn round.
WordOrderFault(block) ==
    Refuse(block.word_order # "low-first" /\ \E i \in Fields(block) : IsWide(block.fields[i].spec),
           "layout")

\* `_resolve`: where the fields are, one by one.
Resolved(block, ctx) ==
    LET Located(i) == IF IsAuto(block.fields[i])
                      THEN Offset(Resolve(ctx, block.base), WordOffset(block, i))
                      ELSE Resolve(ctx, block.fields[i].address)
    IN  [i \in Fields(block) |-> Located(i)]

ResolvedFault(block, ctx) ==
    (IF block.base = RunningBase THEN "none" ELSE ResolveFault(ctx, block.base))
    ?? FirstFault(Len(block.fields), LAMBDA i :
           IF IsAuto(block.fields[i])
           THEN Refuse(Resolve(ctx, block.base).type.unit # "word", "layout")
           ELSE ResolveFault(ctx, block.fields[i].address))

\* `_refuse_overlap` counts registers, on a bit device too.
Covered(block, at, i) ==
    {<<at[i].type.name, at[i].index + w>> : w \in 0 .. block.fields[i].spec.words - 1}

OverlapFault(block, at) ==
    LET cells == [i \in Fields(block) |-> Covered(block, at, i)] IN
    Refuse(\E i, j \in Fields(block) : i < j /\ cells[i] \cap cells[j] # {}, "layout")

-----------------------------------------------------------------------------
(***************************************************************************)
(* Folding: the bits of a family share windows of sixteen.                 *)
(***************************************************************************)

\* `plan_folds`: the lowest bit that no window covers begins the next.
FoldAnchors(indices) ==
    LET begins[x \in indices] == \A y \in indices : y < x /\ x < y + 16 => ~begins[y] IN
    {x \in indices : begins[x]}

FamilyBits(block, at, dt) == {i \in Fields(block) : IsBit(block.fields[i]) /\ at[i].type = dt}

\* Where the window of the i-th field begins, before it is fitted into the range.
Anchor(block, at, i) ==
    LET anchors == FoldAnchors({at[j].index : j \in FamilyBits(block, at, at[i].type)}) IN
    Max({a \in anchors : a <= at[i].index})

\* `lower_anchor`: a window that runs off the end of the family is moved down.
Overruns(ctx, dt, anchor) ==
    ctx.profile.devices[dt].kind = "span" /\ anchor + 15 > ctx.profile.devices[dt].last

LowerAnchor(ctx, dt, anchor) ==
    IF Overruns(ctx, dt, anchor) THEN ctx.profile.devices[dt].last - 15 ELSE anchor

LowerFault(ctx, dt, anchor, highest) ==
    Refuse(/\ Overruns(ctx, dt, anchor)
           /\ LowerAnchor(ctx, dt, anchor) < 0 \/ highest > ctx.profile.devices[dt].last, "layout")

\* A fold by the field it is found by: the window, and the position of each bit of it.
Fold(block, ctx, at, i) ==
    LET anchor == Anchor(block, at, i)
        window == LowerAnchor(ctx, at[i].type, anchor)
        inside == {j \in FamilyBits(block, at, at[i].type) : Anchor(block, at, j) = anchor}
    IN  [window |-> Address(at[i].type, window),
         first  |-> Min(inside),
         fault  |-> LowerFault(ctx, at[i].type, anchor, Max({at[j].index : j \in inside})),
         bits   |-> [name \in {block.fields[j].name : j \in inside} |->
                        at[FieldOf(block, name)].index - window]]

FoldFault(block, ctx, at) ==
    FirstFault(Len(block.fields), LAMBDA i :
        IF ~IsBit(block.fields[i]) THEN "none"
        ELSE Refuse(at[i].type.unit # "bit", "layout") ?? Fold(block, ctx, at, i).fault)

-----------------------------------------------------------------------------
(***************************************************************************)
(* Groups: the points of a field, of a window or of the clock, which are   *)
(* consecutive on the wire.                                                *)
(***************************************************************************)

\* A resolved address as a point carries it.
LiteralOf(ctx, address) == FormatAddress(address, RadixFor(ctx.profile, address.type))

\* bits: the position of each field that is a bit of the window.
GroupOf(points, spec, name, bits) == [points |-> points, spec |-> spec, name |-> name, bits |-> bits]

\* A fault for PointsAlong: a double word counts as one register.
PointsAdjacent(ctx, address, n, apart, kind) ==
    [k \in 1 .. n |-> RandomPoint(LiteralOf(ctx, Offset(address, k - 1)), kind)]

\* n points of one kind, this many registers apart.
PointsAlong(ctx, address, n, apart, kind) ==
    [k \in 1 .. n |-> RandomPoint(LiteralOf(ctx, Offset(address, apart * (k - 1))), kind)]

FieldPoints(ctx, address, spec) ==
    CASE spec.form = "string" -> PointsAlong(ctx, address, spec.words, 1, "u16")
      [] spec.words = 4 -> PointsAlong(ctx, address, 2, 2, "u32")
      [] OTHER -> PointsAlong(ctx, address, 1, 0, spec.kind)

NoBits == [name \in {} |-> 0]

\* A window stands where the first of its bits does.
Group(block, ctx, at, i) ==
    LET field == block.fields[i]
        fold  == Fold(block, ctx, at, i)
    IN  CASE ~IsBit(field) -> <<GroupOf(FieldPoints(ctx, at[i], field.spec), field.spec, field.name, NoBits)>>
          [] fold.first = i -> <<GroupOf(<<RandomPoint(LiteralOf(ctx, fold.window), "bits")>>, U16, "", fold.bits)>>
          [] OTHER -> <<>>

\* `PlcClockSource`: a point that every request of this client's blocks carries, if it has one.
NoClock == <<>>
CLOCK == "plc_clock"
ClockSource(address, spec) == <<[address |-> address, spec |-> spec]>>

ClockGroups(clock) ==
    [k \in DOMAIN clock |->
        GroupOf(<<RandomPoint(clock[k].address, clock[k].spec.kind)>>, clock[k].spec, CLOCK, NoBits)]

Groups(block, ctx, clock) ==
    LET at == Resolved(block, ctx) IN
    FlattenSeq([i \in Fields(block) |-> Group(block, ctx, at, i)]) \o ClockGroups(clock)

-----------------------------------------------------------------------------
(***************************************************************************)
(* Readers: one 0403 each, the groups of words first.                      *)
(***************************************************************************)

IsDword(group) == PointWords(group.points[1]) = 2

\* A fault for Reader: the groups in the order they are declared in.
ReaderAsDeclared(groups) == groups

Reader(groups) ==
    LET order == WireOrder(Len(groups), LAMBDA i : ~IsDword(groups[i])) IN
    [k \in DOMAIN order |-> groups[order[k]]]

PointsOf(groups) == FlattenSeq([k \in DOMAIN groups |-> groups[k].points])

ReaderCommand(reader) == ReadRandomOf(PointsOf(reader))
ReaderFault(groups, ctx) ==
    LET CommandFault(command) == Validate(command, ctx) ?? CheckedEncodeFault(command, ctx) IN
    CommandFault(ReaderCommand(Reader(groups)))

\* `_random_ceiling`: only a flat limit can be split against.
CeilingKey(ctx) == <<1027, ctx.encoding, "word", ctx.link>>
CeilingFault(ctx) ==
    Refuse(CeilingKey(ctx) \notin DOMAIN ctx.profile.limits \/ ctx.profile.limits[CeilingKey(ctx)].shape # "flat",
           "configuration")
Ceiling(ctx) == ctx.profile.limits[CeilingKey(ctx)].max

\* `_chunks`: a group is never cut in two.
Cost(groups) == Len(PointsOf(groups))
Chunks(groups, ceiling) ==
    FoldLeft(LAMBDA chunks, group :
                 IF chunks # <<>> /\ Cost(Append(Last(chunks), group)) <= ceiling
                 THEN Front(chunks) \o <<Append(Last(chunks), group)>>
                 ELSE Append(chunks, <<group>>),
             <<>>, groups)

ChunksFault(groups, ctx) ==
    CeilingFault(ctx)
    ?? Refuse(\E k \in DOMAIN groups : Cost(<<groups[k]>>) > Ceiling(ctx), "point_limit")
    ?? LET EachFault(chunks) == FirstFault(Len(chunks), LAMBDA k : ReaderFault(chunks[k], ctx)) IN
       EachFault(Chunks(groups, Ceiling(ctx)))

-----------------------------------------------------------------------------
(***************************************************************************)
(* bind().                                                                 *)
(***************************************************************************)

Binding(block, clock, allow_split) == [block |-> block, clock |-> clock, allow_split |-> allow_split]

BindFault(b, ctx) ==
    LET Placed(at) == OverlapFault(b.block, at) ?? FoldFault(b.block, ctx, at)
        Split(fault, groups) ==
            IF fault = "point_limit" /\ b.allow_split THEN ChunksFault(groups, ctx) ELSE fault
        Asked(groups) == Split(ReaderFault(groups, ctx), groups)
    IN  LayoutFault(b.block)
        ?? WordOrderFault(b.block)
        ?? ResolvedFault(b.block, ctx)
        ?? Placed(Resolved(b.block, ctx))
        ?? FirstFault(Len(b.clock), LAMBDA k : ResolveFault(ctx, b.clock[k].address))
        ?? Asked(Groups(b.block, ctx, b.clock))

Readers(b, ctx) ==
    LET Chunked(groups) ==
            IF ReaderFault(groups, ctx) = "none" THEN <<groups>> ELSE Chunks(groups, Ceiling(ctx))
        OnePerChunk(chunks) == [k \in DOMAIN chunks |-> Reader(chunks[k])]
    IN  OnePerChunk(Chunked(Groups(b.block, ctx, b.clock)))

-----------------------------------------------------------------------------
(***************************************************************************)
(* The decoder.                                                            *)
(***************************************************************************)

\* An ASCII answer is turned into the octets a binary one would have had.
Image(reader, payload, codec) ==
    LET points == PointsOf(reader)
        at(k)  == PointAnswerLen(SubSeq(points, 1, k - 1), codec)
        raw(k) == ReadNumber(codec, payload, at(k), PointBits(points[k]))
    IN  IF codec = "binary" THEN payload
        ELSE FlattenSeq([k \in DOMAIN points |-> LittleEndian(raw(k), PointBits(points[k]) \div 8)])

\* `split(b"\x00", 1)[0]`.
BeforeNul(octets) ==
    LET nul == {k \in DOMAIN octets : octets[k] = 0} IN
    IF nul = {} THEN octets ELSE SubSeq(octets, 1, Min(nul) - 1)

\* One format character of the Struct.
Unpacked(spec, octets) ==
    CASE spec.form = "string" -> BeforeNul(octets)
      [] spec.words = 4 -> <<FromLittleEndian(SubSeq(octets, 1, 4)), FromLittleEndian(SubSeq(octets, 5, 8))>>
      [] OTHER -> <<IF spec.kind \in {"i16", "i32"} THEN Signed(FromLittleEndian(octets), 16 * spec.words)
                                                  ELSE FromLittleEndian(octets)>>

GroupOctets(reader, k, image) ==
    LET OctetsOf(j) == 2 * reader[j].spec.words IN
    Span(image, SumUpTo(k - 1, OctetsOf), OctetsOf(k))

GroupValue(reader, k, image) == Unpacked(reader[k].spec, GroupOctets(reader, k, image))

\* `fill`: the value of every field of this request, and of the clock.
Filled(reader, image) ==
    LET named  == {k \in DOMAIN reader : reader[k].name # ""}
        window == DOMAIN reader \ named
        holder(name) == CHOOSE k \in window : name \in DOMAIN reader[k].bits
        bit(name) == (GroupValue(reader, holder(name), image)[1]
                          \div 2 ^ reader[holder(name)].bits[name]) % 2
    IN  [name \in {reader[k].name : k \in named} |->
            GroupValue(reader, CHOOSE k \in named : reader[k].name = name, image)]
        @@ [name \in UNION {DOMAIN reader[k].bits : k \in window} |-> <<bit(name)>>]

\* `unpack` and `fill` refuse a length, a text, or a value that was not promised.
FillFault(reader, payload, codec) ==
    LET points   == PointsOf(reader)
        image    == Image(reader, payload, codec)
        value(k) == GroupValue(reader, k, image)
    IN  Refuse(Len(payload) # PointAnswerLen(points, codec), "shape")
        ?? Refuse(~Legible(codec, payload), "format")
        ?? FirstFault(Len(reader), LAMBDA k :
               Refuse(reader[k].spec.form = "string" /\ \E octet \in Range(value(k)) : octet > 127, "shape"))
        ?? FirstFault(Len(reader), LAMBDA k :
               Refuse(reader[k].spec.bounds # NoBounds /\ Outside(value(k)[1], reader[k].spec.bounds),
                      "implausible"))

-----------------------------------------------------------------------------
(***************************************************************************)
(* Writing: one 1402 in word units or one in bit units, never both.        *)
(***************************************************************************)

\* A value as it is given: the field and what it is to hold.
Given(name, value) == [name |-> name, value |-> value]

\* `_in_width` and `_refuse_out_of_range`.
NumberFault(spec, value) ==
    Refuse(spec.bounds # NoBounds /\ Outside(value[1], spec.bounds), "value")
    ?? (IF spec.kind = "f32" \/ spec.words = 4 THEN "none"
        ELSE UnsignedFault(value[1], 16 * spec.words, PointDomain(spec)))

\* A string that leaves no room for its NUL is not cut.
GivenFault(spec, value) ==
    CASE spec.form = "string" -> Refuse(Len(value) > 2 * spec.words - 1, "layout")
      [] spec.form = "number" -> NumberFault(spec, value)
      [] OTHER -> "none"

BlockWriteFault(block, given) ==
    LET spec(k) == block.fields[FieldOf(block, given[k].name)].spec
        forms   == {spec(k).form = "bit" : k \in DOMAIN given}
    IN  Refuse(given = <<>> \/ ~({given[k].name : k \in DOMAIN given} \subseteq Names(block)), "layout")
        ?? Refuse(Cardinality(forms) > 1, "layout")
        ?? FirstFault(Len(given), LAMBDA k : GivenFault(spec(k), given[k].value))

\* `_write_points`: a double is two double words, a string its registers, NUL-padded.
WritePoints(ctx, address, spec, value) ==
    LET octet(k) == IF k \in DOMAIN value THEN value[k] ELSE 0
        carried  == IF spec.form = "string"
                    THEN [k \in 1 .. spec.words |-> octet(2 * k - 1) + 256 * octet(2 * k)] ELSE value
        points   == FieldPoints(ctx, address, spec)
    IN  [k \in DOMAIN points |-> RandomWrite(points[k].address, points[k].kind, carried[k])]

BlockWriteCommand(block, ctx, given) ==
    LET at        == Resolved(block, ctx)
        number(k) == FieldOf(block, given[k].name)
        writes(k) == WritePoints(ctx, at[number(k)], block.fields[number(k)].spec, given[k].value)
    IN  IF IsBit(block.fields[number(1)])
        THEN WriteRandomBitsOf([k \in DOMAIN given |->
                 BitWrite(LiteralOf(ctx, at[number(k)]), given[k].value[1])])
        ELSE WriteRandomOf(FlattenSeq([k \in DOMAIN given |-> writes(k)]))
=============================================================================
