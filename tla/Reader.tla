------------------------------- MODULE Reader -------------------------------
(***************************************************************************)
(* ResponseAccumulator of src/aslmp/wire/reader.py: units in, one frame    *)
(* out.  An accumulator is a record; `feed` and `take` are a refusal and   *)
(* the accumulator afterwards.  The prefix is decoded when it is complete, *)
(* and known says that it has been.                                        *)
(***************************************************************************)
EXTENDS Frames

Accumulator(f, c, expected) ==
    [frame |-> f, codec |-> c, expect |-> expected, buf |-> <<>>, known |-> FALSE, taken |-> FALSE]

\* A fault for Total: L is taken to count from behind the end code.
TotalBehindEndCode(a) ==
    DataOffset(a.frame, a.codec) + Prefix(a.frame, a.codec, a.buf).declared

\* `prefix + L`.
Total(a) == PrefixUnits(a.frame, a.codec) + Prefix(a.frame, a.codec, a.buf).declared

BytesNeeded(a) ==
    IF a.taken THEN 0
    ELSE (IF a.known THEN Total(a) ELSE PrefixUnits(a.frame, a.codec)) - Len(a.buf)

Complete(a) == ~a.taken /\ a.known /\ BytesNeeded(a) = 0

\* The buffer takes the units before anything is looked at.
Buffered(a, units) == [a EXCEPT !.buf = @ \o units]
Due2Decode(a) == ~a.known /\ Len(a.buf) >= PrefixUnits(a.frame, a.codec)

FeedFault(a, units) ==
    LET b == Buffered(a, units) IN
    IF a.taken THEN "trailing"
    ELSE (IF Due2Decode(b) THEN PrefixFault(b.frame, b.codec, b.buf, TRUE) ELSE "none")
         ?? (IF (a.known \/ Due2Decode(b)) /\ Len(b.buf) > Total(b) THEN "trailing" ELSE "none")

Feed(a, units) ==
    LET b == Buffered(a, units) IN [b EXCEPT !.known = @ \/ Due2Decode(b)]

TakeFault(a) ==
    IF a.taken \/ ~Complete(a) THEN "incomplete"
    ELSE ParseFault(a.frame, a.codec, a.buf, a.expect)

Take(a) == [a EXCEPT !.taken = TRUE]
Taken(a) == RawResponse(a.frame, a.codec, a.buf)
=============================================================================
