-------------------------------- MODULE BitIO --------------------------------
(***************************************************************************)
(* gobzip2's bit streams (bitio.go).  A bitWriter packs values of any      *)
(* number of bits into the bytes of its destination; a bitBuffer packs     *)
(* them in memory, for one block, and is spliced into the bitWriter at     *)
(* whatever bit that stands; a bitReader takes the bytes apart again.      *)
(*                                                                         *)
(* A value is the sequence of its bits, most significant first, and an     *)
(* accumulator the sequence of its AccBits bits.  A call is cut at every   *)
(* byte that goes to the destination or comes from the source.             *)
(***************************************************************************)
EXTENDS Integers, Sequences, SequencesExt

CONSTANTS ByteBits,     \* the bits of a byte, 8 in the code
          AccBits,      \* the bits of an accumulator, 64 in the code
          MaxBits,      \* the most bits one call writes or reads, 32 in the code
          MaxWritten,   \* bound: bits written to one stream
          MaxRead,      \* bound: bits read from it, those of failed calls counted
          SinkMayFail, SourceMayFail

ASSUME ByteAssumption == ByteBits \in Nat \ {0}
\* What a call adds to an incomplete byte fits the accumulator.
ASSUME AccAssumption ==
    /\ MaxBits \in Nat \ {0} /\ AccBits \in Nat
    /\ AccBits >= MaxBits + ByteBits - 1
    /\ AccBits >= 2 * ByteBits - 1
ASSUME BoundAssumption == MaxWritten \in Nat /\ MaxRead \in Nat
ASSUME FailAssumption == SinkMayFail \in BOOLEAN /\ SourceMayFail \in BOOLEAN

Bit == {0, 1}
Acc == [1..AccBits -> Bit]
Value == UNION {[1..n -> Bit] : n \in 1..MaxBits}

VARIABLES
    pc,                 \* "idle", "write", "flush", then "flushed" and "read"
    buf, nbits, err,    \* the bitWriter
    out,                \* the bits of the bytes that the destination took
    todo,               \* the values the call in progress has yet to write
    data, bbuf, bnbits, total,      \* the bitBuffer, data by its bits
    rbuf, rnbits, rerr, \* the bitReader
    rpos,               \* bits of the source it has fetched
    want,               \* readBits' n
    asked,              \* history: the bits the bitWriter was asked to write
    buffered,           \* history: the bits the bitBuffer was asked to write
    got                 \* history: the bits readBits returned, also in failed calls

writerVars == <<buf, nbits, err, out, todo>>
bufferVars == <<data, bbuf, bnbits, total, buffered>>
readerVars == <<rbuf, rnbits, rerr, rpos, want, got>>
vars == <<pc, writerVars, bufferVars, readerVars, asked>>

-----------------------------------------------------------------------------
(* Accumulators. *)

Empty == [i \in 1..AccBits |-> 0]

\* buf |= v << (AccBits - n - Len(v)), behind the n bits already there.
Place(acc, n, v) ==
    [i \in 1..AccBits |->
        IF i - n \in DOMAIN v /\ v[i - n] = 1 THEN 1 ELSE acc[i]]

\* buf <<= k
ShiftCarry(acc, k) == [i \in 1..AccBits |-> IF i + k <= AccBits THEN acc[i + k] ELSE acc[i]]
Shift(acc, k) == [i \in 1..AccBits |-> IF i + k <= AccBits THEN acc[i + k] ELSE 0]

Top(acc, n) == SubSeq(acc, 1, n)

Init ==
    /\ pc = "idle"
    /\ buf = Empty /\ nbits = 0 /\ err = FALSE
    /\ out = << >> /\ todo = << >>
    /\ data = << >> /\ bbuf = Empty /\ bnbits = 0 /\ total = 0
    /\ rbuf = Empty /\ rnbits = 0 /\ rerr = "none" /\ rpos = 0 /\ want = 0
    /\ asked = << >> /\ buffered = << >> /\ got = << >>

-----------------------------------------------------------------------------
(* bitBuffer *)

\* writeBits: whole bytes go to data, the rest stays in the accumulator.
BufferBits(v) ==
    /\ pc = "idle"
    /\ Len(asked) + Len(buffered) + Len(v) <= MaxWritten
    /\ LET acc == Place(bbuf, bnbits, v)
           bits == bnbits + Len(v)
           whole == ByteBits * (bits \div ByteBits)
       IN  /\ data' = data \o Top(acc, whole)
           /\ bbuf' = Shift(acc, whole)
           /\ bnbits' = bits % ByteBits
    /\ total' = total + Len(v)
    /\ buffered' = buffered \o v
    /\ UNCHANGED <<pc, writerVars, readerVars, asked>>

\* The values writeTo passes on: every byte of data, then what is left.
RestPadded == << Top(bbuf, ByteBits) >>
Rest == IF bnbits > 0 THEN << Top(bbuf, bnbits) >> ELSE << >>
DataBytes == [k \in 1..Len(data) \div ByteBits |->
                 SubSeq(data, (k - 1) * ByteBits + 1, k * ByteBits)]

\* writeTo is called; the next block has a bitBuffer of its own.
WriteTo ==
    /\ pc = "idle"
    /\ buffered # << >>
    /\ todo' = DataBytes \o Rest
    /\ asked' = asked \o buffered
    /\ pc' = "write"
    /\ data' = << >> /\ bbuf' = Empty /\ bnbits' = 0 /\ total' = 0
    /\ buffered' = << >>
    /\ UNCHANGED <<buf, nbits, err, out, readerVars>>

-----------------------------------------------------------------------------
(* bitWriter *)

\* writeBits is called, by itself (writeByte and writeUint32 call it too).
WriteBits(v) ==
    /\ pc = "idle"
    /\ Len(asked) + Len(buffered) + Len(v) <= MaxWritten
    /\ todo' = << v >>
    /\ asked' = asked \o v
    /\ pc' = "write"
    /\ UNCHANGED <<buf, nbits, err, out, bufferVars, readerVars>>

\* After an error every call returns at once.
DeadNever == FALSE
Dead == err

\* The next value enters the accumulator.
PutValue ==
    /\ pc = "write" /\ todo # << >>
    /\ Dead \/ nbits < ByteBits
    /\ IF Dead
       THEN UNCHANGED <<buf, nbits>>
       ELSE /\ buf' = Place(buf, nbits, Head(todo))
            /\ nbits' = nbits + Len(Head(todo))
    /\ todo' = Tail(todo)
    /\ UNCHANGED <<pc, err, out, bufferVars, readerVars, asked>>

\* A byte goes to the destination, or fails to: the accumulator keeps it then.
WriteOut(left) ==
    \/ /\ out' = out \o Top(buf, ByteBits)
       /\ buf' = Shift(buf, ByteBits)
       /\ nbits' = left
       /\ err' = FALSE
    \/ /\ SinkMayFail
       /\ err' = TRUE
       /\ UNCHANGED <<buf, nbits, out>>

DrainByte ==
    /\ pc = "write" /\ ~Dead
    /\ nbits >= ByteBits
    /\ WriteOut(nbits - ByteBits)
    /\ UNCHANGED <<pc, todo, bufferVars, readerVars, asked>>

WriteReturns ==
    /\ pc = "write" /\ todo = << >>
    /\ Dead \/ nbits < ByteBits
    /\ pc' = "idle"
    /\ UNCHANGED <<writerVars, bufferVars, readerVars, asked>>

\* flush, once: everything was written, no block is left in a buffer (writer.go:311, 430).
Flush ==
    /\ pc = "idle" /\ buffered = << >>
    /\ pc' = "flush"
    /\ UNCHANGED <<writerVars, bufferVars, readerVars, asked>>

\* Whether flush writes another byte, and what is left after it.
MoreWhole == nbits >= ByteBits
More == nbits > 0
LeftWrapped == nbits - ByteBits
Left == IF nbits >= ByteBits THEN nbits - ByteBits ELSE 0

FlushByte ==
    /\ pc = "flush" /\ ~err
    /\ More
    /\ WriteOut(Left)
    /\ UNCHANGED <<pc, todo, bufferVars, readerVars, asked>>

FlushReturns ==
    /\ pc = "flush"
    /\ err \/ ~More
    /\ pc' = "flushed"
    /\ UNCHANGED <<writerVars, bufferVars, readerVars, asked>>

-----------------------------------------------------------------------------
(* bitReader, over the bytes that were written. *)

ReadBits(n) ==
    /\ pc = "flushed"
    /\ Len(got) + n <= MaxRead
    /\ want' = n
    /\ pc' = "read"
    /\ UNCHANGED <<writerVars, bufferVars, rbuf, rnbits, rerr, rpos, got, asked>>

\* br.err after a ReadByte that gave a byte: the source works again, the error stays.
ErrorCleared == "none"
ErrorKept == rerr

FetchByte ==
    /\ pc = "read" /\ rnbits < want
    /\ rpos < Len(out)
    /\ rbuf' = Place(rbuf, rnbits, SubSeq(out, rpos + 1, rpos + ByteBits))
    /\ rnbits' = rnbits + ByteBits
    /\ rpos' = rpos + ByteBits
    /\ rerr' = ErrorKept
    /\ UNCHANGED <<pc, writerVars, bufferVars, want, got, asked>>

\* br.err after a failed ReadByte: the first error stays.
FirstError(e) == IF rerr = "none" THEN e ELSE rerr

\* readBits returns 0; the bits it had fetched stay in the accumulator.
FetchFails ==
    /\ pc = "read" /\ rnbits < want
    /\ \/ rpos = Len(out) /\ rerr' = FirstError("unexpected EOF")
       \/ SourceMayFail /\ rerr' = FirstError("fault")
    /\ got' = got \o [i \in 1..want |-> 0]
    /\ pc' = "flushed"
    /\ UNCHANGED <<writerVars, bufferVars, rbuf, rnbits, rpos, want, asked>>

\* br.nbits after a read.
UnreadForgotten == rnbits
Unread == rnbits - want

ReadReturns ==
    /\ pc = "read" /\ rnbits >= want
    /\ got' = got \o Top(rbuf, want)
    /\ rbuf' = Shift(rbuf, want)
    /\ rnbits' = Unread
    /\ pc' = "flushed"
    /\ UNCHANGED <<writerVars, bufferVars, rerr, rpos, want, asked>>

-----------------------------------------------------------------------------
Next ==
    \/ \E v \in Value : BufferBits(v) \/ WriteBits(v)
    \/ WriteTo \/ PutValue \/ DrainByte \/ WriteReturns
    \/ Flush \/ FlushByte \/ FlushReturns
    \/ \E n \in 1..MaxBits : ReadBits(n)
    \/ FetchByte \/ FetchFails \/ ReadReturns

Spec == Init /\ [][Next]_vars

-----------------------------------------------------------------------------
TypeOK ==
    /\ pc \in {"idle", "write", "flush", "flushed", "read"}
    /\ buf \in Acc /\ bbuf \in Acc /\ rbuf \in Acc
    /\ nbits \in 0..AccBits /\ rnbits \in 0..AccBits
    /\ bnbits \in 0..ByteBits - 1
    /\ err \in BOOLEAN
    /\ rerr \in {"none", "unexpected EOF", "fault"}
    /\ out \in Seq(Bit) /\ data \in Seq(Bit)
    /\ \A k \in DOMAIN todo : todo[k] \in Seq(Bit) /\ Len(todo[k]) \in 1..AccBits
    /\ total \in Nat /\ want \in 0..MaxBits /\ rpos \in 0..Len(out)

\* The bits not yet at the destination, in the accumulator and in the call's values.
Waiting == Top(buf, nbits) \o FlattenSeq(todo)

\* Every bit the encoder wrote, straight or by way of a buffer spliced in at any bit
\* position, is at the destination or still to come, in order and without padding
\* between them: the parallel path's blocks join without a gap (bitio.go:18-34, 108-119).
ExactBits ==
    pc \in {"idle", "write"} /\ ~err => out \o Waiting = asked

\* The bitBuffer holds exactly the bits of its block, and counts them (bitio.go:86-95).
BufferExact == data \o Top(bbuf, bnbits) = buffered /\ total = Len(buffered)

\* Behind its valid bits an accumulator is zero: the next value is OR-ed in there
\* (bitio.go:23, 31, 87, 92, 147, 151).
NoStrayBits ==
    /\ \A i \in nbits + 1..AccBits : buf[i] = 0
    /\ \A i \in bnbits + 1..AccBits : bbuf[i] = 0
    /\ \A i \in rnbits + 1..AccBits : rbuf[i] = 0

\* After flush the destination has all the bits and fewer than a byte of zeros after
\* them (bitio.go:49-67).
FlushPads ==
    pc = "flushed" /\ ~err =>
        /\ Len(out) - Len(asked) \in 0..ByteBits - 1
        /\ Top(out, Len(asked)) = asked
        /\ \A i \in Len(asked) + 1..Len(out) : out[i] = 0

\* Nothing is written behind a failed byte (bitio.go:19-21, 28-30, 51-53).
StopsAtError == [][err => out' = out /\ err']_vars

\* All that readBits ever returned are the bits that were written, from the first on and
\* whatever the sizes of the reads, as long as Err() is nil.  The callers ask Err only after
\* several reads: had one of them failed and the source worked again for the next, the
\* zeros it returned would be taken for data (bitio.go:134-154, 162-165).
ReadsBack == rerr = "none" => got \o Top(rbuf, rnbits) = Top(out, rpos)
=============================================================================
