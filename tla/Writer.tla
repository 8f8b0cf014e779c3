------------------------------- MODULE Writer -------------------------------
(***************************************************************************)
(* gobzip2's Writer on its single-threaded path (writer.go, Concurrency    *)
(* <= 1): bytes go through a run-length stage into a block; a full block   *)
(* is flushed to the destination, after the stream's header, and Close     *)
(* flushes the rest and writes the trailer.                                *)
(*                                                                         *)
(* A checksum is the sequence of bytes it was computed over: two sequences *)
(* are told apart by it.  The sorting and the entropy coding of a block    *)
(* belong to other modules: an item of the destination holds what they are *)
(* given.  A call is cut where the destination may fail.                   *)
(*                                                                         *)
(* Once Close has returned, the caller calls nothing but Reset.            *)
(***************************************************************************)
EXTENDS Naturals, Sequences, SequencesExt, Rle

CONSTANTS ByteTop,      \* the largest byte, 255 in the code
          MaxRun,       \* the longest run of one pair, 255 in the code
          BlockMax,     \* nblockMAX
          Margin,       \* the room of a block beyond nblockMAX, 19 in the code
          MaxInput,     \* bound: bytes written per stream
          SinkMayFail   \* whether writes to the destination may fail

ASSUME RunAssumption == ByteTop \in Nat /\ MaxRun \in 4..ByteTop + 4
ASSUME BlockAssumption == BlockMax \in Nat \ {0} /\ Margin \in Nat \ 0..3

Byte == 0..ByteTop
NoCh == ByteTop + 1     \* 256: no character yet

VARIABLES
    inCh, inLen,        \* stateInCh, stateInLen: the run not yet in the block
    block,              \* block[:nblock]
    crc,                \* blockCRC
    inUse,              \* the bytes marked in inUse
    headerWritten,
    combined,           \* combinedCRC: the checksums it was folded over
    bwErr,              \* bw.err # nil: a write to the destination failed
    err,                \* w.err # nil
    pc,                 \* "idle" between calls, else where the flush stands
    isLast,             \* flushBlock's argument
    dst,                \* the items delivered to the destination
    input               \* history: the bytes written to the stream

blockVars == <<inCh, inLen, block, crc, inUse>>
streamVars == <<headerWritten, combined, err>>
sinkVars == <<bwErr, dst>>
vars == <<blockVars, streamVars, sinkVars, pc, isLast, input>>

HeaderItem == [kind |-> "header"]
BlockItem == [kind |-> "block", bytes |-> block, crc |-> crc, inUse |-> inUse]
TrailerItem == [kind |-> "trailer", combined |-> combined]

-----------------------------------------------------------------------------
(* addCharToBlock *)

\* Whether the run so far goes to the block before ch is noted: ch ends it, or it
\* is as long as a pair can be.
CutsOneLater(ch) == ch # inCh \/ inLen = MaxRun + 1
Cuts(ch) == ch # inCh \/ inLen = MaxRun

\* The bytes marked when a run goes to the block: its byte, and its count.
MarksNoCount == {inCh}
Marks == {inCh} \cup (IF inLen >= 4 THEN {inLen - 4} ELSE {})

\* addPairToBlock; the branch for a run of one byte does the same at once.
AddPair ==
    IF inCh = NoCh
    THEN UNCHANGED <<block, crc, inUse>>
    ELSE /\ block' = block \o RunCode(inCh, inLen)
         /\ crc' = crc \o Repeat(inCh, inLen)
         /\ inUse' = inUse \cup Marks

AddChar(ch) ==
    IF Cuts(ch)
    THEN AddPair /\ inCh' = ch /\ inLen' = 1
    ELSE inLen' = inLen + 1 /\ UNCHANGED <<inCh, block, crc, inUse>>

\* The block is flushed as soon as it reaches nblockMAX.
FullPast == Len(block') > BlockMax
Full == Len(block') >= BlockMax

\* The run not yet in the block goes there before the last flush.
FlushRLForgotten == UNCHANGED blockVars
FlushRL == AddPair /\ inCh' = NoCh /\ inLen' = 0

FlushStart == IF headerWritten THEN "block" ELSE "header"

Init ==
    /\ inCh = NoCh /\ inLen = 0
    /\ block = << >> /\ crc = << >> /\ inUse = {}
    /\ headerWritten = FALSE
    /\ combined = << >>
    /\ bwErr = FALSE /\ err = FALSE
    /\ pc = "idle" /\ isLast = FALSE
    /\ dst = << >>
    /\ input = << >>

\* One byte of a Write; a Write after an error does nothing.
WriteByte(ch) ==
    /\ pc = "idle" /\ ~err
    /\ Len(input) < MaxInput
    /\ input' = Append(input, ch)
    /\ AddChar(ch)
    /\ pc' = IF Full THEN FlushStart ELSE "idle"
    /\ isLast' = FALSE
    /\ UNCHANGED <<streamVars, sinkVars>>

\* Close: flushRL, then flushBlock(true).
Close ==
    /\ pc = "idle" /\ ~err
    /\ FlushRL
    /\ pc' = FlushStart
    /\ isLast' = TRUE
    /\ UNCHANGED <<streamVars, sinkVars, input>>

\* Reset clears every field, whatever became of the stream before.
Reset ==
    /\ pc \in {"idle", "closed"}
    /\ inCh' = NoCh /\ inLen' = 0
    /\ block' = << >> /\ crc' = << >> /\ inUse' = {}
    /\ headerWritten' = FALSE
    /\ combined' = << >>
    /\ bwErr' = FALSE /\ err' = FALSE
    /\ pc' = "idle"
    /\ isLast' = FALSE
    /\ dst' = << >>
    /\ input' = << >>

-----------------------------------------------------------------------------
(* compressBlockSingle *)

\* An item goes through the bitWriter, which drops it if a write failed before.
Emit(item) ==
    \/ ~bwErr /\ dst' = Append(dst, item) /\ UNCHANGED bwErr
    \/ (bwErr \/ SinkMayFail) /\ bwErr' = TRUE /\ UNCHANGED dst

WriteHeader ==
    /\ pc = "header"
    /\ Emit(HeaderItem)
    /\ headerWritten' = TRUE
    /\ pc' = "block"
    /\ UNCHANGED <<blockVars, combined, err, isLast, input>>

\* What combinedCRC becomes with the block's checksum.
FoldedInFront == <<crc>> \o combined
Folded == Append(combined, crc)

WriteBlock ==
    /\ pc = "block" /\ block # << >>
    /\ combined' = Folded
    /\ Emit(BlockItem)
    /\ pc' = "check"
    /\ UNCHANGED <<blockVars, headerWritten, err, isLast, input>>

\* Close found nothing to flush; a Write flushes full blocks only.
NoBlock ==
    /\ pc = "block" /\ block = << >>
    /\ pc' = "trailer"
    /\ UNCHANGED <<blockVars, streamVars, sinkVars, isLast, input>>

\* After the block: return the error, go on to the trailer, or prepareNewBlock.
AfterBlock ==
    /\ pc = "check"
    /\ \/ /\ bwErr
          /\ err' = TRUE
          /\ pc' = "idle"
          /\ UNCHANGED <<block, crc, inUse>>
       \/ /\ ~bwErr /\ isLast
          /\ pc' = "trailer"
          /\ UNCHANGED <<err, block, crc, inUse>>
       \/ /\ ~bwErr /\ ~isLast
          /\ pc' = "idle"
          /\ block' = << >> /\ crc' = << >> /\ inUse' = {}
          /\ UNCHANGED err
    /\ UNCHANGED <<inCh, inLen, headerWritten, combined, sinkVars, isLast, input>>

WriteTrailer ==
    /\ pc = "trailer"
    /\ Emit(TrailerItem)
    /\ pc' = "return"
    /\ UNCHANGED <<blockVars, streamVars, isLast, input>>

\* Close returns bw.err, which also becomes w.err.
CloseReturns ==
    /\ pc = "return"
    /\ err' = bwErr
    /\ pc' = "closed"
    /\ UNCHANGED <<blockVars, headerWritten, combined, sinkVars, isLast, input>>

CompressBlock ==
    WriteHeader \/ WriteBlock \/ NoBlock \/ AfterBlock \/ WriteTrailer \/ CloseReturns

Next ==
    \/ \E ch \in Byte : WriteByte(ch)
    \/ Close \/ Reset
    \/ CompressBlock

Spec == Init /\ [][Next]_vars

-----------------------------------------------------------------------------
\* What a decoder finds in the blocks of the destination.
Decoded == FlattenSeq([i \in DOMAIN dst |->
    IF dst[i].kind = "block" THEN UnRLE(dst[i].bytes) ELSE << >>])

\* The block that is not yet in the combined checksum: prepareNewBlock or the end.
Unfolded == pc \notin {"check", "trailer", "return", "closed"} /\ ~err

\* The single-threaded Writer keeps the promise of any Writer.  A block is the
\* data it was made of (what its bytes decode to, says BlockDecodes), and it is sealed
\* when its flush begins.
Promise == INSTANCE Bzip2Stream WITH
    Block <- Seq(Byte),
    sealed <- IF Unfolded /\ pc # "idle" /\ block # << >> THEN Append(combined, crc) ELSE combined,
    dst <- [i \in DOMAIN dst |->
              CASE dst[i].kind = "header" -> <<"header">>
                [] dst[i].kind = "block" -> <<"block", dst[i].crc>>
                [] dst[i].kind = "trailer" -> <<"trailer", dst[i].combined>>],
    sink <- IF bwErr THEN "failed" ELSE "ok",
    phase <- IF pc \in {"trailer", "return", "closed"} THEN "closing" ELSE "open",
    result <- IF err THEN "error" ELSE IF pc = "closed" THEN "ok" ELSE "none"

-----------------------------------------------------------------------------
TypeOK ==
    /\ inCh \in 0..NoCh /\ inLen \in 0..MaxRun
    /\ (inCh = NoCh) = (inLen = 0)
    /\ block \in Seq(Byte) /\ crc \in Seq(Byte)
    /\ inUse \subseteq Byte
    /\ headerWritten \in BOOLEAN /\ bwErr \in BOOLEAN
    /\ err \in BOOLEAN /\ isLast \in BOOLEAN
    /\ combined \in Seq(Seq(Byte))
    /\ pc \in {"idle", "header", "block", "check", "trailer", "return", "closed"}
    /\ \A i \in DOMAIN dst : dst[i].kind \in {"header", "block", "trailer"}
    /\ input \in Seq(Byte)

\* The checksum of a block is that of what a decoder makes of the block's bytes, at
\* every moment of a run and across blocks (writer.go:171-248, reader.go:494-556).
BlockDecodes == UnRLE(block) = crc

\* What was written is, in order, in the delivered blocks, in the current block and in
\* the run not yet in it, which Close leaves empty: a flush in the middle of a run loses
\* and doubles nothing (writer.go:121-147, 250-264).
NothingLost ==
    ~bwErr => Decoded \o (IF Unfolded THEN crc ELSE << >>)
                      \o (IF isLast THEN << >> ELSE Repeat(inCh, inLen)) = input

\* The bytes marked as used are those of the block, the counts of long runs among
\* them: the coder gives codes to just these (writer.go:178, 200, 228, 298-304).
AlphabetExact == inUse = Range(block)

\* A block with the run flushed into it by Close still fits: the reader refuses one
\* longer than 100000*level = nblockMAX + 19 (writer.go:129, reader.go:400, 410).
BlockFits == Len(block) <= BlockMax + Margin

\* Header, blocks in order, trailer over the same blocks; an error is reported by the
\* call that meets it and nothing is delivered after it (writer.go:264-321).
KeepsPromise == Promise!Spec
=============================================================================
