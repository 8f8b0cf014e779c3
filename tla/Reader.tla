------------------------------- MODULE Reader -------------------------------
(***************************************************************************)
(* gobzip2's Reader (reader.go): Read serves bytes from outBuf and, when   *)
(* it is drained, decodes the next block of the source into it, going      *)
(* through the trailers and headers of concatenated streams on the way.    *)
(*                                                                         *)
(* The source is a sequence of parts - headers, blocks, trailers, junk and *)
(* its end - each chosen when it is read.  A block is identified with its  *)
(* length: block b holds the b bytes <<b, 1>> .. <<b, b>>.  A checksum is  *)
(* what it was computed over.  Whatever readBlock finds wrong inside a     *)
(* block before the data comes out counts as junk; the decoding of a block *)
(* belongs to other modules.                                               *)
(***************************************************************************)
EXTENDS Naturals, Sequences, SequencesExt

CONSTANTS Block,        \* the blocks, each its number of bytes
          Asked,        \* the values of len(p) in Read(p)
          MaxParts      \* bound: parts read from one source, its end not counted

ASSUME BlockAssumption == Block \subseteq Nat \ {0}
ASSUME AskedAssumption == Asked \subseteq Nat \ {0}
ASSUME PartsAssumption == MaxParts \in Nat

Data(b) == [j \in 1..b |-> <<b, j>>]

HeaderPart == [kind |-> "header"]
JunkPart == [kind |-> "junk"]
\* A block whose stored checksum is right or not.
BlockPart(b, good) == [kind |-> "block", block |-> b, good |-> good]
\* A trailer with the combined checksum of some blocks, ending a byte or not.
TrailerPart(over, even) == [kind |-> "trailer", over |-> over, even |-> even]
\* The source ends, or fails, before the next part or in the middle of it.
EndPart(why, within) == [kind |-> "end", why |-> why, within |-> within]
Ends == {EndPart(why, within) : why \in {"eof", "fault"}, within \in BOOLEAN}

VARIABLES
    hasHeader,          \* blockSize100k # 0
    combined,           \* combinedCRC: the blocks it was folded over
    outBuf, outPos,
    needBlock,
    streamEnd,
    err,                \* r.err: "none", "EOF", "unexpected", "fault", "structural", "checksum"
    even,               \* the bitReader stands at the start of a byte of the source,
                        \* as far as streams laid end to end are concerned
    pc,                 \* "idle", or where the Read in progress stands
    len, n,             \* len(p), and the bytes it got so far
    ret,                \* what the last Read returned, n and error
    seen,               \* history: the parts read from the source
    delivered,          \* history: the bytes Read handed over since the last Reset
    left                \* history: what outBuf held at the last Reset

streamVars == <<hasHeader, combined, streamEnd, even, seen>>
bufVars == <<outBuf, outPos, needBlock>>
callVars == <<pc, len, n, ret, delivered>>
vars == <<streamVars, bufVars, callVars, err, left>>

Returned(m, e) == [n |-> m, err |-> e]

Init ==
    /\ hasHeader = FALSE
    /\ combined = << >>
    /\ outBuf = << >> /\ outPos = 0
    /\ needBlock = TRUE
    /\ streamEnd = FALSE
    /\ err = "none"
    /\ even = TRUE
    /\ pc = "idle" /\ len = 0 /\ n = 0
    /\ ret = Returned(0, "none")
    /\ seen = << >> /\ delivered = << >> /\ left = << >>

-----------------------------------------------------------------------------
(* Read *)

Read(m) ==
    /\ pc = "idle"
    /\ pc' = "loop"
    /\ len' = m /\ n' = 0
    /\ UNCHANGED <<streamVars, bufVars, ret, delivered, err, left>>

\* An error waits until nothing was delivered by the call.
ReportAtOnce == Returned(n, err)
Report == IF n = len \/ n > 0 THEN Returned(n, "none") ELSE Returned(0, err)

ReadReturn ==
    /\ pc = "loop"
    /\ n = len \/ err # "none"
    /\ ret' = Report
    /\ pc' = "idle"
    /\ UNCHANGED <<streamVars, bufVars, len, n, delivered, err, left>>

\* The rest of the loop is for a call that wants more and has met no error.
Wants == pc = "loop" /\ n < len /\ err = "none"
Drained == outPos >= Len(outBuf)

Serve ==
    /\ Wants /\ ~Drained
    /\ LET copied == IF len - n < Len(outBuf) - outPos THEN len - n ELSE Len(outBuf) - outPos
       IN  /\ delivered' = delivered \o SubSeq(outBuf, outPos + 1, outPos + copied)
           /\ outPos' = outPos + copied
           /\ n' = n + copied
    /\ UNCHANGED <<streamVars, outBuf, needBlock, pc, len, ret, err, left>>

\* readNext: a header first, at the start and after a trailer.
NextPart == IF ~hasHeader \/ streamEnd THEN "header" ELSE "block"

NeedBlock ==
    /\ Wants /\ Drained /\ needBlock
    /\ pc' = NextPart
    /\ UNCHANGED <<streamVars, bufVars, len, n, ret, delivered, err, left>>

\* A block was served: the line marked "Should not reach here".
NeedBlockUnset == FALSE
NeedBlockSet == TRUE
BlockServed ==
    /\ Wants /\ Drained /\ ~needBlock
    /\ needBlock' = NeedBlockSet
    /\ UNCHANGED <<streamVars, outBuf, outPos, callVars, err, left>>

-----------------------------------------------------------------------------
(* readStreamHeader and readBlock, each reading one part of the source. *)

Fails(e) ==
    /\ err' = e
    /\ pc' = "loop"
    /\ UNCHANGED <<hasHeader, combined, streamEnd, even, outBuf, outPos, needBlock>>

EndError(part) == IF part.why = "eof" THEN "unexpected" ELSE "fault"

\* readStreamHeader takes a source that ends here for the end of the data.
CleanEndAnywhere(part) == ~part.within
CleanEnd(part) == ~part.within /\ (combined # << >> \/ streamEnd)

\* combinedCRC at the start of a stream.
CombinedKept == combined
CombinedAtStart == << >>

\* Padding bits after a trailer are not skipped: what follows is read from the
\* middle of a byte, and no header is found there.
ReadHeader(part) ==
    \/ /\ part.kind = "end"
       /\ Fails(IF CleanEnd(part) THEN "EOF" ELSE EndError(part))
    \/ /\ part.kind # "end"
       /\ part.kind # "header" \/ ~even
       /\ Fails("structural")
    \/ /\ part.kind = "header" /\ even
       /\ hasHeader' = TRUE
       /\ combined' = CombinedAtStart
       /\ streamEnd' = FALSE
       /\ pc' = "block"
       /\ UNCHANGED <<even, bufVars, err>>

\* The checksum of the decoded data against the stored one.
BlockVerifiedNever(part) == TRUE
BlockVerified(part) == part.good

\* Where Read begins in a new block.
StartPosKept == outPos
StartPos == 0

\* The data is in outBuf before its checksum is compared.
ReadGoodOrBadBlock(part) ==
    /\ part.kind = "block"
    /\ outBuf' = Data(part.block)
    /\ pc' = "loop"
    /\ IF BlockVerified(part)
       THEN /\ combined' = Append(combined, part.block)
            /\ outPos' = StartPos
            /\ needBlock' = FALSE
            /\ UNCHANGED err
       ELSE /\ err' = "checksum"
            /\ UNCHANGED <<combined, outPos, needBlock>>
    /\ UNCHANGED <<hasHeader, streamEnd, even>>

\* After the trailer readBlock calls readNext again, which reads a header.
ReadBlock(part) ==
    \/ /\ part.kind = "end"
       /\ Fails(EndError(part))
    \/ /\ part.kind \in {"header", "junk"}
       /\ Fails("structural")
    \/ /\ part.kind = "trailer" /\ part.over # combined
       /\ Fails("checksum")
    \/ /\ part.kind = "trailer" /\ part.over = combined
       /\ streamEnd' = TRUE
       /\ even' = part.even
       /\ pc' = "header"
       /\ UNCHANGED <<hasHeader, combined, bufVars, err>>
    \/ ReadGoodOrBadBlock(part)

-----------------------------------------------------------------------------
(* The source, told without the Reader. *)

IsKind(i, kind) == seen[i].kind = kind
\* The header of the stream that part i continues, if it continues one, and the blocks
\* of that stream before i.
Open(i) == {h \in 1..i - 1 : IsKind(h, "header") /\ \A k \in h + 1..i - 1 : IsKind(k, "block")}
BlocksSince(h, i) == [k \in 1..i - 1 - h |-> seen[h + k].block]

\* The first k parts are streams laid end to end, the last one perhaps not finished.
Streams(k) ==
    \A i \in 1..k :
      \/ IsKind(i, "header") /\ (i = 1 \/ IsKind(i - 1, "trailer"))
      \/ /\ i > 1 /\ seen[i - 1].kind \in {"header", "block"}
         /\ \/ IsKind(i, "block") /\ seen[i].good
            \/ /\ IsKind(i, "trailer")
               /\ \E h \in Open(i) : seen[i].over = BlocksSince(h, i)

\* Every stream but the last ends a byte of the source.
EvenStreams(k) == \A i \in 1..k - 1 : IsKind(i, "trailer") => seen[i].even

\* Where in a byte a trailer may end: header, magic and checksum are whole bytes, so it
\* ends one, unless there are blocks in the stream.
TrailerEnds == IF seen # << >> /\ Last(seen) = HeaderPart THEN {TRUE} ELSE BOOLEAN

\* What the source may hold next: a trailer may carry the checksum of the blocks of
\* its stream or a wrong one.
Parts ==
    Ends \cup
    (IF Len(seen) = MaxParts THEN {}
     ELSE {HeaderPart, JunkPart}
          \cup {BlockPart(b, good) : b \in Block, good \in BOOLEAN}
          \cup {TrailerPart(over, e) : e \in TrailerEnds,
                   over \in {BlocksSince(h, Len(seen) + 1) : h \in Open(Len(seen) + 1)}
                            \cup {<<0>>}})

ReadPart ==
    \E part \in Parts :
      /\ \/ pc = "header" /\ ReadHeader(part)
         \/ pc = "block" /\ ReadBlock(part)
      /\ seen' = Append(seen, part)
      /\ UNCHANGED <<len, n, ret, delivered, left>>

-----------------------------------------------------------------------------
\* Reset keeps outBuf for its memory, but also its contents.
Reset ==
    /\ pc = "idle"
    /\ hasHeader' = FALSE
    /\ combined' = << >>
    /\ outPos' = 0 /\ UNCHANGED outBuf
    /\ needBlock' = TRUE
    /\ streamEnd' = FALSE
    /\ err' = "none"
    /\ even' = TRUE
    /\ pc' = "idle" /\ len' = 0 /\ n' = 0
    /\ ret' = Returned(0, "none")
    /\ seen' = << >> /\ delivered' = << >> /\ left' = outBuf

ReadGoesOn == ReadReturn \/ Serve \/ NeedBlock \/ BlockServed \/ ReadPart

Next ==
    \/ \E m \in Asked : Read(m)
    \/ ReadGoesOn
    \/ Reset

Spec == Init /\ [][Next]_vars

\* A call that was made goes on: Read never waits for anything but its source.
FairSpec == Spec /\ WF_vars(ReadGoesOn)

-----------------------------------------------------------------------------
\* The data of the good blocks, each in its place.
Verified == FlattenSeq([i \in DOMAIN seen |->
    IF IsKind(i, "block") /\ Streams(i) THEN Data(seen[i].block) ELSE << >>])

Unserved == IF err = "none" THEN SubSeq(outBuf, outPos + 1, Len(outBuf)) ELSE << >>

-----------------------------------------------------------------------------
TypeOK ==
    /\ hasHeader \in BOOLEAN /\ streamEnd \in BOOLEAN /\ needBlock \in BOOLEAN /\ even \in BOOLEAN
    /\ combined \in Seq(Block)
    /\ outPos \in Nat /\ (err = "none" => outPos <= Len(outBuf))
    /\ err \in {"none", "EOF", "unexpected", "fault", "structural", "checksum"}
    /\ pc \in {"idle", "loop", "header", "block"}
    /\ len \in Nat /\ n \in 0..len
    /\ ret.n \in Nat

\* Read hands over, in order and once, the data of the blocks whose checksums were
\* verified and nothing of any other - after what the last Reset left in outBuf
\* (reader.go:54-64, 551-559, 83-88).
NothingLostNorInvented == delivered \o Unserved = left \o Verified

\* io.EOF is reported only when everything read was complete streams, each with the
\* right checksum in its trailer: truncation is never taken for the end (reader.go:102-111).
EOFMeansComplete ==
    err = "EOF" =>
      /\ Len(seen) > 1
      /\ IsKind(Len(seen), "end") /\ IsKind(Len(seen) - 1, "trailer")
      /\ Streams(Len(seen) - 1)

\* Streams laid end to end, each but the last ending a byte, are read without an error,
\* the state of one stream spoiling none of the next (reader.go:130-132, 168-173).
NoFalseAlarm == Streams(Len(seen)) /\ EvenStreams(Len(seen)) => err = "none"

\* A Read returns data or an error, never both and never neither, and after an error
\* every Read returns the same one (reader.go:46-51).
ReadContract ==
    [][pc = "loop" /\ pc' = "idle" =>
         /\ (ret'.n > 0) # (ret'.err # "none")
         /\ ret.err # "none" => ret' = ret]_vars

\* A Read returns (reader.go:44-71).
ReadReturns == [](pc # "idle" => <>(pc = "idle"))

\* Concatenated streams are read (reader.go:172: "Try to read another concatenated
\* stream"), wherever in a byte each of them ends.
ConcatenationRead == Streams(Len(seen)) => err = "none"

\* Reset starts afresh (reader.go:77: "Reset discards internal state and switches to
\* reading from src"): what Read hands over then comes from the new source.
OnlyFromSource == IsPrefix(delivered, Verified)
=============================================================================
