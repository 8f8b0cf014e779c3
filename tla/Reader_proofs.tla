---------------------------- MODULE Reader_proofs ----------------------------
(***************************************************************************)
(* What the run of Reader checks for sources of a few parts, proved for    *)
(* sources of any length: where the Reader stands in the source, so that   *)
(* neither truncation is taken for the end nor an end for an error, and    *)
(* which of its data has been handed over.                                 *)
(***************************************************************************)
EXTENDS Reader, SequenceFolds

Kinds == {"header", "block", "trailer", "junk", "end"}

\* What a part can be.
AnyPart ==
    Ends \cup {HeaderPart, JunkPart}
         \cup {BlockPart(b, good) : b \in Block, good \in BOOLEAN}
         \cup {TrailerPart(over, e) : over \in Seq(Nat), e \in BOOLEAN}

PartsRead == Len(seen)

-----------------------------------------------------------------------------
(* Parts. *)

\* A part is of one kind, and has the fields of its kind.
LEMMA PartFacts ==
    ASSUME NEW part \in AnyPart
    PROVE  /\ part.kind \in Kinds
           /\ part.kind = "block" => part.block \in Block /\ part.good \in BOOLEAN
           /\ part.kind = "trailer" => part.even \in BOOLEAN
           /\ part.kind = "end" => part.within \in BOOLEAN
<1>1. CASE part \in Ends
  BY <1>1 DEF Ends, EndPart, Kinds
<1>2. CASE part \in {HeaderPart, JunkPart}
  BY <1>2 DEF HeaderPart, JunkPart, Kinds
<1>3. CASE part \in {BlockPart(b, good) : b \in Block, good \in BOOLEAN}
  BY <1>3 DEF BlockPart, Kinds
<1>4. CASE part \in {TrailerPart(over, e) : over \in Seq(Nat), e \in BOOLEAN}
  BY <1>4 DEF TrailerPart, Kinds
<1> QED  BY <1>1, <1>2, <1>3, <1>4 DEF AnyPart

\* The checksum that a stream's trailer should have.
LEMMA SinceFacts ==
    ASSUME seen \in Seq(AnyPart), NEW h \in Open(PartsRead + 1)
    PROVE  /\ BlocksSince(h, PartsRead + 1) \in Seq(Block)
           /\ Len(BlocksSince(h, PartsRead + 1)) = PartsRead - h
<1>1. h \in 1..PartsRead /\ \A k \in h + 1..PartsRead : IsKind(k, "block")
  BY DEF Open, PartsRead
<1>2. ASSUME NEW k \in 1..PartsRead - h
      PROVE  seen[h + k].block \in Block
  <2>1. h + k \in h + 1..PartsRead /\ h + k \in 1..Len(seen)
    BY <1>1 DEF PartsRead
  <2>2. seen[h + k].kind = "block" /\ seen[h + k] \in AnyPart
    BY <1>1, <2>1 DEF IsKind
  <2> QED  BY <2>2, PartFacts
<1>3. (PartsRead + 1) - 1 - h = PartsRead - h /\ PartsRead - h \in Nat
  BY <1>1 DEF PartsRead
<1>4. BlocksSince(h, PartsRead + 1) = [k \in 1..PartsRead - h |-> seen[h + k].block]
  <2>1. BlocksSince(h, PartsRead + 1) = [k \in 1..(PartsRead + 1) - 1 - h |-> seen[h + k].block]
    BY DEF BlocksSince
  <2> QED  BY <1>3, <2>1
<1>5. [k \in 1..PartsRead - h |-> seen[h + k].block] \in [1..PartsRead - h -> Block]
  BY <1>2
<1> QED  BY <1>3, <1>4, <1>5

LEMMA PartsAreParts ==
    ASSUME seen \in Seq(AnyPart), NEW part \in Parts
    PROVE  part \in AnyPart
<1>1. ASSUME NEW over \in {BlocksSince(h, Len(seen) + 1) : h \in Open(Len(seen) + 1)} \cup {<< 0 >>}
      PROVE  over \in Seq(Nat)
  <2>1. CASE over = <<0>>
    BY <2>1
  <2>2. CASE over # <<0>>
    <3>1. PICK h \in Open(PartsRead + 1) : over = BlocksSince(h, PartsRead + 1)
      BY <2>2 DEF PartsRead
    <3>2. over \in Seq(Block)
      BY <3>1, SinceFacts
    <3>3. Block \subseteq Nat
      BY BlockAssumption
    <3>4. Len(over) \in Nat /\ over \in [1..Len(over) -> Block]
      BY <3>2
    <3>5. over \in [1..Len(over) -> Nat]
      BY <3>3, <3>4
    <3> QED  BY <3>4, <3>5
  <2> QED  BY <2>1, <2>2
<1>2. TrailerEnds \subseteq BOOLEAN
  BY DEF TrailerEnds
<1>3. ASSUME NEW over \in {BlocksSince(h, Len(seen) + 1) : h \in Open(Len(seen) + 1)} \cup {<< 0 >>},
             NEW e \in TrailerEnds
      PROVE  TrailerPart(over, e) \in AnyPart
  <2>1. over \in Seq(Nat) /\ e \in BOOLEAN
    BY <1>1, <1>2
  <2>2. TrailerPart(over, e) \in {TrailerPart(o, d) : o \in Seq(Nat), d \in BOOLEAN}
    BY <2>1
  <2> QED  BY <2>2 DEF AnyPart
<1> QED  BY <1>3 DEF Parts, AnyPart

-----------------------------------------------------------------------------
(* The source told of any sequence of parts: what one more part changes. *)

OpenIn(s, i) ==
    {h \in 1..i - 1 : s[h].kind = "header" /\ \A k \in h + 1..i - 1 : s[k].kind = "block"}
SinceIn(s, h, i) == [k \in 1..i - 1 - h |-> s[h + k].block]
FitsIn(s, i) ==
    \/ s[i].kind = "header" /\ (i = 1 \/ s[i - 1].kind = "trailer")
    \/ /\ i > 1 /\ s[i - 1].kind \in {"header", "block"}
       /\ \/ s[i].kind = "block" /\ s[i].good
          \/ /\ s[i].kind = "trailer"
             /\ \E h \in OpenIn(s, i) : s[i].over = SinceIn(s, h, i)
StreamsIn(s, k) == \A i \in 1..k : FitsIn(s, i)
EvenIn(s, k) == \A i \in 1..k - 1 : s[i].kind = "trailer" => s[i].even

LEMMA ToldOfSeen ==
    /\ \A k : Streams(k) <=> StreamsIn(seen, k)
    /\ \A k : EvenStreams(k) <=> EvenIn(seen, k)
    /\ \A i : Open(i) = OpenIn(seen, i)
    /\ \A h, i : BlocksSince(h, i) = SinceIn(seen, h, i)
<1>1. \A i : Open(i) = OpenIn(seen, i)
  BY DEF Open, OpenIn, IsKind
<1>2. \A h, i : BlocksSince(h, i) = SinceIn(seen, h, i)
  BY DEF BlocksSince, SinceIn
<1>3. \A k : Streams(k) <=> StreamsIn(seen, k)
  <2> SUFFICES ASSUME NEW k PROVE Streams(k) <=> StreamsIn(seen, k)
    OBVIOUS
  <2> QED  BY <1>1, <1>2 DEF Streams, StreamsIn, FitsIn, IsKind
<1>4. \A k : EvenStreams(k) <=> EvenIn(seen, k)
  BY DEF EvenStreams, EvenIn, IsKind
<1> QED  BY <1>1, <1>2, <1>3, <1>4

LEMMA OneMore ==
    ASSUME NEW s \in Seq(AnyPart), NEW part \in AnyPart, NEW t, t = Append(s, part)
    PROVE  /\ t \in Seq(AnyPart) /\ Len(s) \in Nat /\ Len(t) = Len(s) + 1
           /\ t[Len(s) + 1] = part
           /\ \A k \in 1..Len(s) : t[k] = s[k]
  BY AppendProperties

LEMMA OpenKept ==
    ASSUME NEW s \in Seq(AnyPart), NEW part \in AnyPart, NEW t, t = Append(s, part),
           NEW i \in 1..Len(s) + 1
    PROVE  /\ OpenIn(t, i) = OpenIn(s, i)
           /\ \A h \in OpenIn(s, i) : SinceIn(t, h, i) = SinceIn(s, h, i)
<1>1. Len(s) \in Nat /\ i \in Nat /\ i - 1 <= Len(s) /\ \A k \in 1..Len(s) : t[k] = s[k]
  BY OneMore
<1>2. \A k \in 1..i - 1 : t[k] = s[k]
  BY <1>1
<1>3. OpenIn(t, i) = OpenIn(s, i)
  BY <1>1, <1>2 DEF OpenIn
<1>4. ASSUME NEW h \in OpenIn(s, i)
      PROVE  SinceIn(t, h, i) = SinceIn(s, h, i)
  <2>1. h \in 1..i - 1
    BY DEF OpenIn
  <2>2. \A k \in 1..i - 1 - h : h + k \in 1..i - 1
    BY <1>1, <2>1
  <2>3. \A k \in 1..i - 1 - h : t[h + k] = s[h + k]
    BY <1>2, <2>2
  <2> QED  BY <2>3 DEF SinceIn
<1> QED  BY <1>3, <1>4

\* A part that was read before fits behind those before it as it did.
LEMMA FitsKept ==
    ASSUME NEW s \in Seq(AnyPart), NEW part \in AnyPart, NEW t, t = Append(s, part),
           NEW i \in 1..Len(s)
    PROVE  FitsIn(t, i) <=> FitsIn(s, i)
<1>1. Len(s) \in Nat /\ i \in Nat /\ \A k \in 1..Len(s) : t[k] = s[k]
  BY OneMore
<1>2. t[i] = s[i] /\ (i > 1 => t[i - 1] = s[i - 1])
  BY <1>1
<1>3. i \in 1..Len(s) + 1
  BY <1>1
<1>4. /\ OpenIn(t, i) = OpenIn(s, i)
      /\ \A h \in OpenIn(s, i) : SinceIn(t, h, i) = SinceIn(s, h, i)
  BY <1>3, OpenKept
<1>5. (\E h \in OpenIn(t, i) : t[i].over = SinceIn(t, h, i))
      <=> (\E h \in OpenIn(s, i) : s[i].over = SinceIn(s, h, i))
  BY <1>2, <1>4
<1>6. i = 1 \/ i > 1
  BY <1>1
<1> QED  BY <1>2, <1>5, <1>6 DEF FitsIn

\* So streams that were read before stay so, and what was none becomes none.
LEMMA StreamsKept ==
    ASSUME NEW s \in Seq(AnyPart), NEW part \in AnyPart, NEW t, t = Append(s, part),
           NEW k \in 0..Len(s)
    PROVE  StreamsIn(t, k) <=> StreamsIn(s, k)
<1>1. Len(s) \in Nat /\ \A i \in 1..k : i \in 1..Len(s)
  BY OneMore
<1>2. \A i \in 1..k : FitsIn(t, i) <=> FitsIn(s, i)
  BY <1>1, FitsKept
<1> QED  BY <1>2 DEF StreamsIn

\* And one more part continues them if it fits.
LEMMA StreamsLonger ==
    ASSUME NEW s \in Seq(AnyPart), NEW part \in AnyPart, NEW t, t = Append(s, part),
           StreamsIn(s, Len(s)), FitsIn(t, Len(s) + 1)
    PROVE  StreamsIn(t, Len(s) + 1)
<1>1. Len(s) \in Nat /\ Len(s) \in 0..Len(s)
  BY OneMore
<1>2. StreamsIn(t, Len(s))
  BY <1>1, StreamsKept
<1> QED  BY <1>1, <1>2 DEF StreamsIn

-----------------------------------------------------------------------------
(* The inductive invariant. *)

Types ==
    /\ hasHeader \in BOOLEAN /\ streamEnd \in BOOLEAN /\ needBlock \in BOOLEAN /\ even \in BOOLEAN
    /\ combined \in Seq(Block)
    /\ Len(outBuf) \in Nat
    /\ outPos \in Nat /\ (err = "none" => outPos <= Len(outBuf))
    /\ err \in {"none", "EOF", "unexpected", "fault", "structural", "checksum"}
    /\ pc \in {"idle", "loop", "header", "block"}
    /\ len \in Nat /\ n \in 0..len /\ ret.n \in Nat
    /\ seen \in Seq(AnyPart)

\* A byte of a block.
Bytes == Nat \X Nat

\* A new block is looked for when the last one was handed over.
Emptied ==
    /\ outBuf \in Seq(Bytes) /\ delivered \in Seq(Bytes) /\ left \in Seq(Bytes)
    /\ pc \in {"header", "block"} => Drained

\* Without an error the parts read are streams laid end to end, and the Reader knows
\* where it stands in them: before the first, ...
AtStart ==
    /\ PartsRead = 0
    /\ ~hasHeader /\ ~streamEnd /\ combined = << >> /\ even
    /\ pc # "block"

\* ... behind a trailer, ...
BehindTrailer ==
    /\ PartsRead > 0 /\ seen[PartsRead].kind = "trailer"
    /\ hasHeader /\ streamEnd /\ even = seen[PartsRead].even
    /\ pc # "block"

\* ... or within a stream, with the checksum of its blocks so far.
Within ==
    /\ PartsRead > 0 /\ seen[PartsRead].kind \in {"header", "block"}
    /\ hasHeader /\ ~streamEnd
    /\ \E h \in OpenIn(seen, PartsRead + 1) : combined = SinceIn(seen, h, PartsRead + 1)
    /\ pc # "header"

Located == err = "none" => StreamsIn(seen, PartsRead) /\ (AtStart \/ BehindTrailer \/ Within)

\* The end of the data is the end of a stream, ...
AtEnd ==
    err = "EOF" =>
      /\ PartsRead > 1
      /\ seen[PartsRead].kind = "end" /\ seen[PartsRead - 1].kind = "trailer"
      /\ StreamsIn(seen, PartsRead - 1)

\* ... and any other error has a reason.
Justified == StreamsIn(seen, PartsRead) /\ EvenIn(seen, PartsRead) => err = "none"

\* Only a Read without an error looks for a part.
Looking == pc \in {"header", "block"} => err = "none"

\* An error that was returned stays, and nothing is delivered after it.
Sticky ==
    /\ pc # "idle" => len > 0
    /\ ret.err # "none" =>
         /\ ret = Returned(0, err)
         /\ pc \in {"idle", "loop"}
         /\ pc = "loop" => n = 0

IInv ==
    /\ Types /\ Located /\ AtEnd /\ Justified /\ Looking /\ Sticky
    /\ Emptied /\ NothingLostNorInvented

-----------------------------------------------------------------------------
(* Reading a part. *)

\* A part that does not fit leaves no streams.
LEMMA Misfit ==
    ASSUME NEW t, NEW m \in Nat, m > 0, ~FitsIn(t, m)
    PROVE  ~StreamsIn(t, m)
  BY DEF StreamsIn

LEMMA HeaderLocated ==
    ASSUME IInv, pc = "header", NEW part \in AnyPart, ReadHeader(part),
           seen' = Append(seen, part)
    PROVE  Located' /\ AtEnd' /\ Justified'
<1> DEFINE t == seen'
<1>1. seen \in Seq(AnyPart) /\ err = "none" /\ StreamsIn(seen, Len(seen))
  BY DEF IInv, Types, Looking, Located, PartsRead
<1>2. /\ Len(seen) \in Nat /\ Len(seen') = Len(seen) + 1
      /\ seen'[Len(seen) + 1] = part
      /\ \A k \in 1..Len(seen) : seen'[k] = seen[k]
  BY <1>1, OneMore
<1>3. StreamsIn(seen', Len(seen))
  <2>1. Len(seen) \in 0..Len(seen)
    BY <1>2
  <2> QED  BY <1>1, <2>1, StreamsKept
<1>4. \/ AtStart
      \/ BehindTrailer
  BY <1>1 DEF IInv, Located, Within
<1>5. Len(seen) > 0 => seen[Len(seen)].kind = "trailer" /\ even = seen[Len(seen)].even
  BY <1>2, <1>4 DEF AtStart, BehindTrailer, PartsRead
<1>6. Len(seen) = 0 => even /\ ~streamEnd /\ combined = << >>
  BY <1>2, <1>4 DEF AtStart, BehindTrailer, PartsRead
<1>7. Len(seen) > 0 => seen'[Len(seen)] = seen[Len(seen)]
  BY <1>2
<1>8. CASE part.kind = "end"
  <2>1. ~FitsIn(seen', Len(seen) + 1)
    BY <1>2, <1>8 DEF FitsIn
  <2>2. Justified'
    <3>1. ~StreamsIn(seen', Len(seen) + 1)
      BY <1>2, <2>1, Misfit
    <3> QED  BY <1>2, <3>1 DEF Justified, PartsRead
  <2>3. err' # "none"
    BY <1>8 DEF ReadHeader, Fails, EndError
  <2>4. err' = "EOF" => Len(seen) > 0
    <3>1. err' = "EOF" => CleanEnd(part)
      BY <1>8 DEF ReadHeader, Fails, EndError
    <3> QED  BY <1>2, <1>6, <3>1 DEF CleanEnd
  <2>5. AtEnd'
    <3> SUFFICES ASSUME err' = "EOF"
                 PROVE  /\ Len(seen') > 1
                        /\ seen'[Len(seen')].kind = "end"
                        /\ seen'[Len(seen') - 1].kind = "trailer"
                        /\ StreamsIn(seen', Len(seen') - 1)
      BY DEF AtEnd, PartsRead
    <3>1. Len(seen') - 1 = Len(seen) /\ Len(seen) > 0
      BY <1>2, <2>4
    <3>2. seen'[Len(seen)].kind = "trailer"
      BY <1>5, <1>7, <3>1
    <3>3. Len(seen') > 1
      BY <1>2, <3>1
    <3>4. seen'[Len(seen')].kind = "end"
      BY <1>2, <1>8
    <3> QED  BY <1>3, <3>1, <3>2, <3>3, <3>4
  <2> QED  BY <2>2, <2>3, <2>5 DEF Located
<1>9. CASE part.kind # "end" /\ (part.kind # "header" \/ ~even)
  <2>1. err' = "structural"
    BY <1>9 DEF ReadHeader, Fails
  <2>2. Justified'
    <3>1. CASE part.kind # "header"
      <4>1. ~FitsIn(seen', Len(seen) + 1)
        <5>1. Len(seen) + 1 > 1 => seen'[Len(seen) + 1 - 1].kind = "trailer"
          BY <1>2, <1>5, <1>7
        <5> QED  BY <1>2, <3>1, <5>1 DEF FitsIn
      <4>2. ~StreamsIn(seen', Len(seen) + 1)
        BY <1>2, <4>1, Misfit
      <4> QED  BY <1>2, <4>2 DEF Justified, PartsRead
    <3>2. CASE ~even
      <4>1. Len(seen) > 0 /\ seen'[Len(seen)].kind = "trailer" /\ ~seen'[Len(seen)].even
        BY <1>2, <1>5, <1>6, <1>7, <3>2
      <4>2. Len(seen) \in 1..(Len(seen) + 1) - 1
        BY <1>2, <4>1
      <4>3. ~EvenIn(seen', Len(seen) + 1)
        BY <4>1, <4>2 DEF EvenIn
      <4> QED  BY <1>2, <4>3 DEF Justified, PartsRead
    <3> QED  BY <1>9, <3>1, <3>2
  <2> QED  BY <2>1, <2>2 DEF Located, AtEnd
<1>10. CASE part.kind = "header" /\ even
  <2>1. /\ hasHeader' = TRUE /\ combined' = << >> /\ streamEnd' = FALSE /\ pc' = "block"
        /\ err' = "none"
    BY <1>1, <1>10 DEF ReadHeader, CombinedAtStart
  <2>2. FitsIn(seen', Len(seen) + 1)
    <3>1. Len(seen) + 1 > 1 => seen'[Len(seen) + 1 - 1].kind = "trailer"
      BY <1>2, <1>5, <1>7
    <3> QED  BY <1>2, <1>10, <3>1 DEF FitsIn
  <2>3. StreamsIn(seen', Len(seen) + 1)
    BY <1>1, <2>2, StreamsLonger
  <2>4. Len(seen) + 1 \in OpenIn(seen', Len(seen) + 2)
    BY <1>2, <1>10 DEF OpenIn
  <2>5. SinceIn(seen', Len(seen) + 1, Len(seen) + 2) = << >>
    <3>1. 1..(Len(seen) + 2) - 1 - (Len(seen) + 1) = 1..0
      BY <1>2
    <3> QED  BY <3>1 DEF SinceIn
  <2>6. Within'
    <3>1. (Len(seen) + 1) + 1 = Len(seen) + 2
      BY <1>2
    <3> QED  BY <1>2, <1>10, <2>1, <2>4, <2>5, <3>1 DEF Within, PartsRead
  <2> QED  BY <1>2, <2>1, <2>3, <2>6 DEF Located, AtEnd, Justified, PartsRead
<1> QED  BY <1>8, <1>9, <1>10 DEF ReadHeader

LEMMA BlockLocated ==
    ASSUME IInv, pc = "block", NEW part \in AnyPart, ReadBlock(part),
           seen' = Append(seen, part)
    PROVE  Located' /\ AtEnd' /\ Justified'
<1>1. seen \in Seq(AnyPart) /\ err = "none" /\ StreamsIn(seen, Len(seen))
  BY DEF IInv, Types, Looking, Located, PartsRead
<1>2. /\ Len(seen) \in Nat /\ Len(seen') = Len(seen) + 1
      /\ seen'[Len(seen) + 1] = part
      /\ \A k \in 1..Len(seen) : seen'[k] = seen[k]
  BY <1>1, OneMore
<1>3. Within
  BY <1>1 DEF IInv, Located, AtStart, BehindTrailer
<1>4. /\ Len(seen) > 0 /\ seen'[Len(seen)] = seen[Len(seen)]
      /\ seen'[Len(seen)].kind \in {"header", "block"}
      /\ hasHeader /\ ~streamEnd
  BY <1>2, <1>3 DEF Within, PartsRead
<1>5. PICK h \in OpenIn(seen, Len(seen) + 1) : combined = SinceIn(seen, h, Len(seen) + 1)
  BY <1>3 DEF Within, PartsRead
<1>6. /\ h \in OpenIn(seen', Len(seen) + 1)
      /\ combined = SinceIn(seen', h, Len(seen) + 1)
  <2>1. Len(seen) + 1 \in 1..Len(seen) + 1
    BY <1>2
  <2> QED  BY <1>1, <1>5, <2>1, OpenKept
<1>7. h \in 1..Len(seen) /\ \A k \in h + 1..Len(seen) : seen'[k].kind = "block"
  BY <1>2, <1>6 DEF OpenIn
<1>8. (Len(seen) + 1) - 1 = Len(seen) /\ Len(seen') - 1 = Len(seen) /\ Len(seen) + 1 > 1
  BY <1>2, <1>4
\* Within one stream there is one header that a trailer can go back to.
<1>9. ASSUME NEW g \in OpenIn(seen', Len(seen) + 1)
      PROVE  g = h
  <2>1. /\ g \in 1..Len(seen) /\ seen'[g].kind = "header"
        /\ \A k \in g + 1..Len(seen) : seen'[k].kind = "block"
    BY <1>2 DEF OpenIn
  <2>2. seen'[h].kind = "header"
    BY <1>6 DEF OpenIn
  <2>3. ~(g < h)
    BY <1>2, <1>7, <2>1, <2>2
  <2>4. ~(h < g)
    BY <1>2, <1>7, <2>1
  <2> QED  BY <1>2, <1>7, <2>1, <2>3, <2>4
<1>10. ASSUME err' \notin {"none", "EOF"}, ~FitsIn(seen', Len(seen) + 1)
       PROVE  Located' /\ AtEnd' /\ Justified'
  <2>1. ~StreamsIn(seen', Len(seen) + 1)
    BY <1>2, <1>10, Misfit
  <2> QED  BY <1>2, <1>10, <2>1 DEF Located, AtEnd, Justified, PartsRead
<1>11. CASE part.kind = "end" /\ Fails(EndError(part))
  BY <1>2, <1>10, <1>11 DEF Fails, EndError, FitsIn
<1>12. CASE part.kind \in {"header", "junk"} /\ Fails("structural")
  <2>1. /\ seen'[Len(seen) + 1].kind \in {"header", "junk"}
        /\ seen'[(Len(seen) + 1) - 1].kind # "trailer"
    BY <1>2, <1>4, <1>8, <1>12
  <2>2. ~FitsIn(seen', Len(seen) + 1)
    <3>1. Len(seen) + 1 # 1
      BY <1>2, <1>4
    <3> QED  BY <2>1, <3>1 DEF FitsIn
  <2> QED  BY <1>10, <1>12, <2>2 DEF Fails
<1>13. CASE part.kind = "trailer" /\ part.over # combined /\ Fails("checksum")
  <2>1. ~FitsIn(seen', Len(seen) + 1)
    BY <1>2, <1>6, <1>9, <1>13 DEF FitsIn
  <2> QED  BY <1>10, <1>13, <2>1 DEF Fails
<1>14. CASE /\ part.kind = "trailer" /\ part.over = combined
            /\ streamEnd' = TRUE /\ even' = part.even /\ pc' = "header"
            /\ UNCHANGED <<hasHeader, combined, bufVars, err>>
  <2>1. FitsIn(seen', Len(seen) + 1)
    BY <1>2, <1>4, <1>6, <1>8, <1>14 DEF FitsIn
  <2>2. StreamsIn(seen', Len(seen) + 1)
    BY <1>1, <2>1, StreamsLonger
  <2>3. BehindTrailer'
    BY <1>2, <1>4, <1>14 DEF BehindTrailer, PartsRead
  <2> QED  BY <1>1, <1>2, <1>14, <2>2, <2>3 DEF Located, AtEnd, Justified, PartsRead
<1>15. CASE ReadGoodOrBadBlock(part) /\ ~part.good
  <2>1. err' = "checksum" /\ part.kind = "block"
    BY <1>15 DEF ReadGoodOrBadBlock, BlockVerified
  <2>2. ~FitsIn(seen', Len(seen) + 1)
    BY <1>2, <1>15, <2>1 DEF FitsIn
  <2> QED  BY <1>10, <2>1, <2>2
<1>16. CASE ReadGoodOrBadBlock(part) /\ part.good
  <2>1. /\ part.kind = "block" /\ combined' = Append(combined, part.block) /\ err' = "none"
        /\ pc' = "loop" /\ hasHeader' = hasHeader /\ streamEnd' = streamEnd
    BY <1>1, <1>16 DEF ReadGoodOrBadBlock, BlockVerified
  <2>2. FitsIn(seen', Len(seen) + 1)
    BY <1>2, <1>4, <1>8, <1>16, <2>1 DEF FitsIn
  <2>3. StreamsIn(seen', Len(seen) + 1)
    BY <1>1, <2>2, StreamsLonger
  <2>4. h \in OpenIn(seen', Len(seen) + 2)
    <3>1. (Len(seen) + 2) - 1 = Len(seen) + 1
      BY <1>2
    <3>2. seen'[h].kind = "header" /\ h \in 1..Len(seen) + 1
      BY <1>2, <1>6, <1>7 DEF OpenIn
    <3>3. \A k \in h + 1..Len(seen) + 1 : seen'[k].kind = "block"
      <4> SUFFICES ASSUME NEW k \in h + 1..Len(seen) + 1
                   PROVE  seen'[k].kind = "block"
        OBVIOUS
      <4>1. CASE k = Len(seen) + 1
        BY <1>2, <2>1, <4>1
      <4>2. CASE k # Len(seen) + 1
        <5>1. k \in h + 1..Len(seen)
          BY <1>2, <1>7, <4>2
        <5> QED  BY <1>7, <5>1
      <4> QED  BY <4>1, <4>2
    <3> QED  BY <3>1, <3>2, <3>3 DEF OpenIn
  <2>5. combined' = SinceIn(seen', h, Len(seen) + 2)
    <3> DEFINE m == Len(seen) - h
    <3>1. m \in Nat /\ h + (m + 1) = Len(seen) + 1
      BY <1>2, <1>7
    <3>2. combined = [k \in 1..m |-> seen'[h + k].block]
      <4>1. (Len(seen) + 1) - 1 - h = m
        BY <1>2, <1>7
      <4> QED  BY <1>6, <4>1 DEF SinceIn
    <3>3. SinceIn(seen', h, Len(seen) + 2) = [k \in 1..m + 1 |-> seen'[h + k].block]
      <4>1. (Len(seen) + 2) - 1 - h = m + 1
        BY <1>2, <1>7
      <4> QED  BY <4>1 DEF SinceIn
    <3> HIDE DEF m
    <3>4. seen'[h + (m + 1)].block = part.block
      BY <1>2, <3>1
    <3>5. combined \in Seq(Block) /\ Len(combined) = m
      <4>1. combined \in Seq(Block)
        BY DEF IInv, Types
      <4>2. DOMAIN combined = 1..m
        BY <3>2
      <4> QED  BY <3>1, <4>1, <4>2
    <3>6. part.block \in Block
      BY <2>1, PartFacts
    <3>7. /\ combined' \in Seq(Block) /\ Len(combined') = m + 1
          /\ combined'[m + 1] = part.block
          /\ \A k \in 1..m : combined'[k] = combined[k]
      BY <2>1, <3>5, <3>6, AppendProperties
    <3>8. \A k \in 1..m + 1 : combined'[k] = seen'[h + k].block
      <4> SUFFICES ASSUME NEW k \in 1..m + 1
                   PROVE  combined'[k] = seen'[h + k].block
        OBVIOUS
      <4>1. CASE k = m + 1
        BY <3>4, <3>7, <4>1
      <4>2. CASE k # m + 1
        <5>1. k \in 1..m
          BY <3>1, <4>2
        <5> QED  BY <3>2, <3>7, <5>1
      <4> QED  BY <4>1, <4>2
    <3>9. combined' = [k \in 1..m + 1 |-> combined'[k]]
      BY <3>1, <3>7
    <3> QED  BY <3>3, <3>8, <3>9
  <2>6. Within'
    <3>1. (Len(seen) + 1) + 1 = Len(seen) + 2 /\ Len(seen) + 1 > 0
      BY <1>2
    <3> QED  BY <1>2, <1>4, <2>1, <2>4, <2>5, <3>1 DEF Within, PartsRead
  <2> QED  BY <1>2, <2>1, <2>3, <2>6 DEF Located, AtEnd, Justified, PartsRead
<1>17. part.good \in BOOLEAN \/ ~ReadGoodOrBadBlock(part)
  BY PartFacts DEF ReadGoodOrBadBlock
<1> QED
  BY <1>11, <1>12, <1>13, <1>14, <1>15, <1>16, <1>17 DEF ReadBlock

-----------------------------------------------------------------------------
(* The other parts of the invariant. *)

LEMMA TypesStay ==
    ASSUME IInv, [Next]_vars
    PROVE  Types'
<1> USE DEF IInv
<1>1. ASSUME NEW m \in Asked, Read(m)
      PROVE  Types'
  <2>1. m \in Nat /\ 0 \in 0..m
    BY AskedAssumption
  <2> QED  BY <1>1, <2>1 DEF Read, Types, streamVars, bufVars
<1>2. CASE ReadReturn
  <2>1. ret'.n \in Nat
    BY <1>2 DEF ReadReturn, Report, Returned, Types
  <2> QED  BY <1>2, <2>1 DEF ReadReturn, Types, streamVars, bufVars
<1>3. CASE Serve
  <2>1. /\ n < len /\ err = "none" /\ outPos < Len(outBuf)
        /\ outPos \in Nat /\ Len(outBuf) \in Nat /\ len \in Nat /\ n \in Nat
    BY <1>3 DEF Serve, Wants, Drained, Types
  <2>2. PICK c : /\ c = IF len - n < Len(outBuf) - outPos THEN len - n ELSE Len(outBuf) - outPos
                 /\ outPos' = outPos + c /\ n' = n + c
    BY <1>3 DEF Serve
  <2>3. c \in Nat /\ n + c <= len /\ outPos + c <= Len(outBuf)
    BY <2>1, <2>2
  <2>4. outPos' \in Nat /\ outPos' <= Len(outBuf) /\ n' \in 0..len
    BY <2>1, <2>2, <2>3
  <2> QED  BY <1>3, <2>4 DEF Serve, Types, streamVars
<1>4. CASE NeedBlock
  <2>1. pc' \in {"header", "block"}
    BY <1>4 DEF NeedBlock, NextPart
  <2> QED  BY <1>4, <2>1 DEF NeedBlock, Types, streamVars, bufVars
<1>5. CASE BlockServed
  BY <1>5 DEF BlockServed, NeedBlockSet, Types, streamVars, callVars
<1>6. CASE ReadPart
  <2>1. PICK part \in Parts :
           /\ \/ pc = "header" /\ ReadHeader(part)
              \/ pc = "block" /\ ReadBlock(part)
           /\ seen' = Append(seen, part)
           /\ UNCHANGED <<len, n, ret, delivered, left>>
    BY <1>6 DEF ReadPart
  <2>2. seen \in Seq(AnyPart)
    BY DEF Types
  <2>3. part \in AnyPart
    BY <2>2, PartsAreParts
  <2>4. seen' \in Seq(AnyPart)
    BY <2>1, <2>2, <2>3
  <2>5. /\ part.kind = "block" => part.block \in Block
        /\ part.kind = "trailer" => part.even \in BOOLEAN
    BY <2>3, PartFacts
  <2>6. err = "none"
    BY <2>1 DEF Looking
  <2>7. ASSUME NEW e \in {"EOF", "unexpected", "fault", "structural", "checksum"}, Fails(e)
        PROVE  Types'
    BY <2>1, <2>4, <2>7 DEF Fails, Types
  <2>8. CASE pc = "header" /\ ReadHeader(part)
    <3>1. CASE \E e \in {"EOF", "unexpected", "fault", "structural", "checksum"} : Fails(e)
      BY <2>7, <3>1
    <3>2. CASE /\ hasHeader' = TRUE /\ combined' = << >> /\ streamEnd' = FALSE
               /\ pc' = "block" /\ UNCHANGED <<even, bufVars, err>>
      <4>1. << >> \in Seq(Block)
        OBVIOUS
      <4> QED  BY <2>1, <2>4, <3>2, <4>1 DEF Types, bufVars
    <3> QED
      BY <2>8, <3>1, <3>2 DEF ReadHeader, EndError, CombinedAtStart
  <2>9. CASE pc = "block" /\ ReadBlock(part)
    <3>1. CASE \E e \in {"EOF", "unexpected", "fault", "structural", "checksum"} : Fails(e)
      BY <2>7, <3>1
    <3>2. CASE /\ part.kind = "trailer" /\ streamEnd' = TRUE /\ even' = part.even
               /\ pc' = "header" /\ UNCHANGED <<hasHeader, combined, bufVars, err>>
      BY <2>1, <2>4, <2>5, <3>2 DEF Types, bufVars
    <3>3. CASE ReadGoodOrBadBlock(part)
      <4>1. part.block \in Block /\ part.block \in Nat
        BY <2>5, <3>3, BlockAssumption DEF ReadGoodOrBadBlock
      <4>2. Len(outBuf') \in Nat
        <5>1. outBuf' = [j \in 1..part.block |-> <<part.block, j>>]
          BY <3>3 DEF ReadGoodOrBadBlock, Data
        <5>2. \A b \in Nat : Len([j \in 1..b |-> <<b, j>>]) = b
          OBVIOUS
        <5> QED  BY <4>1, <5>1, <5>2
      <4>3. Append(combined, part.block) \in Seq(Block)
        BY <4>1 DEF Types
      <4>4. 0 \in Nat /\ 0 <= Len(outBuf')
        BY <4>2
      <4> QED
        BY <2>1, <2>4, <3>3, <4>2, <4>3, <4>4
           DEF ReadGoodOrBadBlock, BlockVerified, StartPos, Types
    <3> QED
      BY <2>9, <3>1, <3>2, <3>3 DEF ReadBlock, EndError
  <2> QED  BY <2>1, <2>8, <2>9
<1>7. CASE Reset
  <2>1. << >> \in Seq(Block) /\ << >> \in Seq(AnyPart) /\ 0 \in 0..0
    OBVIOUS
  <2>2. Len(outBuf) \in Nat /\ needBlock' \in BOOLEAN
    BY <1>7 DEF Reset, Types
  <2>3. 0 <= Len(outBuf)
    BY <2>2
  <2>4. ret'.n = 0
    BY <1>7 DEF Reset, Returned
  <2>5. n' \in 0..len' /\ len' \in Nat
    BY <1>7 DEF Reset
  <2>6. outPos' \in Nat /\ outPos' <= Len(outBuf') /\ Len(outBuf') \in Nat
    BY <1>7, <2>2, <2>3 DEF Reset
  <2>7. combined' \in Seq(Block) /\ seen' \in Seq(AnyPart)
    BY <1>7, <2>1 DEF Reset
  <2>8. ret'.n \in Nat
    BY <2>4
  <2> QED  BY <1>7, <2>2, <2>5, <2>6, <2>7, <2>8 DEF Reset, Types
<1>8. CASE UNCHANGED vars
  BY <1>8 DEF vars, streamVars, bufVars, callVars, Types
<1> QED
  BY <1>1, <1>2, <1>3, <1>4, <1>5, <1>6, <1>7, <1>8 DEF Next, ReadGoesOn

LEMMA LocatedStays ==
    ASSUME IInv, [Next]_vars
    PROVE  Located' /\ AtEnd' /\ Justified'
<1> USE DEF IInv
\* A step that reads nothing leaves the Reader where it is.
<1>1. ASSUME UNCHANGED <<seen, err, hasHeader, streamEnd, combined, even>>,
             pc' \in {"header", "block"} => pc' = pc
      PROVE  Located' /\ AtEnd' /\ Justified'
  <2>1. AtEnd' /\ Justified'
    BY <1>1 DEF AtEnd, Justified, PartsRead
  <2>2. AtStart => AtStart'
    BY <1>1 DEF AtStart, PartsRead
  <2>3. BehindTrailer => BehindTrailer'
    BY <1>1 DEF BehindTrailer, PartsRead
  <2>4. Within => Within'
    BY <1>1 DEF Within, PartsRead
  <2>5. Located'
    BY <1>1, <2>2, <2>3, <2>4 DEF Located, PartsRead
  <2> QED  BY <2>1, <2>5
<1>2. CASE \E m \in Asked : Read(m)
  BY <1>1, <1>2 DEF Read, streamVars
<1>3. CASE ReadReturn
  BY <1>1, <1>3 DEF ReadReturn, streamVars
<1>4. CASE Serve
  BY <1>1, <1>4 DEF Serve, streamVars
<1>5. CASE BlockServed
  BY <1>1, <1>5 DEF BlockServed, streamVars, callVars
<1>6. CASE NeedBlock
  <2>1. /\ UNCHANGED <<seen, err, hasHeader, streamEnd, combined, even>>
        /\ pc' = IF ~hasHeader \/ streamEnd THEN "header" ELSE "block"
    BY <1>6 DEF NeedBlock, NextPart, streamVars
  <2>2. AtEnd' /\ Justified'
    BY <2>1 DEF AtEnd, Justified, PartsRead
  <2>3. AtStart => AtStart'
    BY <2>1 DEF AtStart, PartsRead
  <2>4. BehindTrailer => BehindTrailer'
    BY <2>1 DEF BehindTrailer, PartsRead
  <2>5. Within => Within'
    BY <2>1 DEF Within, PartsRead
  <2> QED  BY <2>1, <2>2, <2>3, <2>4, <2>5 DEF Located, PartsRead
<1>7. CASE ReadPart
  <2>1. PICK part \in Parts :
           /\ \/ pc = "header" /\ ReadHeader(part)
              \/ pc = "block" /\ ReadBlock(part)
           /\ seen' = Append(seen, part)
    BY <1>7 DEF ReadPart
  <2>2. part \in AnyPart
    BY PartsAreParts DEF Types
  <2> QED  BY <2>1, <2>2, HeaderLocated, BlockLocated
<1>8. CASE Reset
  <2>1. /\ seen' = << >> /\ err' = "none" /\ hasHeader' = FALSE /\ streamEnd' = FALSE
        /\ combined' = << >> /\ even' = TRUE /\ pc' = "idle"
    BY <1>8 DEF Reset
  <2>2. Len(seen') = 0
    BY <2>1
  <2>3. AtStart'
    BY <2>1, <2>2 DEF AtStart, PartsRead
  <2>4. StreamsIn(seen', 0)
    BY DEF StreamsIn
  <2> QED  BY <2>1, <2>2, <2>3, <2>4 DEF Located, AtEnd, Justified, PartsRead
<1>9. CASE UNCHANGED vars
  BY <1>1, <1>9 DEF vars, streamVars, callVars
<1> QED
  BY <1>2, <1>3, <1>4, <1>5, <1>6, <1>7, <1>8, <1>9 DEF Next, ReadGoesOn

LEMMA StickyStays ==
    ASSUME IInv, [Next]_vars
    PROVE  Looking' /\ Sticky'
<1> USE DEF IInv
<1>1. ASSUME NEW m \in Asked, Read(m)
      PROVE  Looking' /\ Sticky'
  <2>1. m > 0
    BY AskedAssumption
  <2> QED  BY <1>1, <2>1 DEF Read, Looking, Sticky, streamVars, bufVars
<1>2. CASE ReadReturn
  <2>1. /\ pc' = "idle" /\ err' = err /\ ret' = Report /\ len > 0
        /\ n = len \/ err # "none"
    BY <1>2 DEF ReadReturn, Sticky
  <2>2. ret'.err # "none" => ret' = Returned(0, err)
    BY <2>1 DEF Report, Returned
  <2> QED  BY <2>1, <2>2 DEF Looking, Sticky
<1>3. CASE Serve \/ BlockServed \/ NeedBlock
  <2>1. /\ err = "none" /\ err' = err /\ pc = "loop" /\ ret' = ret /\ len' = len
    BY <1>3 DEF Serve, BlockServed, NeedBlock, Wants, callVars
  <2>2. ret.err = "none"
    BY <2>1 DEF Sticky, Returned
  <2> QED  BY <2>1, <2>2 DEF Looking, Sticky
<1>4. CASE ReadPart
  <2>1. PICK part \in Parts :
           /\ \/ pc = "header" /\ ReadHeader(part)
              \/ pc = "block" /\ ReadBlock(part)
           /\ UNCHANGED <<len, n, ret, delivered, left>>
    BY <1>4 DEF ReadPart
  <2>2. ret.err = "none" /\ err = "none" /\ len > 0
    BY <2>1 DEF Looking, Sticky
  <2>3. pc' \in {"header", "block"} => err' = err
    BY <2>1 DEF ReadHeader, ReadBlock, ReadGoodOrBadBlock, Fails
  <2> QED  BY <2>1, <2>2, <2>3 DEF Looking, Sticky
<1>5. CASE Reset
  BY <1>5 DEF Reset, Looking, Sticky, Returned
<1>6. CASE UNCHANGED vars
  BY <1>6 DEF vars, callVars, Looking, Sticky
<1> QED
  BY <1>1, <1>2, <1>3, <1>4, <1>5, <1>6 DEF Next, ReadGoesOn

-----------------------------------------------------------------------------
(* The data handed over. *)

\* What part i of a source gives, and all of them.
GivenBy(s, i) == IF s[i].kind = "block" /\ StreamsIn(s, i) THEN Data(s[i].block) ELSE << >>
VerifiedIn(s) == FlattenSeq([i \in DOMAIN s |-> GivenBy(s, i)])

\* The data of a block.
LEMMA DataFacts == \A b \in Block : Data(b) \in Seq(Bytes)
<1> SUFFICES ASSUME NEW b \in Block PROVE Data(b) \in Seq(Bytes)
  OBVIOUS
<1>1. b \in Nat
  BY BlockAssumption
<1>2. Data(b) \in [1..b -> Bytes]
  BY <1>1 DEF Data, Bytes
<1> QED  BY <1>1, <1>2

\* What a part of a source gives is data.
LEMMA GivenFacts ==
    ASSUME NEW s \in Seq(AnyPart), NEW i \in 1..Len(s)
    PROVE  GivenBy(s, i) \in Seq(Bytes)
<1>1. s[i] \in AnyPart
  OBVIOUS
<1>2. CASE s[i].kind = "block"
  BY <1>1, <1>2, PartFacts, DataFacts DEF GivenBy
<1>3. CASE s[i].kind # "block"
  BY <1>3 DEF GivenBy
<1> QED  BY <1>2, <1>3

\* One more part adds what it gives, and takes nothing back.
LEMMA VerifiedAppend ==
    ASSUME NEW s \in Seq(AnyPart), NEW part \in AnyPart, NEW t, t = Append(s, part)
    PROVE  /\ VerifiedIn(t) = VerifiedIn(s) \o GivenBy(t, Len(s) + 1)
           /\ VerifiedIn(s) \in Seq(Bytes) /\ GivenBy(t, Len(s) + 1) \in Seq(Bytes)
<1> DEFINE m == Len(s)
           given == [i \in DOMAIN s |-> GivenBy(s, i)]
           more == [i \in DOMAIN t |-> GivenBy(t, i)]
           last == GivenBy(t, m + 1)
<1>1. /\ t \in Seq(AnyPart) /\ m \in Nat /\ Len(t) = m + 1 /\ t[m + 1] = part
      /\ \A k \in 1..m : t[k] = s[k]
      /\ DOMAIN s = 1..m /\ DOMAIN t = 1..m + 1
  BY OneMore
<1>2. last \in Seq(Bytes)
  <2>1. m + 1 \in 1..Len(t)
    BY <1>1
  <2> QED  BY <1>1, <2>1, GivenFacts
<1>3. given \in Seq(Seq(Bytes)) /\ Len(given) = m
  <2>1. given \in [1..m -> Seq(Bytes)]
    BY <1>1, GivenFacts
  <2> QED  BY <1>1, <2>1
<1>4. more \in Seq(Seq(Bytes)) /\ Len(more) = m + 1
  <2>1. \A i \in 1..m + 1 : GivenBy(t, i) \in Seq(Bytes)
    BY <1>1, GivenFacts
  <2>2. more \in [1..m + 1 -> Seq(Bytes)]
    BY <1>1, <2>1
  <2> QED  BY <1>1, <2>2
<1>5. ASSUME NEW k \in 1..m
      PROVE  GivenBy(t, k) = GivenBy(s, k)
  <2>1. k \in 0..Len(s)
    BY <1>1
  <2>2. StreamsIn(t, k) <=> StreamsIn(s, k)
    BY <2>1, StreamsKept
  <2> QED  BY <1>1, <2>2 DEF GivenBy
<1>6. \A k \in 1..m : given[k] = GivenBy(s, k)
  BY <1>1
<1>7. \A k \in 1..m + 1 : more[k] = GivenBy(t, k)
  BY <1>1
<1>8. VerifiedIn(s) = FlattenSeq(given) /\ VerifiedIn(t) = FlattenSeq(more)
  BY DEF VerifiedIn
<1>9. more[m + 1] = last
  BY <1>1, <1>7
<1> HIDE DEF given, more, last, m
<1>10. more = Append(given, last)
  <2>1. Append(given, last) \in Seq(Seq(Bytes)) /\ Len(Append(given, last)) = m + 1
        /\ Append(given, last)[m + 1] = last
        /\ \A k \in 1..m : Append(given, last)[k] = given[k]
    BY <1>2, <1>3
  <2>2. ASSUME NEW k \in 1..m + 1
        PROVE  more[k] = Append(given, last)[k]
    <3>1. CASE k = m + 1
      BY <1>9, <2>1, <3>1
    <3>2. CASE k # m + 1
      <4>1. k \in 1..m
        BY <1>1, <3>2
      <4> QED  BY <1>5, <1>6, <1>7, <2>1, <4>1
    <3> QED  BY <3>1, <3>2
  <2> QED  BY <1>4, <2>1, <2>2, SeqEqual
<1>11. FlattenSeq(Append(given, last)) = FlattenSeq(given) \o last /\ FlattenSeq(given) \in Seq(Bytes)
  BY <1>2, <1>3, FlattenAppend, FlattenType
<1>12. VerifiedIn(t) = VerifiedIn(s) \o last /\ VerifiedIn(s) \in Seq(Bytes)
  BY <1>8, <1>10, <1>11
<1> QED  BY <1>2, <1>12 DEF last, m

\* What is served from a buffer and what is left in it make up what was there.
LEMMA ServedAndLeft ==
    ASSUME NEW buf \in Seq(Bytes), NEW from \in Nat, NEW c \in Nat, from + c <= Len(buf)
    PROVE  /\ SubSeq(buf, from + 1, from + c) \in Seq(Bytes)
           /\ SubSeq(buf, from + c + 1, Len(buf)) \in Seq(Bytes)
           /\ SubSeq(buf, from + 1, from + c) \o SubSeq(buf, from + c + 1, Len(buf))
              = SubSeq(buf, from + 1, Len(buf))
<1>1. /\ Len(buf) \in Nat /\ from + c \in Nat
      /\ from + 1 \in 1..Len(buf) + 1 /\ from + c \in (from + 1) - 1..Len(buf)
      /\ Len(buf) \in from + c..Len(buf)
  OBVIOUS
<1>2. /\ \A k \in from + 1..from + c : buf[k] \in Bytes
      /\ \A k \in from + c + 1..Len(buf) : buf[k] \in Bytes
  BY <1>1
<1>3. SubSeq(buf, from + 1, from + c) \in Seq(Bytes)
  BY <1>1, <1>2, SubSeqProperties
<1>4. SubSeq(buf, from + c + 1, Len(buf)) \in Seq(Bytes)
  BY <1>1, <1>2, SubSeqProperties
<1>5. SubSeq(buf, from + 1, from + c) \o SubSeq(buf, (from + c) + 1, Len(buf))
      = SubSeq(buf, from + 1, Len(buf))
  BY <1>1, ConcatAdjacentSubSeq
<1> QED  BY <1>3, <1>4, <1>5

\* A buffer not yet touched, and one handed over.
LEMMA WholeAndNone ==
    ASSUME NEW buf \in Seq(Bytes)
    PROVE  /\ SubSeq(buf, 0 + 1, Len(buf)) = buf
           /\ SubSeq(buf, Len(buf) + 1, Len(buf)) = << >>
<1>1. Len(buf) \in Nat /\ 0 + 1 = 1
  OBVIOUS
<1>2. SubSeq(buf, 1, Len(buf)) = buf
  BY <1>1
<1>3. SubSeq(buf, Len(buf) + 1, Len(buf)) = << >>
  BY <1>1
<1> QED  BY <1>1, <1>2, <1>3

\* What is told of the parts read, in terms of any sequence of parts.
LEMMA VerifiedSeen == Verified = VerifiedIn(seen)
<1>1. \A i : Streams(i) <=> StreamsIn(seen, i)
  BY ToldOfSeen
<1> QED  BY <1>1 DEF Verified, VerifiedIn, GivenBy, IsKind

\* A part that is read gives data just when the Reader takes it for a good block
\* (reader.go:102-132, 151-180, 551-559).
LEMMA PartGives ==
    ASSUME IInv, NEW part \in AnyPart, seen' = Append(seen, part),
           \/ pc = "header" /\ ReadHeader(part)
           \/ pc = "block" /\ ReadBlock(part)
    PROVE  IF pc = "block" /\ part.kind = "block" /\ part.good
           THEN GivenBy(seen', Len(seen) + 1) = Data(part.block)
           ELSE GivenBy(seen', Len(seen) + 1) = << >>
<1>1. seen \in Seq(AnyPart) /\ err = "none" /\ StreamsIn(seen, Len(seen))
  BY DEF IInv, Types, Looking, Located, PartsRead
<1>2. /\ Len(seen) \in Nat /\ seen'[Len(seen) + 1] = part
      /\ \A k \in 1..Len(seen) : seen'[k] = seen[k]
  BY <1>1, OneMore
<1>3. Len(seen) > 0 => seen'[(Len(seen) + 1) - 1] = seen[Len(seen)]
  BY <1>2
<1>4. CASE part.kind # "block"
  BY <1>2, <1>4 DEF GivenBy
<1>5. CASE part.kind = "block" /\ pc = "header"
  <2>1. AtStart \/ BehindTrailer
    BY <1>1, <1>5 DEF IInv, Located, Within
  <2>2. Len(seen) > 0 => seen'[(Len(seen) + 1) - 1].kind = "trailer"
    BY <1>2, <1>3, <2>1 DEF AtStart, BehindTrailer, PartsRead
  <2>3. ~FitsIn(seen', Len(seen) + 1)
    BY <1>2, <1>5, <2>2 DEF FitsIn
  <2>4. ~StreamsIn(seen', Len(seen) + 1)
    BY <1>2, <2>3, Misfit
  <2> QED  BY <1>5, <2>4 DEF GivenBy
<1>6. CASE part.kind = "block" /\ pc = "block"
  <2>1. Within
    BY <1>1, <1>6 DEF IInv, Located, AtStart, BehindTrailer
  <2>2. Len(seen) > 0 /\ seen'[(Len(seen) + 1) - 1].kind \in {"header", "block"}
        /\ Len(seen) + 1 > 1 /\ Len(seen) + 1 > 0 /\ Len(seen) + 1 \in Nat
    BY <1>2, <1>3, <2>1 DEF Within, PartsRead
  <2>3. FitsIn(seen', Len(seen) + 1) <=> part.good
    BY <1>2, <1>6, <2>2 DEF FitsIn
  <2>4. CASE part.good
    <3>1. StreamsIn(seen', Len(seen) + 1)
      BY <1>1, <2>3, <2>4, StreamsLonger
    <3> QED  BY <1>2, <1>6, <2>4, <3>1 DEF GivenBy
  <2>5. CASE ~part.good
    <3>1. ~StreamsIn(seen', Len(seen) + 1)
      BY <2>2, <2>3, <2>5, Misfit
    <3> QED  BY <2>5, <3>1 DEF GivenBy
  <2> QED  BY <2>4, <2>5
<1> QED  BY <1>4, <1>5, <1>6

\* Reading a part hands over nothing, and puts at most its own data in the buffer
\* (reader.go:102-180, 551-559).
LEMMA PartHandedOver ==
    ASSUME IInv, ReadPart
    PROVE  Emptied' /\ NothingLostNorInvented'
<1>1. PICK part \in Parts :
         /\ \/ pc = "header" /\ ReadHeader(part)
            \/ pc = "block" /\ ReadBlock(part)
         /\ seen' = Append(seen, part)
         /\ UNCHANGED <<len, n, ret, delivered, left>>
  BY DEF ReadPart
<1>2. /\ seen \in Seq(AnyPart) /\ err = "none" /\ outBuf \in Seq(Bytes)
      /\ delivered \in Seq(Bytes) /\ left \in Seq(Bytes)
      /\ outPos \in Nat /\ Len(outBuf) \in Nat /\ outPos <= Len(outBuf) /\ Drained
  BY <1>1 DEF IInv, Types, Looking, Emptied
<1>3. part \in AnyPart
  BY <1>2, PartsAreParts
<1> DEFINE given == GivenBy(seen', Len(seen) + 1)
<1>4. /\ VerifiedIn(seen') = VerifiedIn(seen) \o given
      /\ VerifiedIn(seen) \in Seq(Bytes) /\ given \in Seq(Bytes)
  BY <1>1, <1>2, <1>3, VerifiedAppend
<1>5. Unserved = << >>
  <2>1. outPos = Len(outBuf)
    BY <1>2 DEF Drained
  <2> QED  BY <1>2, <2>1, WholeAndNone DEF Unserved
<1>6. delivered = left \o VerifiedIn(seen)
  <2>1. delivered \o << >> = left \o VerifiedIn(seen)
    BY <1>5, VerifiedSeen DEF IInv, NothingLostNorInvented
  <2>2. delivered \o << >> = delivered
    BY <1>2
  <2> QED  BY <2>1, <2>2
<1>7. Verified' = VerifiedIn(seen) \o given
  <2>1. Verified' = VerifiedIn(seen')
    <3>1. (Verified = VerifiedIn(seen))'
      BY VerifiedSeen, PTL
    <3> QED  BY <3>1 DEF VerifiedIn, GivenBy, StreamsIn, FitsIn, OpenIn, SinceIn, Data
  <2> QED  BY <1>4, <2>1
<1>8. ASSUME given = << >>, Unserved' = << >>
      PROVE  NothingLostNorInvented'
  <2>1. VerifiedIn(seen) \o << >> = VerifiedIn(seen) /\ delivered \o << >> = delivered
    BY <1>2, <1>4
  <2> QED  BY <1>1, <1>6, <1>7, <1>8, <2>1 DEF NothingLostNorInvented
<1>9. CASE pc = "block" /\ part.kind = "block" /\ part.good
  <2>1. /\ outBuf' = Data(part.block) /\ outPos' = 0 /\ err' = err /\ pc' = "loop"
    BY <1>1, <1>9 DEF ReadBlock, Fails, ReadGoodOrBadBlock, BlockVerified, StartPos
  <2>2. given = Data(part.block)
    BY <1>1, <1>3, <1>9, PartGives
  <2>3. Unserved' = given
    <3>1. Unserved' = SubSeq(outBuf', outPos' + 1, Len(outBuf'))
      BY <1>2, <2>1 DEF Unserved
    <3> HIDE DEF given
    <3> QED  BY <1>4, <2>1, <2>2, <3>1, WholeAndNone
  <2>4. (left \o VerifiedIn(seen)) \o given = left \o (VerifiedIn(seen) \o given)
    <3> HIDE DEF given
    <3>1. left \in Seq(Bytes) /\ VerifiedIn(seen) \in Seq(Bytes) /\ given \in Seq(Bytes)
      BY <1>2, <1>4
    <3> QED  BY <3>1, ConcatAssociative
  <2>5. NothingLostNorInvented'
    BY <1>1, <1>6, <1>7, <2>3, <2>4 DEF NothingLostNorInvented
  <2>6. Emptied'
    BY <1>1, <1>2, <1>4, <2>1, <2>2 DEF Emptied
  <2> QED  BY <2>5, <2>6
<1>10. CASE ~(pc = "block" /\ part.kind = "block" /\ part.good)
  <2>1. given = << >>
    BY <1>1, <1>3, <1>10, PartGives
  <2>2. \/ err' # "none" /\ pc' = "loop"
           /\ (outBuf' = outBuf \/ (part.kind = "block" /\ outBuf' = Data(part.block)))
        \/ err' = "none" /\ UNCHANGED <<outBuf, outPos>>
    BY <1>1, <1>2, <1>10
       DEF ReadHeader, ReadBlock, ReadGoodOrBadBlock, BlockVerified, Fails, EndError, bufVars
  <2>3. Unserved' = << >>
    <3>1. CASE err' # "none"
      BY <3>1 DEF Unserved
    <3>2. CASE err' = "none" /\ UNCHANGED <<outBuf, outPos>>
      <4>1. Unserved' = Unserved
        BY <1>2, <3>2 DEF Unserved
      <4> QED  BY <1>5, <4>1
    <3> QED  BY <2>2, <3>1, <3>2
  <2>4. outBuf' \in Seq(Bytes)
    BY <1>2, <1>3, <2>2, PartFacts, DataFacts
  <2>5. pc' \in {"header", "block"} => Drained'
    BY <1>2, <2>2 DEF Drained
  <2>6. Emptied'
    BY <1>1, <1>2, <2>4, <2>5 DEF Emptied
  <2> QED  BY <1>8, <2>1, <2>3, <2>6
<1> QED  BY <1>9, <1>10

\* A step hands over what is next, or nothing (reader.go:44-95).
LEMMA HandedOverStays ==
    ASSUME IInv, [Next]_vars
    PROVE  Emptied' /\ NothingLostNorInvented'
<1>0. /\ outBuf \in Seq(Bytes) /\ delivered \in Seq(Bytes) /\ left \in Seq(Bytes)
      /\ outPos \in Nat /\ Len(outBuf) \in Nat /\ Emptied /\ NothingLostNorInvented
  BY DEF IInv, Types, Emptied
<1>1. ASSUME UNCHANGED <<outBuf, outPos, err, seen, delivered, left>>,
             pc' \in {"header", "block"} => Drained
      PROVE  Emptied' /\ NothingLostNorInvented'
  <2>1. Verified' = Verified
    BY <1>1 DEF Verified, IsKind, Streams, Open, BlocksSince, Data
  <2>2. Unserved' = Unserved
    BY <1>1 DEF Unserved
  <2>3. NothingLostNorInvented'
    BY <1>0, <1>1, <2>1, <2>2 DEF NothingLostNorInvented
  <2>4. Drained' <=> Drained
    BY <1>1 DEF Drained
  <2>5. Emptied'
    BY <1>0, <1>1, <2>4 DEF Emptied
  <2> QED  BY <2>3, <2>5
<1>2. CASE \E m \in Asked : Read(m)
  BY <1>1, <1>2 DEF Read, streamVars, bufVars
<1>3. CASE ReadReturn
  BY <1>1, <1>3 DEF ReadReturn, streamVars, bufVars
<1>4. CASE NeedBlock
  BY <1>1, <1>4 DEF NeedBlock, streamVars, bufVars
<1>5. CASE BlockServed
  BY <1>0, <1>1, <1>5 DEF BlockServed, streamVars, callVars, Emptied
<1>6. CASE Serve
  <2>1. /\ n < len /\ err = "none" /\ outPos < Len(outBuf) /\ len \in Nat /\ n \in Nat
        /\ pc = "loop" /\ UNCHANGED <<outBuf, err, seen, left, pc>>
    BY <1>0, <1>6 DEF Serve, Wants, Drained, IInv, Types, streamVars
  <2>2. PICK c : /\ c = IF len - n < Len(outBuf) - outPos THEN len - n ELSE Len(outBuf) - outPos
                 /\ outPos' = outPos + c
                 /\ delivered' = delivered \o SubSeq(outBuf, outPos + 1, outPos + c)
    BY <1>6 DEF Serve
  <2>3. c \in Nat /\ outPos + c <= Len(outBuf)
    BY <1>0, <2>1, <2>2
  <2> DEFINE served == SubSeq(outBuf, outPos + 1, outPos + c)
             rest == SubSeq(outBuf, outPos + c + 1, Len(outBuf))
  <2>4. served \in Seq(Bytes) /\ rest \in Seq(Bytes)
        /\ served \o rest = SubSeq(outBuf, outPos + 1, Len(outBuf))
    BY <1>0, <2>3, ServedAndLeft
  <2>5. Unserved = served \o rest /\ Unserved' = rest
    BY <2>1, <2>2, <2>4 DEF Unserved
  <2>6. Verified' = Verified
    BY <2>1 DEF Verified, IsKind, Streams, Open, BlocksSince, Data
  <2>7. delivered' = delivered \o served
    BY <2>2
  <2> HIDE DEF served, rest
  <2>8. (delivered \o served) \o rest = delivered \o (served \o rest)
        /\ delivered \o served \in Seq(Bytes)
    <3>1. delivered \in Seq(Bytes) /\ served \in Seq(Bytes) /\ rest \in Seq(Bytes)
      BY <1>0, <2>4
    <3> QED  BY <3>1, ConcatAssociative, ConcatProperties
  <2>9. NothingLostNorInvented'
    BY <1>0, <2>1, <2>5, <2>6, <2>7, <2>8 DEF NothingLostNorInvented
  <2> QED  BY <1>0, <2>1, <2>7, <2>8, <2>9 DEF Emptied
<1>7. CASE ReadPart
  BY <1>7, PartHandedOver
<1>8. CASE Reset
  <2>1. /\ outBuf' = outBuf /\ outPos' = 0 /\ err' = "none" /\ seen' = << >>
        /\ delivered' = << >> /\ left' = outBuf /\ pc' = "idle"
    BY <1>8 DEF Reset
  <2>2. Verified' = << >>
    <3>1. [i \in DOMAIN seen' |-> (IF IsKind(i, "block") /\ Streams(i) THEN Data(seen[i].block)
                                  ELSE << >>)'] = << >>
      BY <2>1
    <3> QED  BY <3>1, FlattenEmpty DEF Verified
  <2>3. Unserved' = outBuf
    <3>1. Unserved' = SubSeq(outBuf, 0 + 1, Len(outBuf))
      BY <2>1 DEF Unserved
    <3> QED  BY <1>0, <3>1, WholeAndNone
  <2>4. << >> \o outBuf = outBuf /\ outBuf \o << >> = outBuf /\ << >> \in Seq(Bytes)
    BY <1>0
  <2> QED  BY <1>0, <2>1, <2>2, <2>3, <2>4 DEF NothingLostNorInvented, Emptied
<1>9. CASE UNCHANGED vars
  BY <1>0, <1>1, <1>9 DEF vars, streamVars, bufVars, callVars, Emptied
<1> QED
  BY <1>2, <1>3, <1>4, <1>5, <1>6, <1>7, <1>8, <1>9 DEF Next, ReadGoesOn

-----------------------------------------------------------------------------
(* Theorems. *)

LEMMA Starts == Init => IInv
<1> SUFFICES ASSUME Init PROVE IInv
  OBVIOUS
<1>1. << >> \in Seq(Block) /\ << >> \in Seq(AnyPart) /\ Len(<< >>) = 0 /\ 0 \in 0..0
  OBVIOUS
<1>2. ret.n = 0 /\ ret.err = "none"
  BY DEF Init, Returned
<1>3. Types
  <2>1. n \in 0..len /\ len \in Nat /\ ret.n \in Nat
    BY <1>2 DEF Init
  <2>2. outPos \in Nat /\ outPos <= Len(outBuf) /\ Len(outBuf) \in Nat
    BY <1>1 DEF Init
  <2>3. combined \in Seq(Block) /\ seen \in Seq(AnyPart)
    BY <1>1 DEF Init
  <2> QED  BY <2>1, <2>2, <2>3 DEF Init, Types
<1>4. StreamsIn(seen, PartsRead) /\ AtStart
  BY <1>1 DEF Init, StreamsIn, AtStart, PartsRead
<1>5. Emptied /\ NothingLostNorInvented
  <2>1. /\ outBuf = << >> /\ outPos = 0 /\ err = "none" /\ seen = << >>
        /\ delivered = << >> /\ left = << >> /\ pc = "idle"
    BY DEF Init
  <2>2. Verified = << >>
    <3>1. [i \in DOMAIN seen |-> IF IsKind(i, "block") /\ Streams(i) THEN Data(seen[i].block)
                                ELSE << >>] = << >>
      BY <2>1
    <3> QED  BY <3>1, FlattenEmpty DEF Verified
  <2>3. << >> \in Seq(Bytes) /\ << >> \o << >> = << >>
    OBVIOUS
  <2>4. Unserved = << >>
    <3>1. Unserved = SubSeq(<< >>, 0 + 1, Len(<< >>))
      BY <2>1 DEF Unserved
    <3> QED  BY <2>3, <3>1, WholeAndNone
  <2> QED  BY <2>1, <2>2, <2>3, <2>4 DEF NothingLostNorInvented, Emptied
<1> QED
  BY <1>2, <1>3, <1>4, <1>5 DEF Init, IInv, Located, AtEnd, Justified, Looking, Sticky

\* Whatever the source holds and wherever it ends or fails.
THEOREM Invariance == Spec => []IInv
<1>1. IInv /\ [Next]_vars => IInv'
  BY TypesStay, LocatedStays, StickyStays, HandedOverStays DEF IInv
<1> QED  BY Starts, <1>1, PTL DEF Spec

\* The position in the decoded block stays within it, a call gets no more than it asked for.
THEOREM TypeCorrect == Spec => []TypeOK
<1>1. IInv => TypeOK
  BY DEF IInv, Types, TypeOK
<1> QED  BY <1>1, Invariance, PTL

\* Truncation is never taken for the end of the data (reader.go:102-111).
THEOREM EndIsEnd == Spec => []EOFMeansComplete
<1>1. IInv => EOFMeansComplete
  <2> SUFFICES ASSUME IInv, err = "EOF"
               PROVE  /\ Len(seen) > 1
                      /\ IsKind(Len(seen), "end") /\ IsKind(Len(seen) - 1, "trailer")
                      /\ Streams(Len(seen) - 1)
    BY DEF EOFMeansComplete
  <2> QED  BY ToldOfSeen DEF IInv, AtEnd, PartsRead, IsKind
<1> QED  BY <1>1, Invariance, PTL

\* A good source is read without an error, however many streams it holds
\* (reader.go:130-132, 168-173).
THEOREM GoodIsAccepted == Spec => []NoFalseAlarm
<1>1. IInv => NoFalseAlarm
  BY ToldOfSeen DEF IInv, Justified, NoFalseAlarm, PartsRead
<1> QED  BY <1>1, Invariance, PTL

\* The bytes handed over are those of the verified blocks, in order and once, behind what
\* the last Reset left in the buffer: none of a block whose checksum is wrong, of a part
\* out of its place or of anything after an error (reader.go:44-95, 551-559).
THEOREM OnlyVerifiedData == Spec => []NothingLostNorInvented
<1>1. IInv => NothingLostNorInvented
  BY DEF IInv
<1> QED  BY <1>1, Invariance, PTL

\* A call gives data or an error, and an error stays (reader.go:46-51).
THEOREM CallerIsTold == Spec => ReadContract
<1>1. IInv /\ [Next]_vars
      => [pc = "loop" /\ pc' = "idle" =>
            /\ (ret'.n > 0) # (ret'.err # "none")
            /\ ret.err # "none" => ret' = ret]_vars
  <2> SUFFICES ASSUME IInv, Next, pc = "loop", pc' = "idle"
               PROVE  /\ (ret'.n > 0) # (ret'.err # "none")
                      /\ ret.err # "none" => ret' = ret
    OBVIOUS
  <2>1. ReadReturn
    <3>1. ~ReadPart /\ ~Reset /\ \A m \in Asked : ~Read(m)
      BY DEF ReadPart, Reset, Read
    <3>2. ~Serve /\ ~BlockServed
      BY DEF Serve, BlockServed, callVars
    <3>3. ~NeedBlock
      BY DEF NeedBlock, NextPart
    <3> QED  BY <3>1, <3>2, <3>3 DEF Next, ReadGoesOn
  <2>2. /\ n = len \/ err # "none"
        /\ ret' = IF n = len \/ n > 0 THEN Returned(n, "none") ELSE Returned(0, err)
    BY <2>1 DEF ReadReturn, Report
  <2>3. len > 0 /\ len \in Nat
    BY DEF IInv, Types, Sticky
  <2>4. n \in Nat
    BY <2>3 DEF IInv, Types
  <2>5. CASE n = len \/ n > 0
    <3>1. ret'.n = n /\ ret'.err = "none" /\ n > 0
      BY <2>2, <2>3, <2>4, <2>5 DEF Returned
    <3>2. ret.err = "none"
      BY <2>4, <3>1 DEF IInv, Sticky
    <3> QED  BY <3>1, <3>2
  <2>6. CASE ~(n = len \/ n > 0)
    <3>1. ret'.n = 0 /\ ret'.err = err /\ err # "none" /\ ret' = Returned(0, err)
      BY <2>2, <2>6 DEF Returned
    <3> QED  BY <3>1 DEF IInv, Sticky
  <2> QED  BY <2>5, <2>6
<1> QED  BY <1>1, Invariance, PTL DEF Spec, ReadContract
=============================================================================
