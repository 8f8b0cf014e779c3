--------------------------- MODULE BlockRoundTrip ---------------------------
(***************************************************************************)
(* The encoder of a block and the reader's decoding of it.  In between the *)
(* bits may be damaged: one of them flipped, or the rest cut off.          *)
(***************************************************************************)
EXTENDS BlockEncoder, BlockReader

CONSTANTS
    DamageTwo,      \* bounds: longest block over two byte values that is damaged,
    DamageAll       \* over all

ASSUME RoundTripAssumption ==
    /\ {DamageTwo, DamageAll} \subseteq Nat
    /\ MaxLen <= Longest /\ Longest < 32
    /\ MaxBlock < RunLimit /\ MaxBlock <= Pow2[PtrBits]
    /\ MaxBlock < GroupSize * MaxSelectors /\ MaxSelectors < Pow2[SelBits]

VARIABLE sent       \* did the block leave the encoder

codedVars == << coderVars, sent, readerVars >>
vars == << sortedVars, codedVars >>

Damaged(bits) == {[bits EXCEPT ![i] = 1 - @] : i \in DOMAIN bits}
                 \cup {SubSeq(bits, 1, i - 1) : i \in DOMAIN bits}

\* What was written arrives, or on its way a bit flipped or its end got lost.
Transmit ==
    /\ coder = "written" /\ ~sent
    /\ sent' = TRUE
    /\ \/ arrived' = stream
       \/ /\ input \in Blocks({0, A - 1}, DamageTwo) \cup Blocks(Bytes, DamageAll)
          /\ arrived' \in Damaged(stream)
    /\ UNCHANGED << sortedVars, coderVars, stateVars >>

Finished == /\ Failed \/ reader = "ok"
            /\ UNCHANGED vars

-----------------------------------------------------------------------------
CodedInit == EncoderInit /\ sent = FALSE /\ arrived = << >> /\ StateInit

\* Everything but the sort.
CodedStep ==
    \/ EncoderStep /\ UNCHANGED << sent, readerVars >>
    \/ Transmit
    \/ sent /\ ReaderStep /\ UNCHANGED << sortedVars, coderVars, sent >>
    \/ Finished

Init == SortedInit(Blocks(Bytes, MaxBlock)) /\ CodedInit

Next == \/ Sort /\ UNCHANGED codedVars
        \/ CodedStep

Spec == Init /\ [][Next]_vars

-----------------------------------------------------------------------------
CodedTypeOK == EncoderTypeOK /\ sent \in BOOLEAN /\ ReaderTypeOK

\* What the reader makes of a block that arrives whole is the block.
DecodesBack ==
    sent /\ arrived = stream =>
        ~Failed /\ (reader = "ok" => tt = [i \in 1 .. nblock |-> input[i - 1]])
=============================================================================
