---------------------------- MODULE Bzip2Stream ----------------------------
(***************************************************************************)
(* What a compressing Writer promises, whichever path runs it: the         *)
(* destination receives the items of ONE bzip2 stream, in order - the      *)
(* header, the blocks in the order in which the caller's data filled them, *)
(* the trailer with the checksum combined over exactly those blocks - and  *)
(* Close reports success only when all of it got there.                    *)
(*                                                                         *)
(* An item counts as delivered when the destination took all its bytes; a  *)
(* failing destination may also have taken a part of the next item, which  *)
(* is not recorded, and takes nothing any more.                            *)
(***************************************************************************)
EXTENDS Naturals, Sequences

CONSTANT Block         \* the contents a block can have

VARIABLES sealed,      \* the blocks cut off the caller's data, in order
          dst,         \* the items delivered to the destination
          sink,        \* "ok" until a write to the destination fails
          phase,       \* "open", then "closing" once no more block may come
          result       \* what the Writer reported: "none" yet, "ok" or "error"

streamVars == <<sealed, dst, sink, phase, result>>

Header == <<"header">>
BlockItem(b) == <<"block", b>>

\* The combined checksum folds the blocks' checksums in order (rotate, xor): it
\* stands for the sequence of blocks it was folded over.
Trailer(blocks) == <<"trailer", blocks>>

\* The i-th item of the stream for a sequence of blocks, and the whole stream.
Item(blocks, i) ==
    IF i = 1 THEN Header
    ELSE IF i <= Len(blocks) + 1 THEN BlockItem(blocks[i - 1])
    ELSE Trailer(blocks)
Stream(blocks) == [i \in 1..Len(blocks) + 2 |-> Item(blocks, i)]

Items == {Header} \cup ({"block"} \X Block) \cup ({"trailer"} \X Seq(Block))

-----------------------------------------------------------------------------
Init ==
    /\ sealed = << >>
    /\ dst = << >>
    /\ sink = "ok"
    /\ phase = "open"
    /\ result = "none"

\* A block is complete: its place in the stream is settled.
Seal ==
    /\ phase = "open"
    /\ result = "none"
    /\ Len(sealed') = Len(sealed) + 1
    /\ sealed' = Append(sealed, sealed'[Len(sealed) + 1])
    /\ sealed'[Len(sealed) + 1] \in Block
    /\ UNCHANGED <<dst, sink, phase, result>>

\* The next item reaches the destination; the trailer only when the blocks are settled.
Deliver ==
    /\ sink = "ok"
    /\ result = "none"
    /\ Len(dst) <= Len(sealed) + (IF phase = "closing" THEN 1 ELSE 0)
    /\ dst' = Append(dst, Item(sealed, Len(dst) + 1))
    /\ UNCHANGED <<sealed, sink, phase, result>>

\* A write to the destination fails.
Fail ==
    /\ sink = "ok"
    /\ sink' = "failed"
    /\ UNCHANGED <<sealed, dst, phase, result>>

\* No more blocks.
Shut ==
    /\ phase = "open"
    /\ phase' = "closing"
    /\ UNCHANGED <<sealed, dst, sink, result>>

\* The caller is told: success, only for a whole stream, or the sink's error.
Finish ==
    /\ result = "none"
    /\ \/ /\ phase = "closing"
          /\ sink = "ok"
          /\ dst = Stream(sealed)
          /\ result' = "ok"
       \/ sink = "failed" /\ result' = "error"
    /\ UNCHANGED <<sealed, dst, sink, phase>>

\* Reset: a new stream to a new destination.
Restart ==
    /\ sealed' = << >>
    /\ dst' = << >>
    /\ sink' = "ok"
    /\ phase' = "open"
    /\ result' = "none"

Next == Seal \/ Deliver \/ Fail \/ Shut \/ Finish \/ Restart

Spec == Init /\ [][Next]_streamVars

-----------------------------------------------------------------------------
TypeOK ==
    /\ sealed \in Seq(Block)
    /\ dst \in Seq(Items)
    /\ sink \in {"ok", "failed"}
    /\ phase \in {"open", "closing"}
    /\ result \in {"none", "ok", "error"}

\* Whatever the destination holds is the beginning of the stream for the sealed blocks.
InOrder ==
    /\ Len(dst) <= Len(sealed) + (IF phase = "closing" THEN 2 ELSE 1)
    /\ \A i \in 1..Len(dst) : dst[i] = Item(sealed, i)

\* Success means that the destination holds the whole stream.
WholeOnSuccess == result = "ok" => dst = Stream(sealed)
=============================================================================
