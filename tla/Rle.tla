-------------------------------- MODULE Rle --------------------------------
(***************************************************************************)
(* bzip2's first stage, a run-length code over bytes: up to three equal    *)
(* bytes stand for themselves, four stand for a run whose length is four   *)
(* plus the byte that follows.  RunCode is the writer's side               *)
(* (addPairToBlock), UnRLE the reader's (the state machine at the end of   *)
(* readBlock).                                                             *)
(***************************************************************************)
EXTENDS Naturals, Sequences, SequencesExt

Repeat(ch, n) == [i \in 1..n |-> ch]

\* What addPairToBlock appends for a run of len equal bytes.
RunCodeNoZeroCount(ch, len) ==
    IF len <= 4 THEN Repeat(ch, len) ELSE Append(Repeat(ch, 4), len - 4)
RunCode(ch, len) ==
    IF len < 4 THEN Repeat(ch, len) ELSE Append(Repeat(ch, 4), len - 4)

\* The reader's state machine: k0 is the byte of the current run, seen how many
\* of it were read; after four of them the next byte is the repeat count.
UnRLEStart == [out |-> << >>, k0 |-> 0, seen |-> 0]
UnRLEByte(st, k1) ==
    IF st.seen = 0 THEN [st EXCEPT !.k0 = k1, !.seen = 1]
    ELSE IF st.seen = 4
         THEN [st EXCEPT !.out = @ \o Repeat(st.k0, k1 + 4), !.seen = 0]
    ELSE IF k1 # st.k0
         THEN [out |-> st.out \o Repeat(st.k0, st.seen), k0 |-> k1, seen |-> 1]
    ELSE [st EXCEPT !.seen = @ + 1]

\* At the end of the block what was read of a run stands for itself.
UnRLE(bytes) ==
    LET end == FoldLeft(UnRLEByte, UnRLEStart, bytes)
    IN  end.out \o Repeat(end.k0, end.seen)
=============================================================================
