-------------------------------- MODULE Mtf --------------------------------
(***************************************************************************)
(* The move-to-front stage (mtf.go, and the same code for selectors in     *)
(* writer.go and reader.go).  A list is a sequence, its front first; a     *)
(* position counts from 0.  Runs of position 0 are numbers in the          *)
(* bijective base 2 with the digits RUNA = 1 and RUNB = 2, lowest first.   *)
(***************************************************************************)
EXTENDS Integers, SequencesExt

symRUNA == 0
symRUNB == 1

InitialList(size) == [i \in 1 .. size |-> i - 1]

MoveToFront(list, pos) == << list[pos + 1] >> \o RemoveAt(list, pos + 1)
PositionOf(list, sym) == SelectInSeq(list, LAMBDA x : x = sym) - 1

\* The digits for a run of zPend zeros.
RunDigits[zPend \in Nat] ==
    IF zPend = 0 THEN << >>
    ELSE << IF (zPend - 1) % 2 = 1 THEN symRUNB ELSE symRUNA >>
         \o RunDigits[(zPend - 1) \div 2]

\* Mutant: a run is not forgotten when it was written.
EncodeSymbolNoReset(s, llI) ==
    IF s.list[1] = llI THEN [s EXCEPT !.zPend = @ + 1]
    ELSE LET pos == PositionOf(s.list, llI)
         IN  [list |-> MoveToFront(s.list, pos), zPend |-> s.zPend,
              mtfv |-> s.mtfv \o RunDigits[s.zPend] \o << pos + 1 >>]

\* The next symbol makes a run longer, or ends it and is moved to the front.
EncodeSymbol(s, llI) ==
    IF s.list[1] = llI THEN [s EXCEPT !.zPend = @ + 1]
    ELSE LET pos == PositionOf(s.list, llI)
         IN  [list |-> MoveToFront(s.list, pos), zPend |-> 0,
              mtfv |-> s.mtfv \o RunDigits[s.zPend] \o << pos + 1 >>]

\* What the symbols llI become, up to the end-of-block symbol.
GenerateMTFValues(symbols, nInUse) ==
    LET after[k \in 0 .. Len(symbols)] ==
            IF k = 0 THEN [list |-> InitialList(nInUse), zPend |-> 0, mtfv |-> << >>]
            ELSE EncodeSymbol(after[k - 1], symbols[k])
        end == after[Len(symbols)]
    IN  end.mtfv \o RunDigits[end.zPend] \o << nInUse + 1 >>

\* One digit more of a run in the reader: es is the run less one, N the weight.
RunDigit(run, sym) == [es |-> run.es + (IF sym = symRUNA THEN 1 ELSE 2) * run.N,
                       N |-> 2 * run.N]

\* The position of each item of a sequence when it is moved to the front.
MTFEncode(items, size) ==
    LET lists[k \in 0 .. Len(items)] ==
            IF k = 0 THEN InitialList(size)
            ELSE MoveToFront(lists[k - 1], PositionOf(lists[k - 1], items[k]))
    IN  [k \in 1 .. Len(items) |-> PositionOf(lists[k - 1], items[k])]
MTFDecode(positions, size) ==
    LET lists[k \in 0 .. Len(positions)] ==
            IF k = 0 THEN InitialList(size)
            ELSE MoveToFront(lists[k - 1], positions[k])
    IN  [k \in 1 .. Len(positions) |-> lists[k][1]]
=============================================================================
