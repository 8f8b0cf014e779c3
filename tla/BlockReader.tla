----------------------------- MODULE BlockReader -----------------------------
(***************************************************************************)
(* readBlock (reader.go): a block is decoded, from the first field behind  *)
(* the checksum to the bytes of the block.  What arrives is any sequence   *)
(* of bits, made by some encoder or damaged: bits behind the end read as   *)
(* 0, as the bitReader has it, and the reader looks for its error where    *)
(* the code does.  The bit for randomised blocks is left out.              *)
(*                                                                         *)
(* "panic" stands for an index out of range, which Go's runtime turns into *)
(* a panic.                                                                *)
(***************************************************************************)
EXTENDS Mtf, PrefixCodes

CONSTANTS
    Longest,        \* longest code the reader takes (20 in the code)
    RunLimit,       \* weight of a run's digit that is too much (2097152)
    MaxBlock        \* nblockMAX, the room in tt

ASSUME ReaderAssumption ==
    /\ Longest \in Nat \ {0}
    /\ RunLimit \in Nat \ {0}
    /\ MaxBlock \in Nat

VARIABLES
    arrived,        \* the bits behind the block's checksum
    reader,         \* "header", "tables", "symbols", "inverse" or an outcome:
                    \* "ok", "error", "panic"
    pos,            \* next bit to read
    head,           \* what the header says
    decode,         \* per table the decode table
    group,          \* groupNo and groupPos
    list,           \* the move-to-front list
    run,            \* the run being read: es and N
    tt              \* the bytes of the sorted rotations; at last the block

stateVars == << reader, pos, head, decode, group, list, run, tt >>
readerVars == << arrived, stateVars >>

Failed == reader \in {"error", "panic"}
NoRun == [es |-> -1, N |-> 1]

ReadBit(p) == IF p <= Len(arrived) THEN arrived[p] ELSE 0
ReadBits(p, width) ==
    LET value[k \in 0 .. width] ==
            IF k = 0 THEN 0 ELSE 2 * value[k - 1] + ReadBit(p + k - 1)
    IN  value[width]
\* br.Err(), when all before p was read.
PastEnd(p) == p > Len(arrived) + 1

-----------------------------------------------------------------------------
\* A number below bound in unary, and where it ends.
ReadUnary(p, bound) ==
    LET zeros == {j \in 0 .. bound - 1 : ReadBit(p + j) = 0}
        j == Min(zeros)
    IN  IF zeros = {} THEN [p |-> p + bound, j |-> bound, bad |-> TRUE]
        ELSE [p |-> p + j + 1, j |-> j, bad |-> FALSE]

\* The selectors' positions, one after the other.
ReadSelectors(p, numSelectors, numGroups) ==
    LET read[k \in 0 .. numSelectors] ==
            IF k = 0 THEN [p |-> p, j |-> 0, bad |-> FALSE]
            ELSE LET last == read[k - 1]
                 IN  IF last.bad THEN last ELSE ReadUnary(last.p, numGroups)
        end == read[numSelectors]
    IN  [p |-> end.p, bad |-> end.bad,
         selectorMtf |-> [k \in 1 .. Min({numSelectors, MaxSelectors}) |-> read[k].j]]

SeqToUnseq(used) == InOrder(used, LAMBDA b, c : b < c)

ReadHeader ==
    LET rowsAt == 1 + PtrBits
        rows == {r \in 0 .. RowLen - 1 : ReadBit(rowsAt + r) = 1}
        rowAt(r) == rowsAt + RowLen * (1 + Cardinality({q \in rows : q < r}))
        used == {c \in Bytes : /\ c \div RowLen \in rows
                               /\ ReadBit(rowAt(c \div RowLen) + (c % RowLen)) = 1}
        groupsAt == rowsAt + RowLen * (1 + Cardinality(rows))
        numGroups == ReadBits(groupsAt, 3)
        numSelectors == ReadBits(groupsAt + 3, SelBits)
        sels == ReadSelectors(groupsAt + 3 + SelBits, numSelectors, numGroups)
        bad == \/ PastEnd(groupsAt) \/ used = {}
               \/ numGroups \notin 2 .. NGroups \/ numSelectors < 1
               \/ sels.bad \/ PastEnd(sels.p)
    IN  /\ reader = "header"
        /\ \/ bad /\ reader' = "error" /\ UNCHANGED << pos, head, list >>
           \/ /\ ~bad
              /\ head' = [origPtr |-> ReadBits(1, PtrBits),
                          seqToUnseq |-> SeqToUnseq(used),
                          nInUse |-> Cardinality(used),
                          numGroups |-> numGroups,
                          selector |-> MTFDecode(sels.selectorMtf, numGroups)]
              /\ pos' = sels.p
              /\ list' = InitialList(A)
              /\ reader' = "tables"
        /\ UNCHANGED << arrived, decode, group, run, tt >>

\* One code length, by steps from the one before it.
ReadLength(p, from) ==
    LET last == Min({k \in 0 .. Len(arrived) : ReadBit(p + 2 * k) = 0})
        downs(k) == Cardinality({j \in 0 .. k - 1 : ReadBit(p + 2 * j + 1) = 1})
        curr(k) == from + k - 2 * downs(k)
    IN  [p |-> p + 2 * last + 1, curr |-> curr(last),
         bad |-> \E k \in 0 .. last : curr(k) \notin 1 .. Longest]

\* The code lengths of a table.
ReadLengths(p, alphaSize) ==
    LET read[v \in 0 .. alphaSize] ==
            IF v = 0 THEN [p |-> p + 5, curr |-> ReadBits(p, 5), bad |-> FALSE]
            ELSE LET last == read[v - 1]
                 IN  IF last.bad THEN last ELSE ReadLength(last.p, last.curr)
        end == read[alphaSize]
    IN  [p |-> end.p, bad |-> end.bad,
         codeLens |-> [v \in 0 .. alphaSize - 1 |-> read[v + 1].curr]]

\* The next table.
ReadTable ==
    LET got == ReadLengths(pos, head.nInUse + 2)
        lastTable == Len(decode) + 1 = head.numGroups
        bad == got.bad \/ (lastTable /\ PastEnd(got.p))
    IN  /\ reader = "tables"
        /\ \/ bad /\ reader' = "error" /\ UNCHANGED << pos, decode >>
           \/ /\ ~bad
              /\ decode' = Append(decode, CreateDecodeTables(got.codeLens, Longest))
              /\ pos' = got.p
              /\ reader' = IF lastTable THEN "symbols" ELSE "tables"
        /\ UNCHANGED << arrived, head, group, list, run, tt >>

-----------------------------------------------------------------------------
\* Mutant: the last code of a length is taken for a longer one.
CodeEndStrict(table, p) ==
    Min({zn \in table.minLen .. Longest + 1 :
            zn > Longest \/ ReadBits(p, zn) < table.limit[zn]})
\* The first length at which the bits read are not beyond the codes of it.
CodeEnd(table, p) ==
    Min({zn \in table.minLen .. Longest + 1 :
            zn > Longest \/ ReadBits(p, zn) <= table.limit[zn]})

\* Mutant: groups are not counted against the selectors.
RanOutNever(no) == FALSE
RanOut(no) == no >= Len(head.selector)

\* getSymbol: the symbol, or what is wrong, and the state it leaves.
GetSymbol ==
    LET fresh == group.left = 0
        no == IF fresh THEN group.no + 1 ELSE group.no
        left == IF fresh THEN GroupSize ELSE group.left
        table == decode[head.selector[no + 1] + 1]
        zn == CodeEnd(table, pos)
        idx == ReadBits(pos, zn) - table.base[zn]
        wrong(how) == [fails |-> how, sym |-> 0, p |-> pos, group |-> group]
    IN  IF fresh /\ RanOut(no) THEN wrong("error")
        ELSE IF no + 1 \notin DOMAIN head.selector
                \/ head.selector[no + 1] + 1 \notin DOMAIN decode THEN wrong("panic")
        ELSE IF zn > Longest \/ PastEnd(pos + zn) THEN wrong("error")
        ELSE IF idx \notin 0 .. A + 1 THEN wrong("error")
        ELSE [fails |-> "no", p |-> pos + zn, group |-> [no |-> no, left |-> left - 1],
              sym |-> IF idx \in DOMAIN table.perm THEN table.perm[idx] ELSE 0]

ByteAt(i) == IF i \in DOMAIN head.seqToUnseq THEN head.seqToUnseq[i] ELSE 0

\* A symbol of a run adds a digit; any other ends the run and stands for the byte
\* at a position of the list, or for the end of the block.
ReadSymbol ==
    LET got == GetSymbol
        digit == got.sym \in {symRUNA, symRUNB}
        ended == tt \o [i \in 1 .. run.es + 1 |-> ByteAt(list[1])]
        eob == got.sym = head.nInUse + 1
    IN  /\ reader = "symbols"
        /\ \/ /\ got.fails # "no"
              /\ reader' = got.fails
              /\ UNCHANGED << pos, group, list, run, tt >>
           \/ /\ got.fails = "no" /\ digit
              /\ IF run.N >= RunLimit THEN reader' = "error" /\ UNCHANGED run
                 ELSE run' = RunDigit(run, got.sym) /\ UNCHANGED reader
              /\ pos' = got.p /\ group' = got.group
              /\ UNCHANGED << list, tt >>
           \/ /\ got.fails = "no" /\ ~digit
              /\ run' = NoRun /\ pos' = got.p /\ group' = got.group
              /\ IF Len(ended) > MaxBlock \/ (~eob /\ Len(ended) = MaxBlock)
                 THEN reader' = "error" /\ UNCHANGED << list, tt >>
                 ELSE IF eob THEN reader' = "inverse" /\ tt' = ended /\ UNCHANGED list
                 ELSE IF got.sym \notin DOMAIN list
                 THEN reader' = "panic" /\ UNCHANGED << list, tt >>
                 ELSE /\ tt' = Append(ended, ByteAt(list[got.sym]))
                      /\ list' = MoveToFront(list, got.sym - 1)
                      /\ UNCHANGED reader
        /\ UNCHANGED << arrived, head, decode >>

\* Where the bytes of tt stand when they are sorted.
Follow == RadixSort(Len(tt), LAMBDA i, j : \/ tt[i + 1] < tt[j + 1]
                                           \/ tt[i + 1] = tt[j + 1] /\ i < j)

\* From the last bytes of the sorted rotations, the rotation at place from: the next
\* byte of a rotation is found where the rotation one further on is listed.
RotationFrom(from) ==
    LET tPos[k \in 0 .. Len(tt)] ==
            IF k = 0 THEN Follow[from] ELSE Follow[tPos[k - 1]]
    IN  [k \in 1 .. Len(tt) |-> tt[tPos[k - 1] + 1]]

Invert ==
    /\ reader = "inverse"
    /\ \/ head.origPtr >= Len(tt) /\ reader' = "error" /\ UNCHANGED tt
       \/ head.origPtr < Len(tt) /\ reader' = "ok" /\ tt' = RotationFrom(head.origPtr)
    /\ UNCHANGED << arrived, pos, head, decode, group, list, run >>

-----------------------------------------------------------------------------
StateInit ==
    /\ reader = "header" /\ pos = 1 /\ head = << >> /\ decode = << >>
    /\ group = [no |-> -1, left |-> 0] /\ list = << >> /\ run = NoRun /\ tt = << >>

ReaderInit == arrived \in Seq({0, 1}) /\ StateInit

ReaderStep == ReadHeader \/ ReadTable \/ ReadSymbol \/ Invert

ReaderSpec == ReaderInit /\ [][ReaderStep]_readerVars

-----------------------------------------------------------------------------
\* The state of readBlock: it leaves no array and no field, whatever the bits are.
ReaderTypeOK ==
    /\ arrived \in Seq({0, 1})
    /\ reader \in {"header", "tables", "symbols", "inverse", "ok", "error", "panic"}
    /\ pos \in Nat \ {0}
    /\ group \in [no : -1 .. MaxSelectors - 1, left : 0 .. GroupSize - 1]
    /\ run \in [es : {-1} \cup Nat, N : 1 .. 2 * RunLimit]
    /\ list \in Seq(Bytes)
    /\ tt \in Seq(Bytes) /\ Len(tt) <= MaxBlock

\* Whatever bits arrive, the reader reports an error or makes some block of them, but
\* never uses an index that is out of range: the selectors say how many groups there
\* are, the code lengths which symbols, and both were read from the same stream
\* (reader.go:327-362, 396).
NeverPanics == reader # "panic"
=============================================================================
