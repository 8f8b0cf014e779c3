---------------------------- MODULE BlockEncoder ----------------------------
(***************************************************************************)
(* encodeBlock (writer.go): when the block is sorted, the last bytes of    *)
(* the rotations go through the move-to-front stage, and the symbols are   *)
(* written with several Huffman tables, one for each group of them.        *)
(* Tables and the choice among them are improved in turn.                  *)
(*                                                                         *)
(* stream is the block as bits, without its magic and checksum and the     *)
(* bit that says it is not randomised.                                     *)
(***************************************************************************)
EXTENDS SortedBlock, Mtf, Huffman, PrefixCodes

CONSTANTS
    GroupSteps,     \* numbers of symbols from which a further table is used
    NIters          \* rounds of improvement (4 in the code)

ASSUME EncoderAssumption ==
    /\ {MaxLen, NIters} \subseteq Nat \ {0}
    /\ GroupSteps \subseteq Nat /\ IsFiniteSet(GroupSteps)
    /\ NGroups = 2 + Cardinality(GroupSteps)

VARIABLES
    coder,      \* "sort", "select", "lengths", "write" or "written"
    mtfv,       \* the symbols
    codeLens,   \* per table the length of each symbol's code
    selector,   \* per group the table
    weight,     \* per table the weights its lengths are made from
    todo,       \* tables whose lengths are to be made in this round
    halvings,   \* how often the frequencies of the next table were halved
    iter,       \* rounds done
    stream

coderVars == << coder, mtfv, codeLens, selector, weight, todo, halvings, iter,
                stream >>

inUse == {block[i] : i \in DOMAIN block}
nInUse == Cardinality(inUse)
alphaSize == nInUse + 2
Symbols == 0 .. alphaSize - 1
unseqToSeq(c) == Cardinality({b \in inUse : b < c})

NumGroups(nMTF) == 2 + Cardinality({s \in GroupSteps : nMTF >= s})
Tables == 0 .. NumGroups(Len(mtfv)) - 1

\* Mutant: a symbol taken from the table before is not given to the next.
FavourSkips(syms, numGroups, s) ==
    LET nPart == numGroups - Len(s.favoured)
        upTo(g) == Cardinality({i \in DOMAIN syms : syms[i] \in s.gs .. g})
        ge == Min({g \in s.gs - 1 .. alphaSize - 1 :
                      upTo(g) >= s.remF \div nPart \/ g = alphaSize - 1})
        back == /\ ge > s.gs /\ nPart \notin {1, numGroups}
                /\ (numGroups - nPart) % 2 = 1
        last == IF back THEN ge - 1 ELSE ge
    IN  [gs |-> ge + 1, remF |-> s.remF - upTo(last),
         favoured |-> << s.gs .. last >> \o s.favoured]

\* The next table, the last one first, gets its part of the symbols from gs on, which
\* occur remF times: as even a part as whole symbols allow.
Favour(syms, numGroups, s) ==
    LET nPart == numGroups - Len(s.favoured)
        upTo(g) == Cardinality({i \in DOMAIN syms : syms[i] \in s.gs .. g})
        ge == Min({g \in s.gs - 1 .. alphaSize - 1 :
                      upTo(g) >= s.remF \div nPart \/ g = alphaSize - 1})
        back == /\ ge > s.gs /\ nPart \notin {1, numGroups}
                /\ (numGroups - nPart) % 2 = 1
        last == IF back THEN ge - 1 ELSE ge
    IN  [gs |-> last + 1, remF |-> s.remF - upTo(last),
         favoured |-> << s.gs .. last >> \o s.favoured]

\* Which symbols each table favours at first.
Favoured(syms, numGroups) ==
    LET after[k \in 0 .. numGroups] ==
            IF k = 0 THEN [gs |-> 0, remF |-> Len(syms), favoured |-> << >>]
            ELSE Favour(syms, numGroups, after[k - 1])
    IN  after[numGroups].favoured

\* The symbols and the first tables.
MakeSymbols ==
    LET syms == GenerateMTFValues(
                    [i \in 1 .. nblock |-> unseqToSeq(block[Rotate(ptr[i - 1] - 1 + nblock)])],
                    nInUse)
        groups == NumGroups(Len(syms))
        favoured == Favoured(syms, groups)
    IN  /\ coder = "sort" /\ sorter = "sorted"
        /\ mtfv' = syms
        /\ codeLens' = [t \in 0 .. groups - 1 |->
                          [v \in Symbols |-> IF v \in favoured[t + 1] THEN 0 ELSE 15]]
        /\ coder' = "select"
        /\ UNCHANGED << selector, weight, todo, halvings, iter, stream >>

\* Group k of the symbols.
Group(k) == SubSeq(mtfv, (k - 1) * GroupSize + 1, Min({k * GroupSize, Len(mtfv)}))
Groups == 1 .. (Len(mtfv) + GroupSize - 1) \div GroupSize
Cost(t, k) ==
    LET sum[i \in 0 .. Len(Group(k))] ==
            IF i = 0 THEN 0 ELSE sum[i - 1] + codeLens[t][Group(k)[i]]
    IN  sum[Len(Group(k))]
Cheapest(k) == Min({t \in Tables : \A u \in Tables : Cost(t, k) <= Cost(u, k)})

\* Each group takes the table that is cheapest for it; each table will be made
\* for the symbols of its groups.
SelectTables ==
    /\ coder = "select"
    /\ selector' = [k \in Groups |-> Cheapest(k)]
    /\ weight' = [t \in Tables |->
          InitialWeights([v \in Symbols |->
              Cardinality({i \in DOMAIN mtfv :
                  mtfv[i] = v /\ Cheapest((i - 1) \div GroupSize + 1) = t})])]
    /\ todo' = Tables
    /\ coder' = "lengths"
    /\ UNCHANGED << mtfv, codeLens, halvings, iter, stream >>

\* A round of makeCodeLengths for the next table.
MakeCodeLengths ==
    LET t == Min(todo)
        lens == CodeLengths(weight[t])
    IN  /\ coder = "lengths" /\ todo # {}
        /\ IF TooLong(lens)
           THEN /\ weight' = [weight EXCEPT ![t] = ScaleDown(@)]
                /\ halvings' = halvings + 1
                /\ UNCHANGED << codeLens, todo >>
           ELSE /\ codeLens' = [codeLens EXCEPT ![t] = lens]
                /\ todo' = todo \ {t}
                /\ halvings' = 0
                /\ UNCHANGED weight
        /\ UNCHANGED << coder, mtfv, selector, iter, stream >>

Iterate ==
    /\ coder = "lengths" /\ todo = {}
    /\ iter' = iter + 1
    /\ coder' = IF iter' = NIters THEN "write" ELSE "select"
    /\ UNCHANGED << mtfv, codeLens, selector, weight, todo, halvings, stream >>

-----------------------------------------------------------------------------
\* writeBits: the lowest bits of a number, the highest of them first.
Bits(width, value) ==
    LET shifted[k \in 0 .. width] == IF k = 0 THEN value ELSE shifted[k - 1] \div 2
    IN  [i \in 1 .. width |-> shifted[width - i] % 2]
Bit(b) == << IF b THEN 1 ELSE 0 >>
Times(bits, k) == FlattenSeq([i \in 1 .. k |-> bits])
Concat(F(_), size) == FlattenSeq([i \in 1 .. size |-> F(i - 1)])

Row(r) == r * RowLen .. (r + 1) * RowLen - 1
RowUsed(r) == Row(r) \cap inUse # {}
MapBits == Concat(LAMBDA r : Bit(RowUsed(r)), RowLen)
           \o Concat(LAMBDA r : IF RowUsed(r)
                                THEN Concat(LAMBDA c : Bit(r * RowLen + c \in inUse), RowLen)
                                ELSE << >>, RowLen)

SelectorBits ==
    LET positions == MTFEncode(selector, Cardinality(Tables))
    IN  Bits(3, Cardinality(Tables)) \o Bits(SelBits, Len(selector))
        \o Concat(LAMBDA i : Append(Times(<< 1 >>, positions[i + 1]), 0), Len(selector))

\* A length is written as the steps from the one before it.
LengthBits(from, to) ==
    Append(IF from < to THEN Times(<< 1, 0 >>, to - from)
                        ELSE Times(<< 1, 1 >>, from - to), 0)
TableBits(lens) ==
    Bits(5, lens[0])
    \o Concat(LAMBDA v : LengthBits(lens[IF v = 0 THEN 0 ELSE v - 1], lens[v]), alphaSize)

DataBits ==
    LET code == [t \in Tables |-> AssignCodes(codeLens[t])]
        table(i) == selector[i \div GroupSize + 1]
    IN  Concat(LAMBDA i : Bits(codeLens[table(i)][mtfv[i + 1]],
                               code[table(i)][mtfv[i + 1]]), Len(mtfv))

WriteBlockData ==
    /\ coder = "write"
    /\ stream' = Bits(PtrBits, OrigPtr) \o MapBits \o SelectorBits
                 \o Concat(LAMBDA t : TableBits(codeLens[t]), Cardinality(Tables))
                 \o DataBits
    /\ coder' = "written"
    /\ UNCHANGED << mtfv, codeLens, selector, weight, todo, halvings, iter >>

-----------------------------------------------------------------------------
EncoderInit ==
    /\ coder = "sort" /\ mtfv = << >> /\ codeLens = << >> /\ selector = << >>
    /\ weight = << >> /\ todo = {} /\ halvings = 0 /\ iter = 0 /\ stream = << >>

EncoderStep ==
    /\ MakeSymbols \/ SelectTables \/ MakeCodeLengths \/ Iterate \/ WriteBlockData
    /\ UNCHANGED sortedVars

-----------------------------------------------------------------------------
EncoderTypeOK ==
    /\ coder \in {"sort", "select", "lengths", "write", "written"}
    /\ mtfv \in Seq(Symbols)
    /\ coder # "sort" => codeLens \in [Tables -> [Symbols -> 0 .. 15 \cup 1 .. MaxLen]]
    /\ selector \in Seq(Tables) /\ todo \subseteq Tables
    /\ halvings \in Nat /\ iter \in 0 .. NIters /\ stream \in Seq({0, 1})

\* The first tables divide the symbols among them: whatever the frequencies, each
\* symbol is favoured by exactly one table.
FavouredOnce ==
    coder = "select" /\ iter = 0 =>
        \A v \in Symbols : Cardinality({t \in Tables : codeLens[t][v] = 0}) = 1

\* 2^longest times the sum of 2^-length.
Kraft(lens, longest) ==
    LET sum[k \in 0 .. Cardinality(DOMAIN lens)] ==
            IF k = 0 THEN 0 ELSE sum[k - 1] + Pow2[longest - lens[k - 1]]
    IN  sum[Cardinality(DOMAIN lens)]
IsPrefixOf(lens, code, u, v) ==
    /\ lens[u] <= lens[v]
    /\ code[v] \div Pow2[lens[v] - lens[u]] = code[u]

\* When a block is written, every table codes every symbol with 1 to MaxLen bits,
\* no code is the beginning of another and no bit pattern is left over: also for
\* tables no group uses, and after frequencies were halved because codes were long.
CodesUsable ==
    coder = "write" => \A t \in Tables :
        LET lens == codeLens[t]
            code == AssignCodes(lens)
        IN  /\ \A v \in Symbols : lens[v] \in 1 .. MaxLen /\ code[v] < Pow2[lens[v]]
            /\ \A u, v \in Symbols : u # v => ~IsPrefixOf(lens, code, u, v)
            /\ Kraft(lens, MaxLen) = Pow2[MaxLen]

\* makeCodeLengths comes to an end: frequencies that sum to at most n + 1 are down
\* to 1 and 2 after as many halvings as that has binary digits, and the codes for
\* such frequencies are short enough.
FewHalvings == Pow2[halvings] <= 2 * (nblock + 1)

\* Every array and field of fixed size has room: the symbols and the end of block
\* fit in nblock + 1 places, the selectors in their array and count, the index of
\* the first rotation in its bits.
ArraysLargeEnough ==
    /\ Len(mtfv) <= nblock + 1
    /\ Len(selector) <= MaxSelectors /\ Len(selector) < Pow2[SelBits]
    /\ sorter = "sorted" => OrigPtr < Pow2[PtrBits]
=============================================================================
