----------------------------- MODULE BlockSort -----------------------------
(***************************************************************************)
(* The block sort (blocksort.go): ptr is to list the rotations of the      *)
(* block in order.  Short blocks go to the fallback sort, which doubles    *)
(* the length H up to which rotations are told apart; long ones to the     *)
(* main sort, which sorts one big bucket (rotations with the same first    *)
(* byte) after the other and gives up when its budget is used, whereupon   *)
(* the fallback sort starts again from nothing.                            *)
(*                                                                         *)
(* A step is a phase of the fallback sort or a big bucket of the main      *)
(* sort.  Arrays are functions on 0 .. nblock-1, as in the code.           *)
(***************************************************************************)
EXTENDS SortedBlock, SequencesExt

CONSTANTS
    MainFrom,       \* length from which the main sort is used (10000 in the code)
    WorkFactors,    \* work factors the encoder is called with
    FallbackSmall,  \* ranges below it are sorted simply (10)
    MainSmall,      \* the same in the main sort (20)
    MainDepth,      \* and depth beyond which they are, too (14)
    Plain,          \* bytes compared before quadrants are looked at (12)
    Unroll,         \* comparisons between two checks for the end (4)
    Overshoot,      \* bytes of the block repeated behind its end (34)
    MaxQuadrant,    \* largest quadrant (65534)
    MaxTwo,         \* bounds: longest block over two byte values,
    MaxThree,       \* over these and one occurrence of a third,
    MaxAll          \* over all

ASSUME SortAssumption ==
    /\ WorkFactors \subseteq Int
    /\ {FallbackSmall, MainSmall, MainDepth, Plain, Unroll} \subseteq Nat \ {0}
    /\ MaxQuadrant \in Nat \ {0}
    /\ Overshoot \in Nat /\ Overshoot <= MainFrom /\ MainFrom \in Nat \ {0}
    /\ {MaxTwo, MaxThree, MaxAll} \subseteq Nat

\* sorter is "start", "fallback", "main" or "sorted"; ptr is the same array as fmap.
VARIABLES
    bh, H,      \* fallback: positions where a bucket starts, length sorted by
    ftab,       \* main: where each small bucket starts
    finished,   \* main: small buckets marked with setMask
    bigDone,    \* main: big buckets done
    quadrant,   \* main: rank of a rotation within its big bucket, 0 if unknown
    budget      \* main: comparisons left

sortVars == << sortedVars, bh, H, ftab, finished, bigDone, quadrant, budget >>

-----------------------------------------------------------------------------
(* Pieces both sorts use.                                                  *)

Swap(p, i, j) == [p EXCEPT ![i] = p[j], ![j] = p[i]]
VecSwap(p, a, b, len) ==
    [i \in DOMAIN p |-> IF i \in a .. a + len - 1 THEN p[i + b - a]
                        ELSE IF i \in b .. b + len - 1 THEN p[i - b + a]
                        ELSE p[i]]

\* The two pointers of a partition: what equals med gathers at both ends.
RECURSIVE ScanLo(_, _, _), ScanHi(_, _, _), Split(_, _, _)
ScanLo(s, key, med) ==
    IF s.unLo > s.unHi \/ key[s.p[s.unLo]] > med THEN s
    ELSE ScanLo(IF key[s.p[s.unLo]] = med
                THEN [s EXCEPT !.p = Swap(@, s.unLo, s.ltLo),
                               !.ltLo = @ + 1, !.unLo = @ + 1]
                ELSE [s EXCEPT !.unLo = @ + 1], key, med)
ScanHi(s, key, med) ==
    IF s.unLo > s.unHi \/ key[s.p[s.unHi]] < med THEN s
    ELSE ScanHi(IF key[s.p[s.unHi]] = med
                THEN [s EXCEPT !.p = Swap(@, s.unHi, s.gtHi),
                               !.gtHi = @ - 1, !.unHi = @ - 1]
                ELSE [s EXCEPT !.unHi = @ - 1], key, med)
Split(s, key, med) ==
    LET t == ScanHi(ScanLo(s, key, med), key, med)
    IN  IF t.unLo > t.unHi THEN t
        ELSE Split([t EXCEPT !.p = Swap(@, t.unLo, t.unHi),
                             !.unLo = @ + 1, !.unHi = @ - 1], key, med)

\* Three-way partition of p[lo .. hi]: smaller up to n1, larger from m1 on.
Gather(s, lo, hi) ==
    LET below == Min({s.ltLo - lo, s.unLo - s.ltLo})
        above == Min({hi - s.gtHi, s.gtHi - s.unHi})
    IN  [p |-> IF s.gtHi < s.ltLo THEN s.p
               ELSE VecSwap(VecSwap(s.p, lo, s.unLo - below, below),
                            s.unLo, hi - above + 1, above),
         allEqual |-> s.gtHi < s.ltLo,
         n1 |-> lo + s.unLo - s.ltLo - 1, m1 |-> hi - (s.gtHi - s.unHi) + 1]
Partition(p, key, med, lo, hi) ==
    Gather(Split([p |-> p, unLo |-> lo, ltLo |-> lo, unHi |-> hi, gtHi |-> hi],
                 key, med), lo, hi)

-----------------------------------------------------------------------------
(* The fallback sort.                                                      *)

\* Insert f[i] among f[i + h], f[i + 2h], ... up to hi.
InsertBy(f, eclass, i, h, hi) ==
    LET stop == Min({j \in i + h .. hi + h :
                        /\ ((j - i) % h) = 0
                        /\ j <= hi => eclass[f[i]] <= eclass[f[j]]})
    IN  [k \in DOMAIN f |->
            IF ((k - i) % h) # 0 \/ k \notin i .. stop - h THEN f[k]
            ELSE IF k = stop - h THEN f[i] ELSE f[k + h]]
FallbackSimpleSort(f, eclass, lo, hi) ==
    LET pass(g, h) == FoldLeft(LAMBDA x, k : InsertBy(x, eclass, hi - h - k, h, hi),
                               g, [k \in 1 .. hi - h - lo + 1 |-> k - 1])
    IN  pass(IF hi - lo > 3 THEN pass(f, 4) ELSE f, 1)

\* The parts of a partition, the smaller on top of the stack.
Parts(part, lo, hi) ==
    IF part.allEqual THEN << >>
    ELSE IF part.n1 - lo > hi - part.m1
    THEN << << lo, part.n1 >>, << part.m1, hi >> >>
    ELSE << << part.m1, hi >>, << lo, part.n1 >> >>

RECURSIVE FallbackQSort3(_, _, _, _), FallbackNext(_, _, _, _, _, _)
FallbackNext(part, eclass, rest, lo, hi, r) ==
    FallbackQSort3(part.p, eclass, rest \o Parts(part, lo, hi), r)
FallbackQSort3(f, eclass, stack, r) ==
    IF stack = << >> THEN f
    ELSE LET lo == Last(stack)[1]
             hi == Last(stack)[2]
             next == (r * 7621 + 1) % 32768
             pivot == << lo, (lo + hi) \div 2, hi >>[1 + (next % 3)]
         IN  IF hi - lo < FallbackSmall
             THEN FallbackQSort3(FallbackSimpleSort(f, eclass, lo, hi), eclass,
                                 Front(stack), r)
             ELSE FallbackNext(Partition(f, eclass, eclass[f[pivot]], lo, hi),
                               eclass, Front(stack), lo, hi, next)

\* Sort by the first byte; positions where the byte changes start buckets.
FallbackStart ==
    /\ ptr' = RadixSort(nblock, LAMBDA i, j : \/ block[i] < block[j]
                                              \/ block[i] = block[j] /\ i > j)
    /\ bh' = {Cardinality({i \in Positions : block[i] < c}) : c \in Bytes}
    /\ H' = 1
    /\ sorter' = "fallback"

\* Mutant: a rotation's own place is taken for its bucket.
EClassByPlace == [k \in Positions |->
                    CHOOSE i \in Positions : ptr[i] = Rotate(k + H)]
\* The bucket of the rotation H further on, by its first position.
EClass == [k \in Positions |->
            LET i == CHOOSE i \in Positions : ptr[i] = Rotate(k + H)
            IN  Max({h \in bh : h <= i})]
Unsorted == {b \in Positions \X Positions :
                /\ b[1] < b[2] /\ b[1] \in bh /\ b[2] + 1 \in bh \cup {nblock}
                /\ bh \cap (b[1] + 1 .. b[2]) = {}}

\* One phase: sort every bucket by the bucket H further on and split it.
FallbackPhase ==
    /\ sorter = "fallback" /\ H <= nblock
    /\ \E eclass \in {EClass} :
          /\ ptr' = FoldSet(LAMBDA b, f : FallbackQSort3(f, eclass, << b >>, 0),
                            ptr, Unsorted)
          /\ bh' = bh \cup UNION {{i \in b[1] + 1 .. b[2] :
                                      eclass[ptr'[i]] # eclass[ptr'[i - 1]]}
                                  : b \in Unsorted}
    /\ H' = IF Unsorted = {} THEN nblock + 1 ELSE 2 * H
    /\ UNCHANGED << input, block, sorter, ftab, finished, bigDone, quadrant, budget >>

\* The bytes are written back in sorted order.
FallbackReturns ==
    /\ sorter = "fallback" /\ H > nblock
    /\ block' = [i \in Positions |->
            LET at == CHOOSE k \in Positions : ptr[k] = i
            IN  Min({c \in Bytes :
                        Cardinality({j \in Positions : block[j] <= c}) > at})]
    /\ sorter' = "sorted"
    /\ UNCHANGED << input, ptr, bh, H, ftab, finished, bigDone, quadrant, budget >>

-----------------------------------------------------------------------------
(* The main sort.                                                          *)

\* The block with its beginning repeated behind the end.
Ext == [i \in 0 .. nblock + Overshoot - 1 |-> block[Rotate(i)]]
SmallBucket(i) == A * block[i] + block[Rotate(i + 1)]

\* Where rotations first differ, if they do so within len bytes.
Differ(i1, i2, len, f) == {u \in 0 .. len - 1 : f[i1 + u] # f[i2 + u]}

\* mainGtU from the quadrants on: does the rotation at i1 come after that at i2,
\* and how much budget did it take to see it.
RECURSIVE Compare(_, _, _, _, _)
Compare(i1, i2, k, rank, cost) ==
    LET diff == Differ(i1, i2, Unroll, rank)
        wrap(i) == IF i + Unroll >= nblock THEN i + Unroll - nblock ELSE i + Unroll
    IN  IF k < 0 THEN [gt |-> FALSE, cost |-> cost]
        ELSE IF diff # {} THEN [gt |-> rank[i1 + Min(diff)] > rank[i2 + Min(diff)],
                                cost |-> cost]
        ELSE Compare(wrap(i1), wrap(i2), k - Unroll, rank, cost + 1)

\* ctx: ext the block, rank the block with quadrants breaking ties.
MainGtU(i1, i2, ctx) ==
    LET diff == Differ(i1, i2, Plain, ctx.ext)
    IN  IF diff # {} THEN [gt |-> ctx.ext[i1 + Min(diff)] > ctx.ext[i2 + Min(diff)],
                           cost |-> 0]
        ELSE Compare(i1 + Plain, i2 + Plain, nblock + 8, ctx.rank, 0)

\* s: an array with the budget left.  v sinks from j by steps of h.
RECURSIVE Sink(_, _, _, _, _, _, _), Sunk(_, _, _, _, _, _, _, _)
Sunk(c, s, v, j, h, lo, d, ctx) ==
    LET t == [s EXCEPT !.left = @ - c.cost]
    IN  IF ~c.gt THEN [t EXCEPT !.p[j] = v]
        ELSE IF j - h <= lo + h - 1
             THEN [t EXCEPT !.p[j] = s.p[j - h], !.p[j - h] = v]
             ELSE Sink([t EXCEPT !.p[j] = s.p[j - h]], v, j - h, h, lo, d, ctx)
Sink(s, v, j, h, lo, d, ctx) ==
    Sunk(MainGtU(s.p[j - h] + d, v + d, ctx), s, v, j, h, lo, d, ctx)

\* Shell sort; every third insertion looks at the budget.
ShellIncs == {1, 4, 13, 40, 121, 364, 1093, 3280}
RECURSIVE Shell(_, _, _, _, _, _, _), Looked(_, _, _, _, _, _, _)
Looked(s, lo, hi, d, h, i, ctx) ==
    IF ((i - lo - h) % 3) = 2 /\ s.left < 0 THEN s
    ELSE Shell(s, lo, hi, d, h, i + 1, ctx)
Shell(s, lo, hi, d, h, i, ctx) ==
    IF i <= hi THEN Looked(Sink(s, s.p[i], i, h, lo, d, ctx), lo, hi, d, h, i, ctx)
    ELSE IF h = 1 THEN s
    ELSE Shell(s, lo, hi, d, (h - 1) \div 3, lo + (h - 1) \div 3, ctx)
MainSimpleSort(s, lo, hi, d, ctx) ==
    IF hi - lo + 1 < 2 THEN s
    ELSE LET h == Max({g \in ShellIncs : g < hi - lo + 1})
         IN  Shell(s, lo, hi, d, h, lo + h, ctx)

Median(x, y, z) == Max({Min({x, y}), Min({Max({x, y}), z})})
\* The parts of a partition, the smallest on top of the stack.
MainParts(part, lo, hi, d) ==
    LET parts == << << lo, part.n1, d >>, << part.m1, hi, d >>,
                    << part.n1 + 1, part.m1 - 1, d + 1 >> >>
        size(i) == parts[i][2] - parts[i][1]
        before(i, j) == size(i) > size(j) \/ (size(i) = size(j) /\ i < j)
        place(i) == Cardinality({j \in 1 .. 3 : before(j, i)}) + 1
    IN  IF part.allEqual THEN << << lo, hi, d + 1 >> >>
        ELSE [k \in 1 .. 3 |-> parts[CHOOSE i \in 1 .. 3 : place(i) = k]]

RECURSIVE MainQSort3(_, _, _), MainNext(_, _, _, _, _, _, _), GoOn(_, _, _)
MainNext(part, left, rest, lo, hi, d, ctx) ==
    MainQSort3([p |-> part.p, left |-> left], rest \o MainParts(part, lo, hi, d), ctx)
GoOn(s, rest, ctx) == IF s.left < 0 THEN s ELSE MainQSort3(s, rest, ctx)
MainQSort3(s, stack, ctx) ==
    IF stack = << >> THEN s
    ELSE LET lo == Last(stack)[1]
             hi == Last(stack)[2]
             d == Last(stack)[3]
             key == [i \in Positions |-> ctx.ext[i + d]]
             med == Median(key[s.p[lo]], key[s.p[hi]], key[s.p[(lo + hi) \div 2]])
         IN  IF hi - lo < MainSmall \/ d > MainDepth
             THEN GoOn(MainSimpleSort(s, lo, hi, d, ctx), Front(stack), ctx)
             ELSE MainNext(Partition(s.p, key, med, lo, hi), s.left, Front(stack),
                           lo, hi, d, ctx)

\* Sort by the first two bytes.
MainStart ==
    /\ ftab' = [sb \in 0 .. A * A |->
                    Cardinality({i \in Positions : SmallBucket(i) < sb})]
    /\ ptr' = RadixSort(nblock, LAMBDA i, j : \/ SmallBucket(i) < SmallBucket(j)
                                              \/ SmallBucket(i) = SmallBucket(j) /\ i < j)
    /\ quadrant' = [i \in 0 .. nblock + Overshoot - 1 |-> 0]
    /\ sorter' = "main"

BigFreq(b) == ftab[(b + 1) * A] - ftab[b * A]

\* Step 1: the small buckets [ss, jj] not sorted yet.
SortSmallBuckets(ss) ==
    LET ctx == [ext |-> Ext,
                rank |-> [i \in DOMAIN quadrant |->
                            block[Rotate(i)] * (MaxQuadrant + 1) + quadrant[i]]]
        sort(s, sb) ==
            IF s.left < 0 \/ sb \in finished \/ ftab[sb + 1] - ftab[sb] < 2 THEN s
            ELSE MainQSort3(s, << << ftab[sb], ftab[sb + 1] - 1, 2 >> >>, ctx)
    IN  FoldLeft(sort, [p |-> ptr, left |-> budget],
                 [jj \in 1 .. A - 1 |-> A * ss + (IF jj <= ss THEN jj - 1 ELSE jj)])

\* Step 2: the order of the small buckets [t, ss] follows from that of [ss, *].
RECURSIVE CopyUp(_, _, _), CopyDown(_, _, _)
Copied(p, at, jj, by) ==
    LET k == Rotate(p[jj] - 1 + nblock)
        c == block[k]
    IN  IF c \in bigDone THEN [p |-> p, at |-> at]
        ELSE [p |-> [p EXCEPT ![at[c]] = k], at |-> [at EXCEPT ![c] = @ + by]]
CopyUp(s, ss, jj) ==
    IF jj >= s.at[ss] THEN s.p ELSE CopyUp(Copied(s.p, s.at, jj, 1), ss, jj + 1)
CopyDown(s, ss, jj) ==
    IF jj <= s.at[ss] THEN s.p ELSE CopyDown(Copied(s.p, s.at, jj, -1), ss, jj - 1)
Synthesize(p, ss) ==
    LET up == CopyUp([p |-> p, at |-> [c \in Bytes |-> ftab[A * c + ss]]],
                     ss, ftab[A * ss])
    IN  CopyDown([p |-> up, at |-> [c \in Bytes |-> ftab[A * c + ss + 1] - 1]],
                 ss, ftab[A * (ss + 1)] - 1)

\* Step 3: the rank of each rotation within its big bucket, cut to 16 bits, at
\* its position and at its repetition behind the end.
\* Mutant: ranks are not cut.
ShiftsNone(size, k) == k
RECURSIVE Shifts(_, _)
Shifts(size, k) == IF size \div 2^k > MaxQuadrant THEN Shifts(size, k + 1) ELSE k
UpdateQuadrants(p, ss) ==
    LET start == ftab[A * ss]
        at == [i \in {p[k] : k \in start .. start + BigFreq(ss) - 1} |->
                    CHOOSE k \in start .. start + BigFreq(ss) - 1 : p[k] = i]
        shifts == Shifts(BigFreq(ss), 0)
    IN  [i \in DOMAIN quadrant |->
            IF Rotate(i) \in DOMAIN at THEN (at[Rotate(i)] - start) \div 2^shifts
            ELSE quadrant[i]]

\* Mutant: when the budget is used, the order found so far is kept.
MainBigBucketStops(ss) ==
    /\ sorter = "main" /\ ss \in Bytes \ bigDone
    /\ \A b \in Bytes \ bigDone : BigFreq(ss) <= BigFreq(b)
    /\ \E sorted \in {SortSmallBuckets(ss)} :
          /\ budget' = sorted.left
          /\ ptr' = IF sorted.left < 0 THEN sorted.p ELSE Synthesize(sorted.p, ss)
          /\ finished' = finished \cup {A * ss + jj : jj \in Bytes}
                                  \cup {A * jj + ss : jj \in Bytes}
          /\ bigDone' = bigDone \cup {ss}
          /\ quadrant' = UpdateQuadrants(ptr', ss)
          /\ sorter' = IF sorted.left < 0 \/ bigDone' = Bytes THEN "sorted" ELSE "main"
    /\ UNCHANGED << input, block, ftab, bh, H >>

\* One turn of the main loop: a smallest big bucket that is not done (the code's
\* running order is one of these orders).
MainBigBucket(ss) ==
    /\ sorter = "main" /\ ss \in Bytes \ bigDone
    /\ \A b \in Bytes \ bigDone : BigFreq(ss) <= BigFreq(b)
    /\ \E sorted \in {SortSmallBuckets(ss)} :
          /\ budget' = sorted.left
          /\ \/ /\ sorted.left < 0
                /\ FallbackStart
                /\ UNCHANGED << finished, bigDone, quadrant >>
             \/ /\ sorted.left >= 0
                /\ ptr' = Synthesize(sorted.p, ss)
                /\ finished' = finished \cup {A * ss + jj : jj \in Bytes}
                                        \cup {A * jj + ss : jj \in Bytes}
                /\ bigDone' = bigDone \cup {ss}
                /\ quadrant' = IF bigDone' = Bytes THEN quadrant
                               ELSE UpdateQuadrants(ptr', ss)
                /\ sorter' = IF bigDone' = Bytes THEN "sorted" ELSE "main"
                /\ UNCHANGED << bh, H >>
    /\ UNCHANGED << input, block, ftab >>

-----------------------------------------------------------------------------
SortInit(inputs) ==
    /\ SortedInit(inputs)
    /\ bh = {} /\ H = 0 /\ ftab = << >>
    /\ finished = {} /\ bigDone = {} /\ quadrant = << >> /\ budget = 0

\* The choice between the sorts; each third of the work factor buys as many comparisons
\* as there are rotations.
StartSort ==
    /\ sorter = "start"
    /\ \/ /\ nblock < MainFrom
          /\ FallbackStart
          /\ UNCHANGED << ftab, finished, bigDone, quadrant, budget >>
       \/ /\ nblock >= MainFrom
          /\ \E wf \in WorkFactors :
                budget' = nblock * ((Min({Max({wf, 1}), 100}) - 1) \div 3)
          /\ MainStart
          /\ UNCHANGED << bh, H, finished, bigDone >>
    /\ UNCHANGED << input, block >>

SortStep == \/ StartSort
            \/ FallbackPhase
            \/ FallbackReturns
            \/ \E ss \in Bytes : MainBigBucket(ss)

-----------------------------------------------------------------------------
(* What is required of the sort.                                           *)

Rotation(i, len) == RotationOf(input, nblock, i, len)

Inputs == Blocks({0, A - 1}, MaxTwo)
          \cup UNION {{[b EXCEPT ![i] = 1] : i \in DOMAIN b}
                      : b \in Blocks({0, A - 1}, MaxThree)}
          \cup Blocks(Bytes, MaxAll)

SortTypeOK ==
    /\ input \in Inputs /\ block \in [Positions -> Bytes]
    /\ sorter \in {"start", "fallback", "main", "sorted"}
    /\ sorter # "start" => ptr \in [Positions -> Positions]
    /\ bh \subseteq 0 .. nblock /\ H \in 0 .. 2 * nblock
    /\ finished \subseteq 0 .. A * A - 1 /\ bigDone \subseteq Bytes
    /\ sorter = "main" => /\ ftab \in [0 .. A * A -> 0 .. nblock]
                          /\ quadrant \in [DOMAIN Ext -> 0 .. MaxQuadrant]
                          /\ budget \in Nat

\* Before each phase of the fallback sort the rotations are in the order of their
\* first H bytes, and a bucket holds exactly those that agree in them.  During the
\* main sort every small bucket marked as finished is in its final order.
SortedSoFar ==
    /\ sorter \in {"fallback", "main"} => {ptr[i] : i \in Positions} = Positions
    /\ sorter = "fallback" =>
          \A i \in 1 .. nblock - 1 :
             LET r1 == Rotation(ptr[i - 1], IF H > nblock THEN nblock ELSE H)
                 r2 == Rotation(ptr[i], IF H > nblock THEN nblock ELSE H)
             IN  NotAfter(r1, r2) /\ (H <= nblock => (i \in bh <=> r1 # r2))
    /\ sorter = "main" =>
          \A sb \in finished : \A i \in ftab[sb] + 1 .. ftab[sb + 1] - 1 :
             NotAfter(Rotation(ptr[i - 1], nblock), Rotation(ptr[i], nblock))

\* The sort as the rest of the encoder sees it, which looks at nothing before it is done.
Promised == INSTANCE SortedBlock WITH
    sorter <- IF sorter = "sorted" THEN "sorted" ELSE "start",
    ptr <- IF sorter = "sorted" THEN ptr ELSE << >>,
    block <- IF sorter = "sorted" THEN block ELSE input

\* Whichever sort did it, also after the main sort gave up half way: when it is done
\* every rotation is listed once, in order, the block is what it was, and nothing is
\* changed any more (blocksort.go:35-58).
SortsAsPromised ==
    Promised!SortedInit(Inputs) /\ [][Promised!Sort]_(Promised!sortedVars)
=============================================================================
