-------------------------- MODULE BlockRoundTrip_proofs --------------------------
(***************************************************************************)
(* Proofs about BlockReader: whatever the bits are, readBlock stays within *)
(* its arrays; a code that stands in the stream is read as its symbol; the *)
(* symbols made of a block, and its selectors, are read as what they stand *)
(* for; and the last step of readBlock undoes the block sort.              *)
(***************************************************************************)
EXTENDS BlockRoundTrip, SequenceFolds

-----------------------------------------------------------------------------
(* Bits and numbers of bits.                                               *)

BitsArrived == arrived \in Seq({0, 1})

LEMMA ReadBitType ==
    ASSUME BitsArrived, NEW p \in Nat \ {0}
    PROVE  ReadBit(p) \in {0, 1}
BY DEF BitsArrived, ReadBit

\* The numbers the first bits make, one more with each.
ReadBitsIs(p, width, f) ==
    f = [k \in 0 .. width |-> IF k = 0 THEN 0 ELSE 2 * f[k - 1] + ReadBit(p + k - 1)]

LEMMA ReadBitsValue ==
    ASSUME BitsArrived, NEW p \in Nat \ {0}, NEW width \in Nat
    PROVE  \E f : ReadBitsIs(p, width, f) /\ ReadBits(p, width) = f[width]
<1> DEFINE F == [s \in Nat \X (1 .. width) |-> 2 * s[1] + ReadBit(p + s[2] - 1)]
<1>1. ASSUME NEW v \in Nat, NEW k \in 1 .. width
      PROVE  2 * v + ReadBit(p + k - 1) \in Nat
  <2>1. p + k - 1 \in Nat \ {0}
    OBVIOUS
  <2>2. ReadBit(p + k - 1) \in {0, 1}
    BY <2>1, ReadBitType
  <2> QED  BY <2>2
<1>2. F \in [Nat \X (1 .. width) -> Nat]
  <2>1. \A s \in Nat \X (1 .. width) : 2 * s[1] + ReadBit(p + s[2] - 1) \in Nat
    BY <1>1
  <2> QED  BY <2>1
<1>3. \E f : ReadBitsIs(p, width, f)
  <2>1. 0 \in Nat
    OBVIOUS
  <2> HIDE DEF F
  <2>8. StepsTaken(width, Nat, 0, F)
    BY <1>2, <2>1, RecursionExists
  <2>2. PICK g \in [0 .. width -> Nat] :
             g[0] = 0 /\ \A k \in 1 .. width : g[k] = F[<< g[k - 1], k >>]
    BY <2>8 DEF StepsTaken
  <2>3. ASSUME NEW k \in 1 .. width
        PROVE  g[k] = 2 * g[k - 1] + ReadBit(p + k - 1)
    <3>1. k - 1 \in 0 .. width
      OBVIOUS
    <3>2. g[k - 1] \in Nat
      BY <3>1
    <3>3. << g[k - 1], k >> \in Nat \X (1 .. width)
      BY <3>2
    <3> QED  BY <2>2, <3>3 DEF F
  <2>4. g = [k \in 0 .. width |-> g[k]]
    OBVIOUS
  <2>5. \A k \in 0 .. width : k = 0 \/ k \in 1 .. width
    OBVIOUS
  <2>6. \A k \in 0 .. width :
            g[k] = IF k = 0 THEN 0 ELSE 2 * g[k - 1] + ReadBit(p + k - 1)
    BY <2>2, <2>3, <2>5
  <2>7. ReadBitsIs(p, width, g)
    BY <2>4, <2>6 DEF ReadBitsIs
  <2> QED  BY <2>7
<1> DEFINE v == CHOOSE f : ReadBitsIs(p, width, f)
<1>4. ReadBitsIs(p, width, v)
  BY <1>3
<1>5. ReadBits(p, width) = v[width]
  BY DEF ReadBits, ReadBitsIs
<1> HIDE DEF v
<1> QED  BY <1>4, <1>5

LEMMA ReadBitsType ==
    ASSUME BitsArrived, NEW p \in Nat \ {0}, NEW width \in Nat
    PROVE  ReadBits(p, width) \in Nat
<1>1. ASSUME NEW v \in Nat, NEW k \in 1 .. width
      PROVE  2 * v + ReadBit(p + k - 1) \in Nat
  <2>1. p + k - 1 \in Nat \ {0}
    OBVIOUS
  <2>2. ReadBit(p + k - 1) \in {0, 1}
    BY <2>1, ReadBitType
  <2> QED  BY <2>2
<1>4. PICK v : ReadBitsIs(p, width, v) /\ ReadBits(p, width) = v[width]
  BY ReadBitsValue
<1>5. v[0] = 0 /\ \A k \in 1 .. width : v[k] = 2 * v[k - 1] + ReadBit(p + k - 1)
  BY <1>4 DEF ReadBitsIs
<1> DEFINE St == [k \in 0 .. width |-> Nat]
<1>6. \A k \in 0 .. width : v[k] \in St[k]
  <2>1. v[0] \in St[0]
    BY <1>5
  <2>2. ASSUME NEW k \in 1 .. width, v[k - 1] \in St[k - 1] PROVE v[k] \in St[k]
    <3>1. k - 1 \in 0 .. width /\ k \in 0 .. width
      OBVIOUS
    <3>2. v[k - 1] \in Nat
      BY <2>2, <3>1
    <3>3. v[k] \in Nat
      BY <1>1, <1>5, <3>2
    <3> QED  BY <3>1, <3>3
  <2> HIDE DEF St
  <2> QED  BY <2>1, <2>2, RecursionInvariant
<1> QED  BY <1>4, <1>6

\* The next bit read is appended to the number.
LEMMA ReadBitsNext ==
    ASSUME BitsArrived, NEW p \in Nat \ {0}, NEW width \in Nat
    PROVE  ReadBits(p, width + 1) = 2 * ReadBits(p, width) + ReadBit(p + width)
<1>1. PICK f : ReadBitsIs(p, width, f) /\ ReadBits(p, width) = f[width]
  BY ReadBitsValue
<1>2. PICK g : ReadBitsIs(p, width + 1, g) /\ ReadBits(p, width + 1) = g[width + 1]
  <2>1. width + 1 \in Nat
    OBVIOUS
  <2> QED  BY <2>1, ReadBitsValue
<1>3. f[0] = 0 /\ \A k \in 1 .. width : f[k] = 2 * f[k - 1] + ReadBit(p + k - 1)
  BY <1>1 DEF ReadBitsIs
<1>4. g[0] = 0 /\ \A k \in 1 .. width + 1 : g[k] = 2 * g[k - 1] + ReadBit(p + k - 1)
  BY <1>2 DEF ReadBitsIs
<1>5. \A k \in 0 .. width : f[k] = g[k]
  <2>1. f[0] = g[0]
    BY <1>3, <1>4
  <2>2. \A k \in 1 .. width : f[k - 1] = g[k - 1] => f[k] = g[k]
    BY <1>3, <1>4
  <2>3. StepAlike(width, f, g)
    BY <2>1, <2>2 DEF StepAlike
  <2> QED  BY <2>3, RecursionSame
<1>6. /\ width + 1 \in 1 .. width + 1 /\ (width + 1) - 1 = width
      /\ p + (width + 1) - 1 = p + width /\ width \in 0 .. width
  OBVIOUS
<1>7. g[width + 1] = 2 * g[width] + ReadBit(p + width)
  BY <1>4, <1>6
<1> QED  BY <1>1, <1>2, <1>5, <1>6, <1>7

-----------------------------------------------------------------------------
(* Selectors.                                                              *)

\* Where the reader of selectors can stand, bound being the number of tables.
UnaryStates(bound) ==
    {s \in [p : Nat \ {0}, j : 0 .. bound, bad : BOOLEAN] : s.bad \/ s.j < bound}

LEMMA UnaryInStates ==
    ASSUME BitsArrived, NEW p \in Nat \ {0}, NEW bound \in Nat \ {0}
    PROVE  ReadUnary(p, bound) \in UnaryStates(bound)
<1> DEFINE zeros == {j \in 0 .. bound - 1 : ReadBit(p + j) = 0}
<1>1. CASE zeros = {}
  <2>1. ReadUnary(p, bound) = [p |-> p + bound, j |-> bound, bad |-> TRUE]
    BY <1>1 DEF ReadUnary
  <2>2. p + bound \in Nat \ {0} /\ bound \in 0 .. bound
    OBVIOUS
  <2> QED  BY <2>1, <2>2 DEF UnaryStates
<1>2. CASE zeros # {}
  <2>1. zeros \in SUBSET Nat /\ zeros \subseteq 0 .. bound - 1
    OBVIOUS
  <2>2. Min(zeros) \in 0 .. bound - 1
    <3> HIDE DEF zeros
    <3> QED  BY <1>2, <2>1, MinIsLeast
  <2>3. ReadUnary(p, bound) = [p |-> p + Min(zeros) + 1, j |-> Min(zeros), bad |-> FALSE]
    BY <1>2 DEF ReadUnary
  <2> HIDE DEF zeros
  <2> QED  BY <2>2, <2>3 DEF UnaryStates
<1> QED  BY <1>1, <1>2

LEMMA MinOfTwo ==
    ASSUME NEW a \in Nat, NEW b \in Nat
    PROVE  Min({a, b}) \in {a, b} /\ Min({a, b}) <= a /\ Min({a, b}) <= b
<1>1. {a, b} \in SUBSET Nat /\ {a, b} # {}
  OBVIOUS
<1>2. Min({a, b}) \in {a, b} /\ \A y \in {a, b} : Min({a, b}) <= y
  BY <1>1, MinIsLeast
<1> QED  BY <1>2

\* Every position read is that of a table, unless one was bad.
LEMMA ReadSelectorsType ==
    ASSUME BitsArrived, FormatAssumption,
           NEW p \in Nat \ {0}, NEW count \in Nat, NEW bound \in Nat \ {0}
    PROVE  LET got == ReadSelectors(p, count, bound)
           IN  /\ got.p \in Nat \ {0}
               /\ ~got.bad => /\ got.selectorMtf \in Seq(0 .. bound - 1)
                              /\ Len(got.selectorMtf) = Min({count, MaxSelectors})
<1> DEFINE St == UnaryStates(bound)
           Next1(s) == IF s.bad THEN s ELSE ReadUnary(s.p, bound)
           start == [p |-> p, j |-> 0, bad |-> FALSE]
           Read(f) == f = [k \in 0 .. count |->
                              IF k = 0 THEN start
                              ELSE LET last == f[k - 1]
                                   IN  IF last.bad THEN last ELSE ReadUnary(last.p, bound)]
           F == [x \in St \X (1 .. count) |-> Next1(x[1])]
<1>1. ASSUME NEW s \in St PROVE Next1(s) \in St
  <2>1. s.p \in Nat \ {0}
    BY DEF UnaryStates
  <2> QED  BY <2>1, UnaryInStates
<1>2. start \in St
  BY DEF UnaryStates
<1>3. \E f : Read(f)
  <2>1. F \in [St \X (1 .. count) -> St]
    BY <1>1
  <2>2. StepsTaken(count, St, start, F)
    <3> HIDE DEF F, St, start
    <3> QED  BY <1>2, <2>1, RecursionExists
  <2>3. PICK g \in [0 .. count -> St] :
             g[0] = start /\ \A k \in 1 .. count : g[k] = F[<< g[k - 1], k >>]
    BY <2>2 DEF StepsTaken
  <2>4. ASSUME NEW k \in 1 .. count PROVE g[k] = Next1(g[k - 1])
    <3>1. k - 1 \in 0 .. count
      OBVIOUS
    <3>2. << g[k - 1], k >> \in St \X (1 .. count)
      BY <3>1
    <3> QED  BY <2>3, <3>2
  <2>5. \A k \in 0 .. count : k = 0 \/ k \in 1 .. count
    OBVIOUS
  <2>6. \A k \in 0 .. count : g[k] = IF k = 0 THEN start ELSE Next1(g[k - 1])
    BY <2>3, <2>4, <2>5
  <2>7. g = [k \in 0 .. count |-> g[k]]
    OBVIOUS
  <2>8. g = [k \in 0 .. count |-> IF k = 0 THEN start ELSE Next1(g[k - 1])]
    BY <2>6, <2>7
  <2> QED  BY <2>8
<1> DEFINE read == CHOOSE f : Read(f)
<1>4. Read(read)
  BY <1>3
<1>5. ReadSelectors(p, count, bound)
      = [p |-> read[count].p, bad |-> read[count].bad,
         selectorMtf |-> [k \in 1 .. Min({count, MaxSelectors}) |-> read[k].j]]
  BY DEF ReadSelectors
<1> HIDE DEF read
<1>6. read[0] = start /\ \A k \in 1 .. count : read[k] = Next1(read[k - 1])
  BY <1>4
<1>7. \A k \in 0 .. count : read[k] \in St
  <2> DEFINE Sts == [k \in 0 .. count |-> St]
  <2>1. read[0] \in Sts[0]
    BY <1>2, <1>6
  <2>2. ASSUME NEW k \in 1 .. count, read[k - 1] \in Sts[k - 1] PROVE read[k] \in Sts[k]
    <3>1. k - 1 \in 0 .. count /\ k \in 0 .. count
      OBVIOUS
    <3> QED  BY <1>1, <1>6, <2>2, <3>1
  <2>3. \A k \in 0 .. count : read[k] \in Sts[k]
    <3> HIDE DEF Sts
    <3> QED  BY <2>1, <2>2, RecursionInvariant
  <2> QED  BY <2>3
<1>8. \A k \in 0 .. count : read[k].bad => read[count].bad
  <2> DEFINE Sts == [k \in 0 .. count |->
                       {s \in St : (\E i \in 0 .. k : read[i].bad) => s.bad}]
  <2>1. read[0] \in Sts[0]
    BY <1>7
  <2>2. ASSUME NEW k \in 1 .. count, read[k - 1] \in Sts[k - 1] PROVE read[k] \in Sts[k]
    <3>1. k - 1 \in 0 .. count /\ k \in 0 .. count
      OBVIOUS
    <3>2. (\E i \in 0 .. k - 1 : read[i].bad) => read[k - 1].bad
      BY <2>2, <3>1
    <3>3. \A i \in 0 .. k : i = k \/ i \in 0 .. k - 1
      OBVIOUS
    <3>4. read[k - 1].bad => read[k] = read[k - 1]
      BY <1>6
    <3>5. (\E i \in 0 .. k : read[i].bad) => read[k].bad
      BY <3>2, <3>3, <3>4
    <3> QED  BY <1>7, <3>1, <3>5
  <2>3. \A k \in 0 .. count : read[k] \in Sts[k]
    <3> HIDE DEF Sts
    <3> QED  BY <2>1, <2>2, RecursionInvariant
  <2>4. count \in 0 .. count
    OBVIOUS
  <2> QED  BY <2>3, <2>4
<1>9. Min({count, MaxSelectors}) \in Nat /\ Min({count, MaxSelectors}) <= count
  BY MinOfTwo DEF FormatAssumption
<1> DEFINE m == Min({count, MaxSelectors})
           mtf == [k \in 1 .. m |-> read[k].j]
<1>10. ASSUME ~read[count].bad
       PROVE  mtf \in Seq(0 .. bound - 1) /\ Len(mtf) = m
  <2>1. ASSUME NEW k \in 1 .. m PROVE read[k].j \in 0 .. bound - 1
    <3>1. k \in 0 .. count
      BY <1>9
    <3>2. read[k] \in St /\ ~read[k].bad
      BY <1>7, <1>8, <1>10, <3>1
    <3> QED  BY <3>2 DEF UnaryStates
  <2>2. mtf \in [1 .. m -> 0 .. bound - 1]
    BY <2>1
  <2>3. m \in Nat
    BY <1>9
  <2> HIDE DEF mtf, m
  <2>4. mtf \in Seq(0 .. bound - 1)
    BY <2>2, <2>3
  <2>5. Len(mtf) = m
    BY <2>2, <2>3, <2>4
  <2> QED  BY <2>4, <2>5
<1>11. read[count].p \in Nat \ {0}
  <2>1. count \in 0 .. count
    OBVIOUS
  <2> QED  BY <1>7, <2>1 DEF UnaryStates
<1>12. /\ ReadSelectors(p, count, bound).p = read[count].p
       /\ ReadSelectors(p, count, bound).bad = read[count].bad
       /\ ReadSelectors(p, count, bound).selectorMtf = mtf
  BY <1>5
<1> HIDE DEF mtf
<1> QED  BY <1>10, <1>11, <1>12

-----------------------------------------------------------------------------
(* The move-to-front lists.                                                *)

\* Moving an item to the front shifts the items before it by one.
LEMMA MoveToFrontItems ==
    ASSUME NEW V, NEW l \in Seq(V), NEW q \in 0 .. Len(l) - 1
    PROVE  /\ MoveToFront(l, q) \in Seq(V)
           /\ Len(MoveToFront(l, q)) = Len(l)
           /\ MoveToFront(l, q)[1] = l[q + 1]
           /\ \A i \in 1 .. q : MoveToFront(l, q)[i + 1] = l[i]
           /\ \A i \in q + 2 .. Len(l) : MoveToFront(l, q)[i] = l[i]
<1> DEFINE before == SubSeq(l, 1, q)
           behind == SubSeq(l, q + 2, Len(l))
<1>0. Len(l) \in Nat
  OBVIOUS
<1>1. before \in Seq(V) /\ Len(before) = q /\ \A i \in 1 .. q : before[i] = l[i]
  <2>1. Len(l) \in Nat /\ 1 \in 1 .. Len(l) + 1 /\ q \in 1 - 1 .. Len(l)
    OBVIOUS
  <2>2. \A i \in 1 .. q : i \in 1 .. q - 1 + 1 /\ 1 + i - 1 = i
    OBVIOUS
  <2>3. /\ before \in Seq(V) /\ Len(before) = q - 1 + 1
        /\ \A i \in 1 .. q - 1 + 1 : before[i] = l[1 + i - 1]
    BY <2>1, SubSeqProperties
  <2> QED  BY <2>2, <2>3
<1>2. /\ behind \in Seq(V) /\ Len(behind) = Len(l) - q - 1
      /\ \A i \in q + 2 .. Len(l) : behind[i - q - 1] = l[i]
  <2>1. Len(l) \in Nat /\ q + 2 \in 1 .. Len(l) + 1 /\ Len(l) \in q + 2 - 1 .. Len(l)
    OBVIOUS
  <2>2. /\ behind \in Seq(V) /\ Len(behind) = Len(l) - (q + 2) + 1
        /\ \A i \in 1 .. Len(l) - (q + 2) + 1 : behind[i] = l[q + 2 + i - 1]
    BY <2>1, SubSeqProperties
  <2>3. \A i \in q + 2 .. Len(l) : /\ i - q - 1 \in 1 .. Len(l) - (q + 2) + 1
                                   /\ q + 2 + (i - q - 1) - 1 = i
    BY <2>1
  <2> HIDE DEF behind
  <2>4. \A i \in q + 2 .. Len(l) : behind[i - q - 1] = l[i]
    <3> SUFFICES ASSUME NEW i \in q + 2 .. Len(l) PROVE behind[i - q - 1] = l[i]
      OBVIOUS
    <3> DEFINE d == i - q - 1
    <3>1. d \in 1 .. Len(l) - (q + 2) + 1 /\ q + 2 + d - 1 = i
      BY <2>3
    <3> HIDE DEF d
    <3>2. behind[d] = l[i]
      BY <2>2, <3>1
    <3> QED  BY <3>2 DEF d
  <2> QED  BY <2>1, <2>2, <2>4
<1>3. << l[q + 1] >> \in Seq(V) /\ Len(<< l[q + 1] >>) = 1
  <2>1. q + 1 \in 1 .. Len(l)
    OBVIOUS
  <2>2. l[q + 1] \in V
    BY <2>1
  <2> QED  BY <2>2
<1>4. MoveToFront(l, q) = << l[q + 1] >> \o (before \o behind)
  <2>1. (q + 1) - 1 = q /\ (q + 1) + 1 = q + 2
    OBVIOUS
  <2> QED  BY <2>1 DEF MoveToFront, RemoveAt
<1> HIDE DEF before, behind
<1> DEFINE front == << l[q + 1] >>
           rest == before \o behind
<1>5. /\ rest \in Seq(V) /\ Len(rest) = Len(l) - 1
      /\ \A i \in 1 .. q : rest[i] = l[i]
      /\ \A i \in q + 2 .. Len(l) : rest[i - 1] = l[i]
  <2>1. before \in Seq(V) /\ behind \in Seq(V)
    BY <1>1, <1>2
  <2>2. /\ rest \in Seq(V) /\ Len(rest) = Len(before) + Len(behind)
        /\ \A i \in 1 .. Len(before) : rest[i] = before[i]
        /\ \A i \in 1 .. Len(behind) : rest[Len(before) + i] = behind[i]
    BY <2>1, ConcatProperties
  <2> HIDE DEF rest
  <2>3. ASSUME NEW i \in q + 2 .. Len(l) PROVE rest[i - 1] = l[i]
    <3>1. i - q - 1 \in 1 .. Len(behind) /\ q + (i - q - 1) = i - 1
      BY <1>0, <1>2
    <3>2. rest[q + (i - q - 1)] = behind[i - q - 1]
      BY <1>1, <2>2, <3>1
    <3> QED  BY <1>2, <3>1, <3>2
  <2> QED  BY <1>0, <1>1, <1>2, <2>2, <2>3
<1>6. front[1] = l[q + 1]
  OBVIOUS
<1>7. front \in Seq(V) /\ rest \in Seq(V) /\ Len(front) = 1
  BY <1>3, <1>5
<1> HIDE DEF front, rest
<1>8. /\ front \o rest \in Seq(V) /\ Len(front \o rest) = Len(front) + Len(rest)
      /\ \A i \in 1 .. Len(front) : (front \o rest)[i] = front[i]
      /\ \A i \in 1 .. Len(rest) : (front \o rest)[Len(front) + i] = rest[i]
  <2>1. front \in Seq(V) /\ rest \in Seq(V)
    BY <1>7
  <2>2. front \o rest \in Seq(V) /\ Len(front \o rest) = Len(front) + Len(rest)
    BY <2>1, ConcatProperties
  <2>3. \A i \in 1 .. Len(front) : (front \o rest)[i] = front[i]
    BY <2>1, ConcatProperties
  <2>4. \A i \in 1 .. Len(rest) : (front \o rest)[Len(front) + i] = rest[i]
    BY <2>1, ConcatProperties
  <2> QED  BY <2>2, <2>3, <2>4
<1>9. MoveToFront(l, q) = front \o rest
  BY <1>4 DEF front, rest
<1>10. ASSUME NEW i \in 1 .. q PROVE (front \o rest)[i + 1] = l[i]
  <2>1. i \in 1 .. Len(rest) /\ 1 + i = i + 1
    BY <1>0, <1>5
  <2> QED  BY <1>5, <1>7, <1>8, <2>1
<1>11. ASSUME NEW i \in q + 2 .. Len(l) PROVE (front \o rest)[i] = l[i]
  <2>1. i - 1 \in 1 .. Len(rest) /\ 1 + (i - 1) = i
    BY <1>0, <1>5
  <2>2. (front \o rest)[1 + (i - 1)] = rest[i - 1]
    BY <1>7, <1>8, <2>1
  <2> QED  BY <1>5, <2>1, <2>2
<1>12. 1 \in 1 .. Len(front) /\ 1 + (Len(l) - 1) = Len(l)
  BY <1>0, <1>7
<1> QED  BY <1>5, <1>6, <1>7, <1>8, <1>9, <1>10, <1>11, <1>12

\* A list of the numbers below size.
Lists(size) == {l \in Seq(0 .. size - 1) : Len(l) = size}

LEMMA InitialListType ==
    ASSUME NEW size \in Nat
    PROVE  InitialList(size) \in Lists(size)
<1>1. InitialList(size) \in [1 .. size -> 0 .. size - 1]
  BY DEF InitialList
<1>2. InitialList(size) \in Seq(0 .. size - 1) /\ Len(InitialList(size)) = size
  BY <1>1
<1> QED  BY <1>2 DEF Lists

\* Every number below size is in the list.
Complete(size, l) == \A x \in 0 .. size - 1 : \E i \in 1 .. size : l[i] = x

LEMMA MoveToFrontComplete ==
    ASSUME NEW size \in Nat, NEW l \in Lists(size), Complete(size, l), NEW q \in 0 .. size - 1
    PROVE  Complete(size, MoveToFront(l, q))
<1> DEFINE m == MoveToFront(l, q)
<1>1. l \in Seq(0 .. size - 1) /\ Len(l) = size
  BY DEF Lists
<1>2. /\ m[1] = l[q + 1]
      /\ \A i \in 1 .. q : m[i + 1] = l[i]
      /\ \A i \in q + 2 .. size : m[i] = l[i]
  BY <1>1, MoveToFrontItems
<1> HIDE DEF m
<1> SUFFICES ASSUME NEW x \in 0 .. size - 1 PROVE \E i \in 1 .. size : m[i] = x
  BY DEF Complete, m
<1>3. PICK i \in 1 .. size : l[i] = x
  BY DEF Complete
<1>4. CASE i \in 1 .. q
  <2>1. i + 1 \in 1 .. size
    BY <1>4
  <2> QED  BY <1>2, <1>3, <1>4, <2>1
<1>5. CASE i = q + 1
  <2>1. 1 \in 1 .. size
    OBVIOUS
  <2> QED  BY <1>2, <1>3, <1>5, <2>1
<1>6. CASE i \in q + 2 .. size
  BY <1>2, <1>3, <1>6
<1> QED  BY <1>4, <1>5, <1>6

\* A number in the list is found.
LEMMA PositionFound ==
    ASSUME NEW size \in Nat, NEW l \in Lists(size), Complete(size, l), NEW x \in 0 .. size - 1
    PROVE  PositionOf(l, x) \in 0 .. size - 1 /\ l[PositionOf(l, x) + 1] = x
<1> DEFINE at == {i \in 1 .. Len(l) : l[i] = x}
<1>1. Len(l) = size
  BY DEF Lists
<1>2. at # {} /\ at \in SUBSET Nat /\ at \in SUBSET (0 .. size)
  <2>1. PICK i \in 1 .. size : l[i] = x
    BY DEF Complete
  <2>2. i \in at
    BY <1>1, <2>1
  <2>3. \A j \in at : j \in 1 .. size
    BY <1>1
  <2>4. \A j \in 1 .. size : j \in Nat /\ j \in 0 .. size
    OBVIOUS
  <2> HIDE DEF at
  <2> QED  BY <2>2, <2>3, <2>4
<1>3. PositionOf(l, x) = (IF at # {} THEN Min(at) ELSE 0) - 1
  BY DEF PositionOf, SelectInSeq
<1>4. PositionOf(l, x) = Min(at) - 1
  BY <1>2, <1>3
<1>5. Min(at) \in at
  <2> HIDE DEF at
  <2> QED  BY <1>2, MinIsLeast
<1>6. Min(at) \in 1 .. size /\ l[Min(at)] = x
  BY <1>1, <1>5
<1> HIDE DEF at
<1> QED  BY <1>4, <1>6

\* The lists that hold every number below size.
Permuted(size) == {l \in Lists(size) : Complete(size, l)}

LEMMA InitialListPermuted ==
    ASSUME NEW size \in Nat
    PROVE  InitialList(size) \in Permuted(size)
<1>1. InitialList(size) \in Lists(size)
  BY InitialListType
<1>2. ASSUME NEW x \in 0 .. size - 1 PROVE \E i \in 1 .. size : InitialList(size)[i] = x
  <2>1. x + 1 \in 1 .. size /\ (x + 1) - 1 = x
    OBVIOUS
  <2>2. InitialList(size)[x + 1] = (x + 1) - 1
    BY <2>1 DEF InitialList
  <2> QED  BY <2>1, <2>2
<1> QED  BY <1>1, <1>2 DEF Permuted, Complete

LEMMA MoveToFrontPermuted ==
    ASSUME NEW size \in Nat, NEW l \in Permuted(size), NEW q \in 0 .. size - 1
    PROVE  MoveToFront(l, q) \in Permuted(size)
<1>1. l \in Lists(size) /\ Complete(size, l)
  BY DEF Permuted
<1>2. l \in Seq(0 .. size - 1) /\ Len(l) = size
  BY <1>1 DEF Lists
<1>3. MoveToFront(l, q) \in Seq(0 .. size - 1) /\ Len(MoveToFront(l, q)) = size
  BY <1>2, MoveToFrontItems
<1>4. Complete(size, MoveToFront(l, q))
  BY <1>1, MoveToFrontComplete
<1> QED  BY <1>3, <1>4 DEF Permuted, Lists

\* The lists a decoder goes through, and those an encoder goes through.
DecoderLists(n, size, positions, f) ==
    f = [k \in 0 .. n |-> IF k = 0 THEN InitialList(size)
                          ELSE MoveToFront(f[k - 1], positions[k])]
EncoderLists(n, size, items, f) ==
    f = [k \in 0 .. n |-> IF k = 0 THEN InitialList(size)
                          ELSE MoveToFront(f[k - 1], PositionOf(f[k - 1], items[k]))]

LEMMA DecoderListsExist ==
    ASSUME NEW size \in Nat \ {0}, NEW positions \in Seq(0 .. size - 1)
    PROVE  \E f \in [0 .. Len(positions) -> Permuted(size)] :
               DecoderLists(Len(positions), size, positions, f)
<1> DEFINE n == Len(positions)
           V == 0 .. size - 1
           St == Permuted(size)
           start == InitialList(size)
           F == [x \in St \X (1 .. n) |-> MoveToFront(x[1], positions[x[2]])]
<1>1. n \in Nat /\ \A k \in 1 .. n : positions[k] \in V
  OBVIOUS
<1>2. start \in St
  BY InitialListPermuted
<1>3. ASSUME NEW l \in St, NEW k \in 1 .. n
      PROVE  MoveToFront(l, positions[k]) \in St
  BY <1>1, MoveToFrontPermuted
<1>4. F \in [St \X (1 .. n) -> St]
  <2> HIDE DEF St
  <2> QED  BY <1>3
<1>5. StepsTaken(n, St, start, F)
  <2> HIDE DEF F, St, start, n
  <2> QED  BY <1>1, <1>2, <1>4, RecursionExists
<1>6. PICK g \in [0 .. n -> St] :
           g[0] = start /\ \A k \in 1 .. n : g[k] = F[<< g[k - 1], k >>]
  BY <1>5 DEF StepsTaken
<1>7. ASSUME NEW k \in 1 .. n PROVE g[k] = MoveToFront(g[k - 1], positions[k])
  <2>1. k - 1 \in 0 .. n
    BY <1>1
  <2>2. << g[k - 1], k >> \in St \X (1 .. n)
    BY <2>1
  <2> QED  BY <1>6, <2>2
<1>8. \A k \in 0 .. n : k = 0 \/ k \in 1 .. n
  BY <1>1
<1>9. \A k \in 0 .. n : g[k] = IF k = 0 THEN InitialList(size)
                               ELSE MoveToFront(g[k - 1], positions[k])
  BY <1>6, <1>7, <1>8
<1>10. g = [k \in 0 .. n |-> g[k]]
  OBVIOUS
<1>11. DecoderLists(n, size, positions, g)
  BY <1>9, <1>10 DEF DecoderLists
<1> QED  BY <1>11

LEMMA EncoderListsExist ==
    ASSUME NEW size \in Nat \ {0}, NEW items \in Seq(0 .. size - 1)
    PROVE  \E f \in [0 .. Len(items) -> Permuted(size)] :
               EncoderLists(Len(items), size, items, f)
<1> DEFINE n == Len(items)
           V == 0 .. size - 1
           St == Permuted(size)
           start == InitialList(size)
           F == [x \in St \X (1 .. n) |->
                     MoveToFront(x[1], PositionOf(x[1], items[x[2]]))]
<1>1. n \in Nat /\ \A k \in 1 .. n : items[k] \in V
  OBVIOUS
<1>2. start \in St
  BY InitialListPermuted
<1>3. ASSUME NEW l \in St, NEW k \in 1 .. n
      PROVE  MoveToFront(l, PositionOf(l, items[k])) \in St
  <2>1. l \in Lists(size) /\ Complete(size, l)
    BY DEF Permuted
  <2>2. PositionOf(l, items[k]) \in V
    BY <1>1, <2>1, PositionFound
  <2> QED  BY <2>2, MoveToFrontPermuted
<1>4. F \in [St \X (1 .. n) -> St]
  <2> HIDE DEF St
  <2> QED  BY <1>3
<1>5. StepsTaken(n, St, start, F)
  <2> HIDE DEF F, St, start, n
  <2> QED  BY <1>1, <1>2, <1>4, RecursionExists
<1>6. PICK g \in [0 .. n -> St] :
           g[0] = start /\ \A k \in 1 .. n : g[k] = F[<< g[k - 1], k >>]
  BY <1>5 DEF StepsTaken
<1>7. ASSUME NEW k \in 1 .. n
      PROVE  g[k] = MoveToFront(g[k - 1], PositionOf(g[k - 1], items[k]))
  <2>1. k - 1 \in 0 .. n
    BY <1>1
  <2>2. << g[k - 1], k >> \in St \X (1 .. n)
    BY <2>1
  <2> QED  BY <1>6, <2>2
<1>8. \A k \in 0 .. n : k = 0 \/ k \in 1 .. n
  BY <1>1
<1>9. \A k \in 0 .. n :
          g[k] = IF k = 0 THEN InitialList(size)
                 ELSE MoveToFront(g[k - 1], PositionOf(g[k - 1], items[k]))
  BY <1>6, <1>7, <1>8
<1>10. g = [k \in 0 .. n |-> g[k]]
  OBVIOUS
<1>11. EncoderLists(n, size, items, g)
  BY <1>9, <1>10 DEF EncoderLists
<1> QED  BY <1>11

\* The lists themselves: a recursive function is one that satisfies its equation.
LEMMA DecoderSteps ==
    ASSUME NEW size \in Nat \ {0}, NEW positions \in Seq(0 .. size - 1)
    PROVE  \E d \in [0 .. Len(positions) -> Permuted(size)] :
               /\ d[0] = InitialList(size)
               /\ \A k \in 1 .. Len(positions) :
                      d[k] = MoveToFront(d[k - 1], positions[k])
               /\ MTFDecode(positions, size) = [k \in 1 .. Len(positions) |-> d[k][1]]
<1> DEFINE n == Len(positions)
           d == CHOOSE f : DecoderLists(n, size, positions, f)
<1>1. PICK g \in [0 .. n -> Permuted(size)] : DecoderLists(n, size, positions, g)
  BY DecoderListsExist
<1>2. DecoderLists(n, size, positions, d)
  BY <1>1
<1>3. MTFDecode(positions, size) = [k \in 1 .. n |-> d[k][1]]
  BY DEF MTFDecode, DecoderLists
<1> HIDE DEF d
<1>4. n \in Nat
  OBVIOUS
<1>5. /\ d[0] = InitialList(size)
      /\ \A k \in 1 .. n : d[k] = MoveToFront(d[k - 1], positions[k])
  BY <1>2, <1>4 DEF DecoderLists
<1>6. /\ g[0] = InitialList(size)
      /\ \A k \in 1 .. n : g[k] = MoveToFront(g[k - 1], positions[k])
  BY <1>1, <1>4 DEF DecoderLists
<1>7. \A k \in 0 .. n : d[k] = g[k]
  <2>1. StepAlike(n, d, g)
    BY <1>5, <1>6 DEF StepAlike
  <2> HIDE DEF n
  <2> QED  BY <1>4, <2>1, RecursionSame
<1>8. DOMAIN d = 0 .. n /\ d = [k \in 0 .. n |-> d[k]]
  BY <1>2 DEF DecoderLists
<1>9. d \in [0 .. n -> Permuted(size)]
  BY <1>7, <1>8
<1> QED  BY <1>3, <1>5, <1>9

LEMMA EncoderSteps ==
    ASSUME NEW size \in Nat \ {0}, NEW items \in Seq(0 .. size - 1)
    PROVE  \E e \in [0 .. Len(items) -> Permuted(size)] :
               /\ e[0] = InitialList(size)
               /\ \A k \in 1 .. Len(items) :
                      e[k] = MoveToFront(e[k - 1], PositionOf(e[k - 1], items[k]))
               /\ MTFEncode(items, size) =
                      [k \in 1 .. Len(items) |-> PositionOf(e[k - 1], items[k])]
<1> DEFINE n == Len(items)
           e == CHOOSE f : EncoderLists(n, size, items, f)
<1>1. PICK g \in [0 .. n -> Permuted(size)] : EncoderLists(n, size, items, g)
  BY EncoderListsExist
<1>2. EncoderLists(n, size, items, e)
  BY <1>1
<1>3. MTFEncode(items, size) = [k \in 1 .. n |-> PositionOf(e[k - 1], items[k])]
  BY DEF MTFEncode, EncoderLists
<1> HIDE DEF e
<1>4. n \in Nat
  OBVIOUS
<1>5. /\ e[0] = InitialList(size)
      /\ \A k \in 1 .. n : e[k] = MoveToFront(e[k - 1], PositionOf(e[k - 1], items[k]))
  BY <1>2, <1>4 DEF EncoderLists
<1>6. /\ g[0] = InitialList(size)
      /\ \A k \in 1 .. n : g[k] = MoveToFront(g[k - 1], PositionOf(g[k - 1], items[k]))
  BY <1>1, <1>4 DEF EncoderLists
<1>7. \A k \in 0 .. n : e[k] = g[k]
  <2>1. StepAlike(n, e, g)
    BY <1>5, <1>6 DEF StepAlike
  <2> HIDE DEF n
  <2> QED  BY <1>4, <2>1, RecursionSame
<1>8. DOMAIN e = 0 .. n /\ e = [k \in 0 .. n |-> e[k]]
  BY <1>2 DEF EncoderLists
<1>9. e \in [0 .. n -> Permuted(size)]
  BY <1>7, <1>8
<1> QED  BY <1>3, <1>5, <1>9

\* The numbers at positions below size are below size.
LEMMA MTFDecodeType ==
    ASSUME NEW size \in Nat \ {0}, NEW positions \in Seq(0 .. size - 1)
    PROVE  /\ MTFDecode(positions, size) \in Seq(0 .. size - 1)
           /\ Len(MTFDecode(positions, size)) = Len(positions)
<1> DEFINE n == Len(positions)
           V == 0 .. size - 1
<1>1. n \in Nat
  OBVIOUS
<1>2. PICK d \in [0 .. n -> Permuted(size)] :
           MTFDecode(positions, size) = [k \in 1 .. n |-> d[k][1]]
  BY DecoderSteps
<1>3. ASSUME NEW k \in 1 .. n PROVE d[k][1] \in V
  <2>1. d[k] \in Permuted(size)
    BY <1>1
  <2>2. d[k] \in Seq(V) /\ Len(d[k]) = size
    BY <2>1 DEF Permuted, Lists
  <2> QED  BY <2>2
<1> DEFINE out == [k \in 1 .. n |-> d[k][1]]
<1>4. out \in [1 .. n -> V]
  BY <1>3
<1>5. out \in Seq(V) /\ Len(out) = n
  <2> HIDE DEF out, n, V
  <2> QED  BY <1>1, <1>4
<1> QED  BY <1>2, <1>5

-----------------------------------------------------------------------------
(* Sorting by counting.                                                    *)

\* Numbers sorted by a key, and equal keys as they come: there is one at each place.
LEMMA PlaceByKey ==
    ASSUME NEW n \in Nat, NEW key \in [0 .. n - 1 -> Int], NEW k \in 0 .. n - 1
    PROVE  \E i \in 0 .. n - 1 :
               k = Cardinality({j \in 0 .. n - 1 : \/ key[j] < key[i]
                                                   \/ key[j] = key[i] /\ j < i})
<1> DEFINE S == 0 .. n - 1
           R == {x \in S \X S : \/ key[x[1]] < key[x[2]]
                                \/ key[x[1]] = key[x[2]] /\ x[1] < x[2]}
           before(i) == {j \in S : key[j] < key[i] \/ (key[j] = key[i] /\ j < i)}
<1>1. IsFiniteSet(S) /\ Cardinality(S) = n
  BY FS_Interval
<1>2. \A i \in S : key[i] \in Int /\ i \in Int
  OBVIOUS
<1>3. \A j, i \in S : << j, i >> \in R
                        <=> key[j] < key[i] \/ (key[j] = key[i] /\ j < i)
  OBVIOUS
<1> HIDE DEF R
<1>4. StrictlyOrders(R, S)
  BY <1>2, <1>3 DEF StrictlyOrders
<1>5. \A i \in S : before(i) = {j \in S : << j, i >> \in R}
  BY <1>3
<1>6. k \in 0 .. Cardinality(S) - 1
  BY <1>1
<1> HIDE DEF S
<1>7. PICK x \in S : k = Rank(R, S, x)
  BY <1>1, <1>4, <1>6, RankTaken
<1>8. k = Cardinality(before(x))
  BY <1>5, <1>7 DEF Rank
<1> QED  BY <1>7, <1>8 DEF S

\* The same for the members of a set of numbers.
LEMMA PlaceOfNumber ==
    ASSUME NEW S \in SUBSET Int, IsFiniteSet(S), NEW k \in 0 .. Cardinality(S) - 1
    PROVE  \E i \in S : k = Cardinality({j \in S : j < i})
<1> DEFINE R == {x \in S \X S : x[1] < x[2]}
<1>1. \A j, i \in S : << j, i >> \in R <=> j < i
  OBVIOUS
<1>2. \A i \in S : i \in Int
  OBVIOUS
<1> HIDE DEF R
<1>3. StrictlyOrders(R, S)
  BY <1>1, <1>2 DEF StrictlyOrders
<1>4. PICK x \in S : k = Rank(R, S, x)
  BY <1>3, RankTaken, ZenonT(60)
<1>5. {y \in S : << y, x >> \in R} = {j \in S : j < x}
  BY <1>1
<1> QED  BY <1>4, <1>5 DEF Rank

LEMMA AlphabetType ==
    ASSUME NEW used \in SUBSET Bytes, FormatAssumption
    PROVE  /\ IsFiniteSet(used) /\ Cardinality(used) \in 0 .. A
           /\ SeqToUnseq(used) \in [0 .. Cardinality(used) - 1 -> Bytes]
<1>1. IsFiniteSet(Bytes) /\ Cardinality(Bytes) = A
  <2>1. 0 \in Int /\ A - 1 \in Int /\ A >= 2
    BY DEF FormatAssumption
  <2>2. IsFiniteSet(0 .. A - 1)
        /\ Cardinality(0 .. A - 1) = IF 0 > A - 1 THEN 0 ELSE (A - 1) - 0 + 1
    BY <2>1, FS_Interval
  <2> QED  BY <2>1, <2>2 DEF Bytes
<1>2. IsFiniteSet(used) /\ Cardinality(used) <= A
  BY <1>1, FS_Subset
<1>3. Cardinality(used) \in Nat
  BY <1>2, FS_CardinalityType
<1>4. used \in SUBSET Int
  BY DEF Bytes
<1>5. ASSUME NEW k \in 0 .. Cardinality(used) - 1
      PROVE  (CHOOSE i \in used : k = Cardinality({j \in used : j < i})) \in Bytes
  <2>1. \E i \in used : k = Cardinality({j \in used : j < i})
    BY <1>2, <1>4, PlaceOfNumber
  <2> QED  BY <2>1
<1>6. SeqToUnseq(used) \in [0 .. Cardinality(used) - 1 -> Bytes]
  BY <1>5 DEF SeqToUnseq, InOrder
<1> QED  BY <1>2, <1>3, <1>6 DEF FormatAssumption

-----------------------------------------------------------------------------
(* Code lengths.                                                           *)

\* Where the reader of lengths can stand.
LengthStates ==
    {s \in [p : Nat \ {0}, curr : Int, bad : BOOLEAN] : s.bad \/ s.curr \in Nat}

LEMMA ReadLengthType ==
    ASSUME BitsArrived, NEW p \in Nat \ {0}, NEW from \in Int
    PROVE  /\ ReadLength(p, from) \in LengthStates
           /\ ~ReadLength(p, from).bad => ReadLength(p, from).curr \in 1 .. Longest
<1> DEFINE zeros == {k \in 0 .. Len(arrived) : ReadBit(p + 2 * k) = 0}
           last == Min(zeros)
           downs(k) == {j \in 0 .. k - 1 : ReadBit(p + 2 * j + 1) = 1}
           curr(k) == from + k - 2 * Cardinality(downs(k))
           bad == \E k \in 0 .. last : curr(k) \notin 1 .. Longest
<1>1. Len(arrived) \in Nat
  BY DEF BitsArrived
<1>2. zeros \in SUBSET Nat /\ zeros # {}
  <2>1. Len(arrived) \in 0 .. Len(arrived) /\ ~(p + 2 * Len(arrived) <= Len(arrived))
    BY <1>1
  <2>2. ReadBit(p + 2 * Len(arrived)) = 0
    BY <2>1 DEF ReadBit
  <2> QED  BY <1>1, <2>1, <2>2
<1>3. last \in Nat
  <2> HIDE DEF zeros
  <2> QED  BY <1>2, MinIsLeast
<1>4. Cardinality(downs(last)) \in Nat
  <2>1. downs(last) \in SUBSET (0 .. last - 1)
    OBVIOUS
  <2>2. IsFiniteSet(0 .. last - 1)
    <3>1. 0 \in Int /\ last - 1 \in Int
      BY <1>3
    <3> HIDE DEF last
    <3> QED  BY <3>1, FS_Interval
  <2> HIDE DEF downs
  <2>3. IsFiniteSet(downs(last))
    BY <2>1, <2>2, FS_Subset
  <2> QED  BY <2>3, FS_CardinalityType
<1>5. ReadLength(p, from) = [p |-> p + 2 * last + 1, curr |-> curr(last), bad |-> bad]
  BY DEF ReadLength
<1> HIDE DEF last, downs
<1>6. curr(last) \in Int /\ p + 2 * last + 1 \in Nat \ {0} /\ last \in 0 .. last
  BY <1>3, <1>4
<1>7. ~bad => curr(last) \in 1 .. Longest
  BY <1>6
<1>8. ~bad => curr(last) \in Nat
  BY <1>7
<1>9. bad \in BOOLEAN
  OBVIOUS
<1> HIDE DEF bad, curr
<1> QED  BY <1>5, <1>6, <1>7, <1>8, <1>9 DEF LengthStates

\* Every code length is one the reader takes, unless one was bad.
LEMMA ReadLengthsType ==
    ASSUME BitsArrived, NEW p \in Nat \ {0}, NEW size \in Nat
    PROVE  LET got == ReadLengths(p, size)
           IN  /\ got.p \in Nat \ {0}
               /\ ~got.bad => got.codeLens \in [0 .. size - 1 -> 1 .. Longest]
<1> DEFINE St == LengthStates
           Next1(s) == IF s.bad THEN s ELSE ReadLength(s.p, s.curr)
           start == [p |-> p + 5, curr |-> ReadBits(p, 5), bad |-> FALSE]
           Upto(f) == f = [v \in 0 .. size |->
                              IF v = 0 THEN [p |-> p + 5, curr |-> ReadBits(p, 5),
                                             bad |-> FALSE]
                              ELSE LET last == f[v - 1]
                                   IN  IF last.bad THEN last
                                       ELSE ReadLength(last.p, last.curr)]
           F == [x \in St \X (1 .. size) |-> Next1(x[1])]
<1>1. ASSUME NEW s \in St PROVE Next1(s) \in St
  <2>1. s.p \in Nat \ {0} /\ s.curr \in Int
    BY DEF LengthStates
  <2> QED  BY <2>1, ReadLengthType
<1>2. start \in St
  <2>1. ReadBits(p, 5) \in Nat
    BY ReadBitsType
  <2> QED  BY <2>1 DEF LengthStates
<1>3. \E f : Upto(f)
  <2>1. F \in [St \X (1 .. size) -> St]
    BY <1>1
  <2>2. StepsTaken(size, St, start, F)
    <3> HIDE DEF F, St, start
    <3> QED  BY <1>2, <2>1, RecursionExists
  <2>3. PICK g \in [0 .. size -> St] :
             g[0] = start /\ \A k \in 1 .. size : g[k] = F[<< g[k - 1], k >>]
    BY <2>2 DEF StepsTaken
  <2>4. ASSUME NEW k \in 1 .. size PROVE g[k] = Next1(g[k - 1])
    <3>1. k - 1 \in 0 .. size
      OBVIOUS
    <3>2. << g[k - 1], k >> \in St \X (1 .. size)
      BY <3>1
    <3> QED  BY <2>3, <3>2
  <2>5. \A k \in 0 .. size : k = 0 \/ k \in 1 .. size
    OBVIOUS
  <2>6. \A k \in 0 .. size : g[k] = IF k = 0 THEN start ELSE Next1(g[k - 1])
    BY <2>3, <2>4, <2>5
  <2>7. g = [k \in 0 .. size |-> g[k]]
    OBVIOUS
  <2>8. g = [k \in 0 .. size |-> IF k = 0 THEN start ELSE Next1(g[k - 1])]
    BY <2>6, <2>7
  <2> QED  BY <2>8
<1> DEFINE read == CHOOSE f : Upto(f)
           lens == [v \in 0 .. size - 1 |-> read[v + 1].curr]
<1>4. Upto(read)
  BY <1>3
<1>5. ReadLengths(p, size)
      = [p |-> read[size].p, bad |-> read[size].bad, codeLens |-> lens]
  BY DEF ReadLengths
<1> HIDE DEF read
<1>6. read[0] = start /\ \A k \in 1 .. size : read[k] = Next1(read[k - 1])
  BY <1>4
<1>7. \A k \in 0 .. size : read[k] \in St
  <2> DEFINE Sts == [k \in 0 .. size |-> St]
  <2>1. read[0] \in Sts[0]
    BY <1>2, <1>6
  <2>2. ASSUME NEW k \in 1 .. size, read[k - 1] \in Sts[k - 1] PROVE read[k] \in Sts[k]
    <3>1. k - 1 \in 0 .. size /\ k \in 0 .. size
      OBVIOUS
    <3>2. read[k - 1] \in St
      BY <2>2, <3>1
    <3>3. read[k] \in St
      BY <1>1, <1>6, <3>2
    <3> QED  BY <3>1, <3>3
  <2>3. \A k \in 0 .. size : read[k] \in Sts[k]
    <3> HIDE DEF Sts
    <3> QED  BY <2>1, <2>2, RecursionInvariant
  <2> QED  BY <2>3
<1>8. \A k \in 0 .. size : read[k].bad => read[size].bad
  <2> DEFINE Sts == [k \in 0 .. size |->
                       {s \in St : (\E i \in 0 .. k : read[i].bad) => s.bad}]
  <2>1. read[0] \in Sts[0]
    BY <1>7
  <2>2. ASSUME NEW k \in 1 .. size, read[k - 1] \in Sts[k - 1] PROVE read[k] \in Sts[k]
    <3>1. k - 1 \in 0 .. size /\ k \in 0 .. size
      OBVIOUS
    <3>2. (\E i \in 0 .. k - 1 : read[i].bad) => read[k - 1].bad
      BY <2>2, <3>1
    <3>3. \A i \in 0 .. k : i = k \/ i \in 0 .. k - 1
      OBVIOUS
    <3>4. read[k - 1].bad => read[k] = read[k - 1]
      BY <1>6
    <3>5. (\E i \in 0 .. k : read[i].bad) => read[k].bad
      BY <3>2, <3>3, <3>4
    <3> QED  BY <1>7, <3>1, <3>5
  <2>3. \A k \in 0 .. size : read[k] \in Sts[k]
    <3> HIDE DEF Sts
    <3> QED  BY <2>1, <2>2, RecursionInvariant
  <2>4. size \in 0 .. size
    OBVIOUS
  <2> QED  BY <2>3, <2>4
<1>9. ASSUME ~read[size].bad, NEW v \in 0 .. size - 1
      PROVE  read[v + 1].curr \in 1 .. Longest
  <2>1. v + 1 \in 1 .. size /\ (v + 1) - 1 = v /\ v \in 0 .. size /\ v + 1 \in 0 .. size
    OBVIOUS
  <2>2. ~read[v + 1].bad /\ ~read[v].bad
    BY <1>8, <1>9, <2>1
  <2>3. read[v + 1] = ReadLength(read[v].p, read[v].curr)
    BY <1>6, <2>1, <2>2
  <2>4. read[v].p \in Nat \ {0} /\ read[v].curr \in Int
    BY <1>7, <2>1 DEF LengthStates
  <2> QED  BY <2>2, <2>3, <2>4, ReadLengthType
<1>10. ~read[size].bad => lens \in [0 .. size - 1 -> 1 .. Longest]
  BY <1>9
<1>11. read[size].p \in Nat \ {0}
  <2>1. size \in 0 .. size
    OBVIOUS
  <2> QED  BY <1>7, <2>1 DEF LengthStates
<1>12. /\ ReadLengths(p, size).p = read[size].p
       /\ ReadLengths(p, size).bad = read[size].bad
       /\ ReadLengths(p, size).codeLens = lens
  BY <1>5
<1> HIDE DEF lens
<1> QED  BY <1>10, <1>11, <1>12

-----------------------------------------------------------------------------
(* Decode tables.                                                          *)

\* The decode tables for size symbols.
DecodeTables(size) ==
    [minLen : 1 .. Longest,
     limit : [1 .. Longest + 2 -> Int],
     base : [1 .. Longest + 2 -> Int],
     perm : [0 .. size - 1 -> 0 .. size - 1]]

LEMMA SymbolsFinite ==
    ASSUME NEW size \in Nat, NEW T \in SUBSET (0 .. size - 1)
    PROVE  Cardinality(T) \in Nat
<1>1. 0 \in Int /\ size - 1 \in Int
  OBVIOUS
<1>2. IsFiniteSet(0 .. size - 1)
  BY <1>1, FS_Interval
<1>3. IsFiniteSet(T)
  BY <1>2, FS_Subset
<1> QED  BY <1>3, FS_CardinalityType

LEMMA LengthRange ==
    ASSUME ReaderAssumption,
           NEW size \in Nat \ {0}, NEW lens \in [0 .. size - 1 -> 1 .. Longest]
    PROVE  MinLength(lens) \in 1 .. Longest /\ MaxLength(lens) \in 1 .. Longest
<1> DEFINE S == {lens[v] : v \in DOMAIN lens}
<1>1. S \in SUBSET (1 .. Longest) /\ S # {}
  <2>1. 0 \in DOMAIN lens
    OBVIOUS
  <2> QED  BY <2>1
<1>2. S \in SUBSET Nat /\ S \in SUBSET (0 .. Longest) /\ Longest \in Nat
  BY <1>1 DEF ReaderAssumption
<1>3. MinLength(lens) = Min(S) /\ MaxLength(lens) = Max(S)
  BY DEF MinLength, MaxLength
<1> HIDE DEF S
<1>4. Min(S) \in S
  BY <1>1, <1>2, MinIsLeast
<1>5. Max(S) \in S
  BY <1>1, <1>2, MaxIsGreatest
<1> QED  BY <1>1, <1>3, <1>4, <1>5

\* The numbers the codes begin with, by their lengths.
VecIs(lens, l, f) ==
    f = [i \in 0 .. l |-> IF i <= MinLength(lens) THEN 0
                          ELSE 2 * (f[i - 1] + Cardinality(OfLength(lens, i - 1)))]

LEMMA VecValue ==
    ASSUME ReaderAssumption,
           NEW size \in Nat \ {0}, NEW lens \in [0 .. size - 1 -> 1 .. Longest],
           NEW l \in Nat
    PROVE  \E f : VecIs(lens, l, f) /\ Vec(lens, l) = f[l]
<1> DEFINE least == MinLength(lens)
           Of(i) == Cardinality(OfLength(lens, i))
           Next1(v, i) == IF i <= least THEN 0 ELSE 2 * (v + Of(i - 1))
           F == [x \in Nat \X (1 .. l) |-> Next1(x[1], x[2])]
<1>1. ASSUME NEW i PROVE Of(i) \in Nat
  <2>1. OfLength(lens, i) \in SUBSET (0 .. size - 1)
    BY DEF OfLength
  <2> QED  BY <2>1, SymbolsFinite
<1>2. least \in Nat /\ 0 <= least
  BY LengthRange
<1>3. ASSUME NEW v \in Nat, NEW i \in 1 .. l PROVE Next1(v, i) \in Nat
  <2>1. Of(i - 1) \in Nat
    BY <1>1
  <2> HIDE DEF Of, least
  <2> QED  BY <2>1
<1>4. \E f : VecIs(lens, l, f)
  <2>1. F \in [Nat \X (1 .. l) -> Nat]
    <3> HIDE DEF Next1
    <3> QED  BY <1>3
  <2>2. StepsTaken(l, Nat, 0, F)
    <3>1. 0 \in Nat
      OBVIOUS
    <3> HIDE DEF F
    <3> QED  BY <2>1, <3>1, RecursionExists
  <2>3. PICK g \in [0 .. l -> Nat] :
             g[0] = 0 /\ \A k \in 1 .. l : g[k] = F[<< g[k - 1], k >>]
    <3> HIDE DEF F
    <3> QED  BY <2>2 DEF StepsTaken
  <2>4. ASSUME NEW k \in 1 .. l PROVE g[k] = Next1(g[k - 1], k)
    <3>1. k - 1 \in 0 .. l
      OBVIOUS
    <3>2. << g[k - 1], k >> \in Nat \X (1 .. l)
      BY <3>1
    <3> HIDE DEF Next1
    <3> QED  BY <2>3, <3>2
  <2>5. \A k \in 0 .. l : k = 0 \/ k \in 1 .. l
    OBVIOUS
  <2>6. \A k \in 0 .. l : g[k] = Next1(g[k - 1], k)
    <3> HIDE DEF Of, least
    <3> QED  BY <1>2, <2>3, <2>4, <2>5
  <2>7. g = [k \in 0 .. l |-> g[k]]
    OBVIOUS
  <2>8. g = [k \in 0 .. l |-> Next1(g[k - 1], k)]
    <3> HIDE DEF Next1
    <3> QED  BY <2>6, <2>7
  <2> QED  BY <2>8 DEF VecIs
<1> DEFINE vec == CHOOSE f : VecIs(lens, l, f)
<1>5. VecIs(lens, l, vec)
  <2> HIDE DEF Next1, F
  <2> QED  BY <1>4
<1>6. Vec(lens, l) = vec[l]
  BY DEF Vec, VecIs
<1> HIDE DEF vec
<1> QED  BY <1>5, <1>6

LEMMA VecType ==
    ASSUME ReaderAssumption,
           NEW size \in Nat \ {0}, NEW lens \in [0 .. size - 1 -> 1 .. Longest],
           NEW l \in Nat
    PROVE  Vec(lens, l) \in Nat
<1> DEFINE least == MinLength(lens)
           Of(i) == Cardinality(OfLength(lens, i))
           Next1(v, i) == IF i <= least THEN 0 ELSE 2 * (v + Of(i - 1))
<1>1. ASSUME NEW i PROVE Of(i) \in Nat
  <2>1. OfLength(lens, i) \in SUBSET (0 .. size - 1)
    BY DEF OfLength
  <2> QED  BY <2>1, SymbolsFinite
<1>2. least \in Nat /\ 0 <= least
  BY LengthRange
<1>3. ASSUME NEW v \in Nat, NEW i \in 1 .. l PROVE Next1(v, i) \in Nat
  <2>1. Of(i - 1) \in Nat
    BY <1>1
  <2> HIDE DEF Of, least
  <2> QED  BY <2>1
<1>6. PICK vec : VecIs(lens, l, vec) /\ Vec(lens, l) = vec[l]
  BY VecValue
<1>7. \A k \in 0 .. l : vec[k] = Next1(vec[k - 1], k)
  BY <1>6 DEF VecIs
<1>8. \A k \in 0 .. l : vec[k] \in Nat
  <2> DEFINE Sts == [k \in 0 .. l |-> Nat]
  <2> HIDE DEF Of, least
  <2>1. vec[0] \in Sts[0]
    <3>1. 0 \in 0 .. l
      OBVIOUS
    <3> QED  BY <1>2, <1>7, <3>1
  <2>2. ASSUME NEW k \in 1 .. l, vec[k - 1] \in Sts[k - 1] PROVE vec[k] \in Sts[k]
    <3>1. k - 1 \in 0 .. l /\ k \in 0 .. l
      OBVIOUS
    <3>2. vec[k - 1] \in Nat
      BY <2>2, <3>1
    <3>3. vec[k] \in Nat
      <4> HIDE DEF Next1
      <4> QED  BY <1>3, <1>7, <3>1, <3>2
    <3> QED  BY <3>1, <3>3
  <2>3. \A k \in 0 .. l : vec[k] \in Sts[k]
    <3> HIDE DEF Sts, Next1
    <3> QED  BY <2>1, <2>2, RecursionInvariant
  <2> QED  BY <2>3
<1> QED  BY <1>6, <1>8

LEMMA VecSteps ==
    ASSUME ReaderAssumption,
           NEW size \in Nat \ {0}, NEW lens \in [0 .. size - 1 -> 1 .. Longest],
           NEW l \in Nat
    PROVE  /\ Vec(lens, l) \in Nat
           /\ l <= MinLength(lens) => Vec(lens, l) = 0
           /\ l + 1 > MinLength(lens)
              => Vec(lens, l + 1) = 2 * (Vec(lens, l) + Cardinality(OfLength(lens, l)))
<1> DEFINE least == MinLength(lens)
           Of(i) == Cardinality(OfLength(lens, i))
           Next1(v, i) == IF i <= least THEN 0 ELSE 2 * (v + Of(i - 1))
<1>1. Vec(lens, l) \in Nat
  BY VecType
<1>2. PICK f : VecIs(lens, l, f) /\ Vec(lens, l) = f[l]
  BY VecValue
<1>3. PICK g : VecIs(lens, l + 1, g) /\ Vec(lens, l + 1) = g[l + 1]
  <2>1. l + 1 \in Nat
    OBVIOUS
  <2> QED  BY <2>1, VecValue
<1>4. \A k \in 0 .. l : f[k] = Next1(f[k - 1], k)
  BY <1>2 DEF VecIs
<1>5. \A k \in 0 .. l + 1 : g[k] = Next1(g[k - 1], k)
  BY <1>3 DEF VecIs
<1>6. least \in Nat
  BY LengthRange
<1> HIDE DEF least, Of
<1>7. f[0] = 0 /\ g[0] = 0
  <2>1. 0 \in 0 .. l /\ 0 \in 0 .. l + 1
    OBVIOUS
  <2> QED  BY <1>4, <1>5, <1>6, <2>1
<1>8. \A k \in 0 .. l : f[k] = g[k]
  <2>1. \A k \in 1 .. l : f[k - 1] = g[k - 1] => f[k] = g[k]
    <3> HIDE DEF Next1
    <3> QED  BY <1>4, <1>5
  <2>2. f[0] = g[0]
    BY <1>7
  <2>3. StepAlike(l, f, g)
    <3> HIDE DEF Next1
    <3> QED  BY <2>1, <2>2 DEF StepAlike
  <2> QED  BY <2>3, RecursionSame
<1>9. l <= least => f[l] = 0
  BY <1>4
<1>10. l + 1 > least => g[l + 1] = 2 * (g[l] + Of(l))
  <2>1. l + 1 \in 0 .. l + 1 /\ (l + 1) - 1 = l
    OBVIOUS
  <2>2. g[l + 1] = Next1(g[l], l + 1)
    <3> HIDE DEF Next1
    <3> QED  BY <1>5, <2>1
  <2> QED  BY <1>6, <2>1, <2>2
<1>11. l \in 0 .. l
  OBVIOUS
<1> QED  BY <1>1, <1>2, <1>3, <1>8, <1>9, <1>10, <1>11 DEF least, Of

\* The symbols sorted by the lengths of their codes are these symbols.
LEMMA ByLengthType ==
    ASSUME NEW size \in Nat \ {0}, NEW lens \in [0 .. size - 1 -> 1 .. Longest]
    PROVE  ByLength(lens) \in [0 .. size - 1 -> 0 .. size - 1]
<1> DEFINE S == 0 .. size - 1
           before(i) == {j \in S : lens[j] < lens[i] \/ (lens[j] = lens[i] /\ j < i)}
<1>1. DOMAIN lens = S /\ Cardinality(S) = size
  <2>1. 0 \in Int /\ size - 1 \in Int /\ ~(0 > size - 1) /\ (size - 1) - 0 + 1 = size
    OBVIOUS
  <2>2. Cardinality(S) = IF 0 > size - 1 THEN 0 ELSE (size - 1) - 0 + 1
    BY <2>1, FS_Interval
  <2> QED  BY <2>1, <2>2
<1>2. ASSUME NEW k \in S PROVE (CHOOSE i \in S : k = Cardinality(before(i))) \in S
  <2>1. lens \in [S -> Int]
    OBVIOUS
  <2>2. \E i \in S : k = Cardinality(before(i))
    BY <2>1, PlaceByKey
  <2> QED  BY <2>2
<1>3. ByLength(lens) = [k \in 0 .. Cardinality(S) - 1 |->
                           CHOOSE i \in S : k = Cardinality(before(i))]
  BY <1>1 DEF ByLength, InOrder
<1> QED  BY <1>1, <1>2, <1>3

LEMMA CreateDecodeTablesType ==
    ASSUME ReaderAssumption,
           NEW size \in Nat \ {0}, NEW lens \in [0 .. size - 1 -> 1 .. Longest]
    PROVE  CreateDecodeTables(lens, Longest) \in DecodeTables(size)
<1> DEFINE shorter(i) == Cardinality({v \in DOMAIN lens : lens[v] < i})
           number(i) == IF i \notin MinLength(lens) .. MaxLength(lens) THEN 0
                        ELSE Vec(lens, i) + Cardinality(OfLength(lens, i)) - 1
           limit == [i \in 1 .. Longest + 2 |-> number(i)]
           base == [i \in 1 .. Longest + 2 |->
                       IF i \in MinLength(lens) + 1 .. MaxLength(lens)
                       THEN (limit[i - 1] + 1) * 2 - shorter(i)
                       ELSE shorter(i)]
<1>1. MinLength(lens) \in 1 .. Longest /\ MaxLength(lens) \in 1 .. Longest
  BY LengthRange
<1>2. ASSUME NEW i PROVE shorter(i) \in Nat /\ Cardinality(OfLength(lens, i)) \in Nat
  <2>1. {v \in DOMAIN lens : lens[v] < i} \in SUBSET (0 .. size - 1)
        /\ OfLength(lens, i) \in SUBSET (0 .. size - 1)
    BY DEF OfLength
  <2> QED  BY <2>1, SymbolsFinite
<1>3. ASSUME NEW i \in 1 .. Longest + 2 PROVE number(i) \in Int
  <2>1. i \in Nat
    OBVIOUS
  <2>2. Vec(lens, i) \in Nat
    BY <2>1, VecType
  <2>3. Cardinality(OfLength(lens, i)) \in Nat
    BY <1>2
  <2>4. Vec(lens, i) + Cardinality(OfLength(lens, i)) - 1 \in Int
    BY <2>2, <2>3
  <2> QED  BY <2>4
<1>4. limit \in [1 .. Longest + 2 -> Int]
  <2> HIDE DEF number
  <2> QED  BY <1>3
<1>5. base \in [1 .. Longest + 2 -> Int]
  <2> HIDE DEF limit, shorter
  <2> SUFFICES ASSUME NEW i \in 1 .. Longest + 2
               PROVE  /\ i \in MinLength(lens) + 1 .. MaxLength(lens)
                         => (limit[i - 1] + 1) * 2 - shorter(i) \in Int
                      /\ shorter(i) \in Int
    OBVIOUS
  <2>1. shorter(i) \in Nat
    BY <1>2
  <2>2. ASSUME i \in MinLength(lens) + 1 .. MaxLength(lens)
        PROVE  (limit[i - 1] + 1) * 2 - shorter(i) \in Int
    <3>1. i - 1 \in 1 .. Longest + 2
      BY <1>1, <2>2
    <3>2. limit[i - 1] \in Int
      BY <1>4, <3>1
    <3> QED  BY <2>1, <3>2
  <2> QED  BY <2>1, <2>2
<1>6. ByLength(lens) \in [0 .. size - 1 -> 0 .. size - 1]
  BY ByLengthType
<1>7. CreateDecodeTables(lens, Longest)
      = [minLen |-> MinLength(lens), limit |-> limit, base |-> base,
         perm |-> ByLength(lens)]
  BY DEF CreateDecodeTables
<1>8. ASSUME NEW a \in 1 .. Longest,
             NEW l \in [1 .. Longest + 2 -> Int], NEW b \in [1 .. Longest + 2 -> Int],
             NEW q \in [0 .. size - 1 -> 0 .. size - 1]
      PROVE  [minLen |-> a, limit |-> l, base |-> b, perm |-> q] \in DecodeTables(size)
  BY DEF DecodeTables
<1> HIDE DEF limit, base
<1>9. [minLen |-> MinLength(lens), limit |-> limit, base |-> base,
       perm |-> ByLength(lens)] \in DecodeTables(size)
  BY <1>1, <1>4, <1>5, <1>6, <1>8
<1> QED  BY <1>7, <1>9, Zenon

-----------------------------------------------------------------------------
(* The inverse of the block sort.                                          *)

\* The places of the bytes in their order are places of the block.
LEMMA FollowType ==
    ASSUME tt \in Seq(Bytes)
    PROVE  Follow \in [0 .. Len(tt) - 1 -> 0 .. Len(tt) - 1]
<1> DEFINE n == Len(tt)
           S == 0 .. n - 1
           before(i) == {j \in S : tt[j + 1] < tt[i + 1] \/ (tt[j + 1] = tt[i + 1] /\ j < i)}
           key == [i \in S |-> tt[i + 1]]
<1>1. n \in Nat
  OBVIOUS
<1>2. Cardinality(S) = n
  <2>1. 0 \in Int /\ n - 1 \in Int /\ (n - 1) - 0 + 1 = n
    BY <1>1
  <2>2. Cardinality(S) = IF 0 > n - 1 THEN 0 ELSE (n - 1) - 0 + 1
    <3> HIDE DEF n
    <3> QED  BY <2>1, FS_Interval
  <2> QED  BY <1>1, <2>1, <2>2
<1>3. key \in [S -> Int]
  <2> SUFFICES ASSUME NEW i \in S PROVE tt[i + 1] \in Int
    OBVIOUS
  <2>1. i + 1 \in 1 .. Len(tt)
    BY <1>1
  <2>2. tt[i + 1] \in Bytes
    BY <2>1
  <2> QED  BY <2>2 DEF Bytes
<1>4. ASSUME NEW k \in S PROVE (CHOOSE i \in S : k = Cardinality(before(i))) \in S
  <2>1. PICK i \in S : k = Cardinality({j \in S : key[j] < key[i] \/ (key[j] = key[i] /\ j < i)})
    <3> HIDE DEF n, key
    <3> QED  BY <1>1, <1>3, PlaceByKey
  <2>2. {j \in S : key[j] < key[i] \/ (key[j] = key[i] /\ j < i)} = before(i)
    <3> HIDE DEF n
    <3> QED  OBVIOUS
  <2>3. \E x \in S : k = Cardinality(before(x))
    BY <2>1, <2>2
  <2> HIDE DEF before, n
  <2> QED  BY <2>3
<1>5. Follow = [k \in 0 .. Cardinality(S) - 1 |-> CHOOSE i \in S : k = Cardinality(before(i))]
  BY DEF Follow, RadixSort, InOrder
<1> HIDE DEF n, before
<1> QED  BY <1>2, <1>4, <1>5 DEF n

\* The places the reader walks through.
LEMMA RotationWalk ==
    ASSUME tt \in Seq(Bytes), NEW from \in 0 .. Len(tt) - 1
    PROVE  \E walk \in [0 .. Len(tt) -> 0 .. Len(tt) - 1] :
              /\ walk[0] = Follow[from]
              /\ \A k \in 1 .. Len(tt) : walk[k] = Follow[walk[k - 1]]
              /\ RotationFrom(from) = [k \in 1 .. Len(tt) |-> tt[walk[k - 1] + 1]]
<1> DEFINE n == Len(tt)
           S == 0 .. n - 1
           Upto(f) == f = [k \in 0 .. Len(tt) |->
                              IF k = 0 THEN Follow[from] ELSE Follow[f[k - 1]]]
           F == [x \in S \X (1 .. n) |-> Follow[x[1]]]
<1>1. n \in Nat /\ from \in S
  OBVIOUS
<1>2. Follow \in [S -> S]
  BY FollowType
<1>3. \E f : Upto(f)
  <2> HIDE DEF S
  <2>1. F \in [S \X (1 .. n) -> S]
    BY <1>2
  <2>2. StepsTaken(n, S, Follow[from], F)
    <3>1. Follow[from] \in S
      BY <1>1, <1>2
    <3> HIDE DEF F, n
    <3> QED  BY <1>1, <2>1, <3>1, RecursionExists
  <2>3. PICK g \in [0 .. n -> S] :
             g[0] = Follow[from] /\ \A k \in 1 .. n : g[k] = F[<< g[k - 1], k >>]
    BY <2>2 DEF StepsTaken
  <2>4. ASSUME NEW k \in 1 .. n PROVE g[k] = Follow[g[k - 1]]
    <3>1. k - 1 \in 0 .. n
      BY <1>1
    <3>2. << g[k - 1], k >> \in S \X (1 .. n)
      BY <3>1
    <3> QED  BY <2>3, <3>2
  <2>5. \A k \in 0 .. n : k = 0 \/ k \in 1 .. n
    BY <1>1
  <2>6. \A k \in 0 .. n : g[k] = IF k = 0 THEN Follow[from] ELSE Follow[g[k - 1]]
    BY <2>3, <2>4, <2>5
  <2>7. g = [k \in 0 .. n |-> g[k]]
    OBVIOUS
  <2> QED  BY <2>6, <2>7
<1> DEFINE tPos == CHOOSE f : Upto(f)
           out == [k \in 1 .. n |-> tt[tPos[k - 1] + 1]]
<1>4. Upto(tPos)
  BY <1>3
<1>5. RotationFrom(from) = out
  BY DEF RotationFrom
<1> HIDE DEF tPos
<1>6. tPos[0] = Follow[from] /\ \A k \in 1 .. n : tPos[k] = Follow[tPos[k - 1]]
  BY <1>1, <1>4
<1>7. \A k \in 0 .. n : tPos[k] \in S
  <2> DEFINE Sts == [k \in 0 .. n |-> S]
  <2> HIDE DEF S
  <2>1. tPos[0] \in Sts[0]
    <3>1. 0 \in 0 .. n
      BY <1>1
    <3> QED  BY <1>1, <1>2, <1>6, <3>1
  <2>2. ASSUME NEW k \in 1 .. n, tPos[k - 1] \in Sts[k - 1] PROVE tPos[k] \in Sts[k]
    <3>1. k - 1 \in 0 .. n /\ k \in 0 .. n
      BY <1>1
    <3>2. tPos[k - 1] \in S
      BY <2>2, <3>1
    <3>3. tPos[k] \in S
      BY <1>2, <1>6, <3>2
    <3> QED  BY <3>1, <3>3
  <2>3. \A k \in 0 .. n : tPos[k] \in Sts[k]
    <3> HIDE DEF n, Sts
    <3> QED  BY <1>1, <2>1, <2>2, RecursionInvariant
  <2> QED  BY <2>3
<1>8. tPos \in [0 .. n -> S]
  <2>1. DOMAIN tPos = 0 .. n /\ tPos = [k \in 0 .. n |-> tPos[k]]
    BY <1>4
  <2> QED  BY <1>7, <2>1
<1> QED  BY <1>5, <1>6, <1>8

\* The walk through them stays within the block.
LEMMA RotationType ==
    ASSUME tt \in Seq(Bytes), NEW from \in 0 .. Len(tt) - 1
    PROVE  RotationFrom(from) \in Seq(Bytes) /\ Len(RotationFrom(from)) = Len(tt)
<1> DEFINE n == Len(tt)
<1>1. n \in Nat
  OBVIOUS
<1>2. PICK walk \in [0 .. n -> 0 .. n - 1] :
             RotationFrom(from) = [k \in 1 .. n |-> tt[walk[k - 1] + 1]]
  BY RotationWalk
<1> DEFINE out == [k \in 1 .. n |-> tt[walk[k - 1] + 1]]
<1>3. out \in [1 .. n -> Bytes]
  <2> SUFFICES ASSUME NEW k \in 1 .. n PROVE tt[walk[k - 1] + 1] \in Bytes
    OBVIOUS
  <2>1. k - 1 \in 0 .. n
    BY <1>1
  <2>2. walk[k - 1] + 1 \in 1 .. Len(tt)
    BY <1>1, <2>1
  <2> QED  BY <2>2
<1>4. out \in Seq(Bytes) /\ Len(out) = n
  <2> HIDE DEF out, n
  <2> QED  BY <1>1, <1>3
<1> QED  BY <1>2, <1>4

-----------------------------------------------------------------------------
(* The invariant.                                                          *)

\* A header that was taken.
HeadOK(h) ==
    /\ h.origPtr \in Nat
    /\ h.nInUse \in 1 .. A
    /\ h.seqToUnseq \in [0 .. h.nInUse - 1 -> Bytes]
    /\ h.numGroups \in 2 .. NGroups
    /\ h.selector \in Seq(0 .. h.numGroups - 1)
    /\ Len(h.selector) \in 1 .. MaxSelectors

\* Behind the header the fields make sense, and the list keeps all its items.
HeaderRead ==
    reader \in {"tables", "symbols", "inverse"} => HeadOK(head) /\ list \in Lists(A)

\* There is a table for every group the header announced before a symbol is read.
TablesMade ==
    /\ reader = "header" => decode = << >>
    /\ reader \in {"tables", "symbols"} => decode \in Seq(DecodeTables(head.nInUse + 2))
    /\ reader = "tables" => Len(decode) < head.numGroups
    /\ reader = "symbols" => Len(decode) = head.numGroups

\* The group being read is one that has a selector.
GroupWithin ==
    /\ reader \in {"header", "tables"} => group = [no |-> -1, left |-> 0]
    /\ reader = "symbols" => /\ group.no < Len(head.selector)
                             /\ group.left > 0 => group.no >= 0

IInv == ReaderTypeOK /\ NeverPanics /\ HeaderRead /\ TablesMade /\ GroupWithin

-----------------------------------------------------------------------------
(* Symbols.                                                                *)

GroupStates == [no : -1 .. MaxSelectors - 1, left : 0 .. GroupSize - 1]
Runs == [es : {-1} \cup Nat, N : 1 .. 2 * RunLimit]

LEMMA CodeEndType ==
    ASSUME ReaderAssumption, NEW table, table.minLen \in 1 .. Longest, NEW p
    PROVE  CodeEnd(table, p) \in 1 .. Longest + 1
<1> DEFINE ends == {zn \in table.minLen .. Longest + 1 :
                       zn > Longest \/ ReadBits(p, zn) <= table.limit[zn]}
<1>1. Longest + 1 \in ends
  BY DEF ReaderAssumption
<1>2. ends \in SUBSET Nat /\ ends \in SUBSET (1 .. Longest + 1)
  BY DEF ReaderAssumption
<1>3. CodeEnd(table, p) = Min(ends)
  BY DEF CodeEnd
<1> HIDE DEF ends
<1> QED  BY <1>1, <1>2, <1>3, MinIsLeast

\* A symbol is one of the alphabet's, and the code and its table were there to read it.
LEMMA GetSymbolType ==
    ASSUME BitsArrived, ReaderAssumption, FormatAssumption, HeadOK(head),
           pos \in Nat \ {0}, group \in GroupStates,
           decode \in Seq(DecodeTables(head.nInUse + 2)), Len(decode) = head.numGroups,
           group.no < Len(head.selector), group.left > 0 => group.no >= 0
    PROVE  LET got == GetSymbol
           IN  /\ got.fails \in {"no", "error"}
               /\ got.fails = "no" => /\ got.p \in Nat \ {0}
                                      /\ got.group \in GroupStates
                                      /\ got.group.no \in 0 .. Len(head.selector) - 1
                                      /\ got.sym \in 0 .. head.nInUse + 1
<1> DEFINE fresh == group.left = 0
           no == IF fresh THEN group.no + 1 ELSE group.no
           left == IF fresh THEN GroupSize ELSE group.left
           table == decode[head.selector[no + 1] + 1]
           zn == CodeEnd(table, pos)
           idx == ReadBits(pos, zn) - table.base[zn]
           sym == IF idx \in DOMAIN table.perm THEN table.perm[idx] ELSE 0
           wrong == [fails |-> "error", sym |-> 0, p |-> pos, group |-> group]
           right == [fails |-> "no", p |-> pos + zn,
                     group |-> [no |-> no, left |-> left - 1], sym |-> sym]
<1>1. /\ group.no \in -1 .. MaxSelectors - 1 /\ group.left \in 0 .. GroupSize - 1
      /\ GroupSize \in Nat \ {0} /\ MaxSelectors \in Nat \ {0}
  BY DEF GroupStates, FormatAssumption
<1>2. /\ head.selector \in Seq(0 .. head.numGroups - 1)
      /\ Len(head.selector) \in 1 .. MaxSelectors
      /\ head.numGroups \in Nat /\ head.nInUse \in Nat \ {0}
  BY SMTT(30) DEF HeadOK, FormatAssumption
<1>3. no \in Nat /\ left \in 1 .. GroupSize
  <2>1. CASE fresh
    BY <1>1, <2>1
  <2>2. CASE ~fresh
    BY <1>1, <2>2
  <2> QED  BY <2>1, <2>2
<1>4. CASE fresh /\ RanOut(no)
  <2>1. GetSymbol = wrong
    BY <1>4 DEF GetSymbol
  <2> QED  BY <2>1
<1>5. CASE ~(fresh /\ RanOut(no))
  <2>1. no < Len(head.selector)
    <3>1. CASE fresh
      <4>1. ~RanOut(no)
        BY <1>5, <3>1
      <4> HIDE DEF no
      <4> QED  BY <1>2, <1>3, <4>1 DEF RanOut
    <3>2. CASE ~fresh
      BY <3>2
    <3> QED  BY <3>1, <3>2
  <2> HIDE DEF no, left
  <2>2. no + 1 \in 1 .. Len(head.selector)
    BY <1>2, <1>3, <2>1
  <2>3. head.selector[no + 1] \in 0 .. head.numGroups - 1
    BY <1>2, <2>2, ElementOfSeq
  <2>4. head.selector[no + 1] + 1 \in 1 .. Len(decode)
    <3>1. ASSUME NEW x \in 0 .. head.numGroups - 1 PROVE x + 1 \in 1 .. head.numGroups
      BY <1>2
    <3>2. head.selector[no + 1] + 1 \in 1 .. head.numGroups
      BY <2>3, <3>1
    <3> QED  BY <3>2
  <2>5. no + 1 \in DOMAIN head.selector /\ head.selector[no + 1] + 1 \in DOMAIN decode
    <3>1. DOMAIN head.selector = 1 .. Len(head.selector) /\ DOMAIN decode = 1 .. Len(decode)
      BY <1>2, LenProperties
    <3> QED  BY <2>2, <2>4, <3>1
  <2>6. table \in DecodeTables(head.nInUse + 2)
    BY <2>4, ElementOfSeq
  <2> HIDE DEF table
  <2>7. /\ table.minLen \in 1 .. Longest
        /\ table.perm \in [0 .. (head.nInUse + 2) - 1 -> 0 .. (head.nInUse + 2) - 1]
    BY <2>6 DEF DecodeTables
  <2>8. zn \in 1 .. Longest + 1
    BY <2>7, CodeEndType
  <2>9. sym \in 0 .. head.nInUse + 1
    <3>1. (head.nInUse + 2) - 1 = head.nInUse + 1
      BY <1>2
    <3>2. table.perm \in [0 .. head.nInUse + 1 -> 0 .. head.nInUse + 1]
      BY <2>7, <3>1
    <3>3. 0 \in 0 .. head.nInUse + 1
      BY <1>2
    <3> HIDE DEF idx, zn
    <3> QED  BY <3>2, <3>3
  <2>10. GetSymbol = wrong \/ GetSymbol = right
    <3> HIDE DEF zn, idx, sym
    <3>1. GetSymbol = IF zn > Longest \/ PastEnd(pos + zn) THEN wrong
                      ELSE IF idx \notin 0 .. A + 1 THEN wrong ELSE right
      BY <1>5, <2>5 DEF GetSymbol, no, left, table, zn, idx, sym
    <3> QED  BY <3>1
  <2> HIDE DEF zn, sym
  <2>11. pos + zn \in Nat \ {0}
    BY <2>8 DEF ReaderAssumption
  <2>12. [no |-> no, left |-> left - 1] \in GroupStates
    <3>1. no \in -1 .. MaxSelectors - 1 /\ left - 1 \in 0 .. GroupSize - 1
      BY <1>1, <1>2, <1>3, <2>1
    <3> QED  BY <3>1 DEF GroupStates
  <2>13. no \in 0 .. Len(head.selector) - 1
    BY <1>2, <1>3, <2>1
  <2>14. CASE GetSymbol = wrong
    BY <2>14
  <2>15. CASE GetSymbol = right
    BY <2>9, <2>11, <2>12, <2>13, <2>15
  <2> QED  BY <2>10, <2>14, <2>15
<1> QED  BY <1>4, <1>5

LEMMA RunDigitType ==
    ASSUME ReaderAssumption, run \in Runs,
           run.N < RunLimit, NEW sym
    PROVE  RunDigit(run, sym) \in Runs
<1> DEFINE grown == (IF sym = symRUNA THEN 1 ELSE 2) * run.N
<1>1. run.es \in {-1} \cup Nat /\ run.N \in Nat \ {0} /\ RunLimit \in Nat
  BY DEF Runs, ReaderAssumption
<1>2. grown \in Nat
  <2>1. grown = run.N \/ grown = 2 * run.N
    BY <1>1
  <2> QED  BY <1>1, <2>1
<1>3. grown # 0
  <2>1. grown = run.N \/ grown = 2 * run.N
    BY <1>1
  <2> QED  BY <1>1, <2>1
<1> HIDE DEF grown
<1>4. run.es + grown \in Nat /\ 2 * run.N \in 1 .. 2 * RunLimit
  BY <1>1, <1>2, <1>3
<1>5. RunDigit(run, sym) = [es |-> run.es + grown, N |-> 2 * run.N]
  BY DEF RunDigit, grown
<1> QED  BY <1>4, <1>5 DEF Runs

LEMMA ByteAtType ==
    ASSUME FormatAssumption, HeadOK(head), NEW i
    PROVE  ByteAt(i) \in Bytes
<1>1. head.seqToUnseq \in [0 .. head.nInUse - 1 -> Bytes] /\ 0 \in Bytes
  BY SMTT(30) DEF HeadOK, Bytes, FormatAssumption
<1> QED  BY <1>1 DEF ByteAt

-----------------------------------------------------------------------------
(* The steps.                                                              *)

LEMMA Started ==
    ASSUME FormatAssumption, ReaderAssumption, ReaderInit
    PROVE  IInv
<1> USE DEF ReaderInit, StateInit
<1>1. ReaderTypeOK
  <2>1. group \in [no : -1 .. MaxSelectors - 1, left : 0 .. GroupSize - 1]
    <3>1. GroupSize \in Nat \ {0} /\ MaxSelectors \in Nat \ {0}
      BY DEF FormatAssumption
    <3> QED  BY <3>1
  <2>2. run \in [es : {-1} \cup Nat, N : 1 .. 2 * RunLimit]
    BY DEF NoRun, ReaderAssumption
  <2>3. tt \in Seq(Bytes) /\ Len(tt) <= MaxBlock /\ list \in Seq(Bytes)
    BY DEF ReaderAssumption
  <2> QED  BY <2>1, <2>2, <2>3 DEF ReaderTypeOK
<1>2. NeverPanics
  BY DEF NeverPanics
<1>3. HeaderRead /\ TablesMade /\ GroupWithin
  BY DEF HeaderRead, TablesMade, GroupWithin
<1> QED  BY <1>1, <1>2, <1>3 DEF IInv

\* Once the first bits were looked at, the header is refused or makes sense.
LEMMA HeaderStep ==
    ASSUME FormatAssumption, ReaderAssumption, IInv, ReadHeader
    PROVE  IInv'
<1> DEFINE rowsAt == 1 + PtrBits
           rows == {r \in 0 .. RowLen - 1 : ReadBit(rowsAt + r) = 1}
           rowAt(r) == rowsAt + RowLen * (1 + Cardinality({q \in rows : q < r}))
           used == {c \in Bytes : /\ c \div RowLen \in rows
                                  /\ ReadBit(rowAt(c \div RowLen) + (c % RowLen)) = 1}
           groupsAt == rowsAt + RowLen * (1 + Cardinality(rows))
           numGroups == ReadBits(groupsAt, 3)
           numSelectors == ReadBits(groupsAt + 3, SelBits)
           sels == ReadSelectors(groupsAt + 3 + SelBits, numSelectors, numGroups)
           bad == \/ PastEnd(groupsAt) \/ used = {}
                  \/ numGroups \notin 2 .. NGroups \/ numSelectors < 1
                  \/ sels.bad \/ PastEnd(sels.p)
           made == [origPtr |-> ReadBits(1, PtrBits),
                    seqToUnseq |-> SeqToUnseq(used),
                    nInUse |-> Cardinality(used),
                    numGroups |-> numGroups,
                    selector |-> MTFDecode(sels.selectorMtf, numGroups)]
<1>1. /\ reader = "header"
      /\ \/ bad /\ reader' = "error" /\ UNCHANGED << pos, head, list >>
         \/ /\ ~bad
            /\ head' = made /\ pos' = sels.p /\ list' = InitialList(A)
            /\ reader' = "tables"
      /\ UNCHANGED << arrived, decode, group, run, tt >>
  BY DEF ReadHeader
<1> HIDE DEF bad, made, sels
<1>2. ReaderTypeOK /\ HeaderRead /\ TablesMade /\ GroupWithin
  BY DEF IInv
<1>3. BitsArrived
  BY <1>2 DEF ReaderTypeOK, BitsArrived
<1>4. CASE bad /\ reader' = "error" /\ UNCHANGED << pos, head, list >>
  BY <1>1, <1>2, <1>4
     DEF IInv, ReaderTypeOK, NeverPanics, HeaderRead, TablesMade, GroupWithin
<1>5. CASE ~bad /\ head' = made /\ pos' = sels.p /\ list' = InitialList(A)
           /\ reader' = "tables"
  <2>1. PtrBits \in Nat \ {0} /\ RowLen \in Nat \ {0} /\ SelBits \in Nat \ {0}
        /\ MaxSelectors \in Nat \ {0} /\ A \in Nat \ {0}
    BY DEF FormatAssumption
  <2>2. groupsAt \in Nat \ {0}
    <3>1. rows \in SUBSET (0 .. RowLen - 1)
      OBVIOUS
    <3> DEFINE c == Cardinality(rows)
    <3>2. c \in Nat
      BY <2>1, <3>1, SymbolsFinite
    <3> HIDE DEF c
    <3>3. RowLen * (1 + c) \in Nat
      BY <2>1, <3>2
    <3>4. groupsAt = 1 + PtrBits + RowLen * (1 + c)
      BY DEF c
    <3> QED  BY <2>1, <3>3, <3>4
  <2> HIDE DEF groupsAt, rows
  <2>3. numGroups \in Nat /\ numSelectors \in Nat
    <3>1. groupsAt + 3 \in Nat \ {0} /\ 3 \in Nat
      BY <2>2
    <3> QED  BY <1>3, <2>1, <2>2, <3>1, ReadBitsType
  <2>4. /\ used # {} /\ numGroups \in 2 .. NGroups /\ ~(numSelectors < 1) /\ ~sels.bad
    BY <1>5 DEF bad
  <2> HIDE DEF numGroups, numSelectors
  <2>5. /\ sels.p \in Nat \ {0}
        /\ sels.selectorMtf \in Seq(0 .. numGroups - 1)
        /\ Len(sels.selectorMtf) = Min({numSelectors, MaxSelectors})
    <3>1. groupsAt + 3 + SelBits \in Nat \ {0} /\ numGroups \in Nat \ {0}
      BY <2>1, <2>2, <2>3, <2>4
    <3> QED  BY <1>3, <2>3, <2>4, <3>1, ReadSelectorsType DEF sels
  <2>6. Len(sels.selectorMtf) \in 1 .. MaxSelectors
    BY <2>1, <2>3, <2>4, <2>5, MinOfTwo
  <2>7. /\ MTFDecode(sels.selectorMtf, numGroups) \in Seq(0 .. numGroups - 1)
        /\ Len(MTFDecode(sels.selectorMtf, numGroups)) = Len(sels.selectorMtf)
    <3>1. numGroups \in Nat \ {0}
      BY <2>3, <2>4
    <3> QED  BY <2>5, <3>1, MTFDecodeType
  <2>8. used \in SUBSET Bytes
    OBVIOUS
  <2> HIDE DEF used
  <2>9. /\ Cardinality(used) \in 1 .. A
        /\ SeqToUnseq(used) \in [0 .. Cardinality(used) - 1 -> Bytes]
    <3>1. /\ IsFiniteSet(used) /\ Cardinality(used) \in 0 .. A
          /\ SeqToUnseq(used) \in [0 .. Cardinality(used) - 1 -> Bytes]
      BY <2>8, AlphabetType
    <3>2. Cardinality(used) # 0
      BY <2>4, <3>1, FS_EmptySet
    <3> QED  BY <2>1, <3>1, <3>2
  <2>10. ReadBits(1, PtrBits) \in Nat
    <3>1. 1 \in Nat \ {0} /\ PtrBits \in Nat
      BY <2>1
    <3> QED  BY <1>3, <3>1, ReadBitsType
  <2>11. HeadOK(made)
    BY <2>4, <2>6, <2>7, <2>9, <2>10 DEF HeadOK, made
  <2>12. InitialList(A) \in Lists(A)
    BY <2>1, InitialListType
  <2>13. InitialList(A) \in Seq(Bytes)
    BY <2>12 DEF Lists, Bytes
  <2>14. ReaderTypeOK'
    BY <1>1, <1>2, <1>5, <2>5, <2>13 DEF ReaderTypeOK
  <2>15. NeverPanics'
    BY <1>5 DEF NeverPanics
  <2>16. HeaderRead'
    BY <1>5, <2>11, <2>12 DEF HeaderRead
  <2>17. TablesMade'
    <3>1. decode' = << >> /\ head'.numGroups = numGroups
      BY <1>1, <1>2, <1>5 DEF TablesMade, made
    <3>2. decode' \in Seq(DecodeTables(head'.nInUse + 2)) /\ Len(decode') = 0
      BY <3>1
    <3>3. Len(decode') < head'.numGroups
      BY <2>3, <2>4, <3>1, <3>2
    <3> QED  BY <1>5, <3>2, <3>3 DEF TablesMade
  <2>18. GroupWithin'
    BY <1>1, <1>2, <1>5 DEF GroupWithin
  <2> QED  BY <2>14, <2>15, <2>16, <2>17, <2>18 DEF IInv
<1> QED  BY <1>1, <1>4, <1>5

\* Every table read is one for the alphabet, and the last one starts the symbols.
LEMMA TableStep ==
    ASSUME FormatAssumption, ReaderAssumption, IInv, ReadTable
    PROVE  IInv'
<1> DEFINE size == head.nInUse + 2
           got == ReadLengths(pos, size)
           lastTable == Len(decode) + 1 = head.numGroups
           bad == got.bad \/ (lastTable /\ PastEnd(got.p))
           table == CreateDecodeTables(got.codeLens, Longest)
<1>1. /\ reader = "tables"
      /\ \/ bad /\ reader' = "error" /\ UNCHANGED << pos, decode >>
         \/ /\ ~bad
            /\ decode' = Append(decode, table) /\ pos' = got.p
            /\ reader' = IF lastTable THEN "symbols" ELSE "tables"
      /\ UNCHANGED << arrived, head, group, list, run, tt >>
  BY DEF ReadTable
<1>2. ReaderTypeOK /\ HeaderRead /\ TablesMade /\ GroupWithin
  BY DEF IInv
<1>3. BitsArrived
  BY <1>2 DEF ReaderTypeOK, BitsArrived
<1>4. CASE bad /\ reader' = "error" /\ UNCHANGED << pos, decode >>
  <2> HIDE DEF bad, got, lastTable
  <2> QED  BY <1>1, <1>2, <1>4
           DEF IInv, ReaderTypeOK, NeverPanics, HeaderRead, TablesMade, GroupWithin
<1>5. CASE ~bad /\ decode' = Append(decode, table) /\ pos' = got.p
           /\ reader' = IF lastTable THEN "symbols" ELSE "tables"
  <2>1. HeadOK(head) /\ list \in Lists(A)
    BY <1>1, <1>2 DEF HeaderRead
  <2>2. /\ head.nInUse \in Nat /\ head.numGroups \in Nat
        /\ Len(head.selector) \in Nat \ {0}
    BY <2>1, SMTT(30) DEF HeadOK, FormatAssumption
  <2>3. size \in Nat \ {0}
    BY <2>2
  <2>4. pos \in Nat \ {0} /\ size \in Nat
    BY <1>2, <2>3 DEF ReaderTypeOK
  <2> HIDE DEF size
  <2>5. /\ got.p \in Nat \ {0}
        /\ ~got.bad => got.codeLens \in [0 .. size - 1 -> 1 .. Longest]
    BY <1>3, <2>4, ReadLengthsType
  <2>6. ~got.bad
    BY <1>5
  <2> HIDE DEF got
  <2>7. table \in DecodeTables(size)
    BY <2>3, <2>5, <2>6, CreateDecodeTablesType
  <2> HIDE DEF table, bad
  <2>8. decode \in Seq(DecodeTables(size)) /\ Len(decode) < head.numGroups
    BY <1>1, <1>2 DEF TablesMade, size
  <2>9. decode' \in Seq(DecodeTables(size)) /\ Len(decode') = Len(decode) + 1
    BY <1>5, <2>7, <2>8, AppendProperties
  <2>10. Len(decode) \in Nat
    BY <2>8, LenProperties
  <2>11. head' = head /\ reader' \in {"tables", "symbols"}
    BY <1>1, <1>5
  <2>12. ReaderTypeOK'
    <3> HIDE DEF lastTable
    <3> QED  BY <1>1, <1>2, <1>5, <2>5, <2>11 DEF ReaderTypeOK
  <2>13. NeverPanics'
    BY <2>11 DEF NeverPanics
  <2>14. HeaderRead'
    BY <1>1, <2>1 DEF HeaderRead
  <2>15. TablesMade'
    <3>1. decode' \in Seq(DecodeTables(head'.nInUse + 2))
      BY <2>9, <2>11 DEF size
    <3>2. reader' = "tables" => Len(decode') < head'.numGroups
      BY <1>5, <2>2, <2>8, <2>9, <2>10, <2>11
    <3>3. reader' = "symbols" => Len(decode') = head'.numGroups
      BY <1>5, <2>9, <2>11
    <3> QED  BY <2>11, <3>1, <3>2, <3>3 DEF TablesMade
  <2>16. GroupWithin'
    <3>1. group = [no |-> -1, left |-> 0] /\ group' = group
      BY <1>1, <1>2 DEF GroupWithin
    <3> QED  BY <2>2, <2>11, <3>1 DEF GroupWithin
  <2> QED  BY <2>12, <2>13, <2>14, <2>15, <2>16 DEF IInv
<1> QED  BY <1>1, <1>4, <1>5

\* Every symbol is one of the alphabet's, so the list has an item at its position.
LEMMA SymbolStep ==
    ASSUME FormatAssumption, ReaderAssumption, IInv, ReadSymbol
    PROVE  IInv'
<1> DEFINE got == GetSymbol
           digit == got.sym \in {symRUNA, symRUNB}
           copies == [i \in 1 .. run.es + 1 |-> ByteAt(list[1])]
           ended == tt \o copies
           eob == got.sym = head.nInUse + 1
           Fails == got.fails # "no" /\ reader' = got.fails
                    /\ UNCHANGED << pos, group, list, run, tt >>
           Digit == /\ got.fails = "no" /\ digit
                    /\ IF run.N >= RunLimit THEN reader' = "error" /\ UNCHANGED run
                       ELSE run' = RunDigit(run, got.sym) /\ UNCHANGED reader
                    /\ pos' = got.p /\ group' = got.group
                    /\ UNCHANGED << list, tt >>
           Other == /\ got.fails = "no" /\ ~digit
                    /\ run' = NoRun /\ pos' = got.p /\ group' = got.group
                    /\ IF Len(ended) > MaxBlock \/ (~eob /\ Len(ended) = MaxBlock)
                       THEN reader' = "error" /\ UNCHANGED << list, tt >>
                       ELSE IF eob
                       THEN reader' = "inverse" /\ tt' = ended /\ UNCHANGED list
                       ELSE IF got.sym \notin DOMAIN list
                       THEN reader' = "panic" /\ UNCHANGED << list, tt >>
                       ELSE /\ tt' = Append(ended, ByteAt(list[got.sym]))
                            /\ list' = MoveToFront(list, got.sym - 1)
                            /\ UNCHANGED reader
<1>1. /\ reader = "symbols"
      /\ Fails \/ Digit \/ Other
      /\ UNCHANGED << arrived, head, decode >>
  BY DEF ReadSymbol
<1> HIDE DEF got
<1>2. ReaderTypeOK /\ HeaderRead /\ TablesMade /\ GroupWithin
  BY DEF IInv
<1>3. /\ BitsArrived /\ pos \in Nat \ {0} /\ group \in GroupStates
      /\ run \in Runs
      /\ list \in Seq(Bytes) /\ tt \in Seq(Bytes) /\ Len(tt) <= MaxBlock
  BY <1>2 DEF ReaderTypeOK, BitsArrived, GroupStates, Runs
<1>4. HeadOK(head) /\ list \in Lists(A)
  BY <1>1, <1>2 DEF HeaderRead
<1>5. decode \in Seq(DecodeTables(head.nInUse + 2)) /\ Len(decode) = head.numGroups
  BY <1>1, <1>2 DEF TablesMade
<1>6. group.no < Len(head.selector) /\ (group.left > 0 => group.no >= 0)
  BY <1>1, <1>2 DEF GroupWithin
<1>7. /\ got.fails \in {"no", "error"}
      /\ got.fails = "no" => /\ got.p \in Nat \ {0}
                             /\ got.group \in GroupStates
                             /\ got.group.no \in 0 .. Len(head.selector) - 1
                             /\ got.sym \in 0 .. head.nInUse + 1
  BY <1>3, <1>4, <1>5, <1>6, GetSymbolType DEF got
<1>8. NoRun \in Runs
  BY DEF Runs, NoRun, ReaderAssumption
<1>9. /\ Len(head.selector) \in Nat /\ head.nInUse \in 1 .. A /\ A \in Nat
  BY <1>4 DEF HeadOK, FormatAssumption
<1>10. Len(list) = A
  BY <1>4 DEF Lists
<1> DEFINE Typed ==
        /\ pos' \in Nat \ {0} /\ group' \in GroupStates
        /\ run' \in Runs
        /\ list' \in Seq(Bytes) /\ Len(list') = A
        /\ tt' \in Seq(Bytes) /\ Len(tt') <= MaxBlock
        /\ reader' \in {"symbols", "inverse", "error"}
        /\ reader' = "symbols" => /\ group'.no \in -1 .. Len(head.selector) - 1
                                  /\ group'.left > 0 => group'.no >= 0
<1>11. ASSUME Fails PROVE Typed
  <2>1. reader' = "error"
    BY <1>7, <1>11
  <2>2. pos' = pos /\ group' = group /\ list' = list /\ run' = run /\ tt' = tt
    BY <1>11
  <2>3. pos' \in Nat \ {0} /\ group' \in GroupStates
    BY <1>3, <2>2
  <2>4. run' \in Runs
    BY <1>3, <2>2
  <2>5. list' \in Seq(Bytes) /\ Len(list') = A
    BY <1>3, <1>10, <2>2
  <2>6. tt' \in Seq(Bytes) /\ Len(tt') <= MaxBlock
    BY <1>3, <2>2
  <2> QED  BY <2>1, <2>3, <2>4, <2>5, <2>6
<1>12. ASSUME got.fails = "no", group' = got.group
       PROVE  /\ group'.no \in -1 .. Len(head.selector) - 1
              /\ group'.left > 0 => group'.no >= 0
  BY <1>7, <1>9, <1>12, SMTT(30)
<1>13. ASSUME Digit PROVE Typed
  <2>1. reader' \in {"symbols", "error"}
    BY <1>1, <1>13
  <2>2. run' \in Runs
    <3>1. CASE run.N >= RunLimit
      BY <1>3, <1>13, <3>1
    <3>2. CASE ~(run.N >= RunLimit)
      <4>1. run.N \in Nat /\ RunLimit \in Nat
        BY <1>3 DEF Runs, ReaderAssumption
      <4>2. run.N < RunLimit
        BY <3>2, <4>1
      <4>3. run' = RunDigit(run, got.sym)
        BY <1>13, <3>2
      <4> QED  BY <1>3, <4>2, <4>3, RunDigitType
    <3> QED  BY <3>1, <3>2
  <2>3. pos' \in Nat \ {0} /\ group' \in GroupStates
    BY <1>7, <1>13
  <2>4. list' = list /\ tt' = tt
    BY <1>13
  <2>5. /\ group'.no \in -1 .. Len(head.selector) - 1
        /\ group'.left > 0 => group'.no >= 0
    BY <1>12, <1>13
  <2> QED  BY <1>3, <1>10, <2>1, <2>2, <2>3, <2>4, <2>5
<1>14. ASSUME Other PROVE Typed
  <2>1. run' \in Runs
    BY <1>8, <1>14
  <2>2. pos' \in Nat \ {0} /\ group' \in GroupStates
    BY <1>7, <1>14
  <2>3. /\ group'.no \in -1 .. Len(head.selector) - 1
        /\ group'.left > 0 => group'.no >= 0
    BY <1>12, <1>14
  <2>4. ended \in Seq(Bytes) /\ Len(ended) \in Nat
    <3>1. run.es + 1 \in Nat
      BY <1>3 DEF Runs
    <3>2. copies \in [1 .. run.es + 1 -> Bytes]
      BY <1>4, ByteAtType
    <3> HIDE DEF copies
    <3>3. copies \in Seq(Bytes)
      BY <3>1, <3>2
    <3>4. tt \o copies \in Seq(Bytes)
      BY <1>3, <3>3, ConcatProperties
    <3> QED  BY <3>4, LenProperties
  <2> HIDE DEF ended, eob, digit
  <2>5. MaxBlock \in Nat
    BY DEF ReaderAssumption
  <2>6. CASE Len(ended) > MaxBlock \/ (~eob /\ Len(ended) = MaxBlock)
    <3>1. reader' = "error" /\ list' = list /\ tt' = tt
      BY <1>14, <2>6
    <3> QED  BY <1>3, <1>10, <2>1, <2>2, <3>1
  <2>7. CASE ~(Len(ended) > MaxBlock \/ (~eob /\ Len(ended) = MaxBlock)) /\ eob
    <3>1. reader' = "inverse" /\ list' = list /\ tt' = ended
      BY <1>14, <2>7
    <3>2. Len(ended) <= MaxBlock
      BY <2>4, <2>5, <2>7
    <3> QED  BY <1>3, <1>10, <2>1, <2>2, <2>4, <3>1, <3>2
  <2>8. CASE ~(Len(ended) > MaxBlock \/ (~eob /\ Len(ended) = MaxBlock)) /\ ~eob
    <3>1. got.sym \in 1 .. head.nInUse
      <4>1. got.sym # head.nInUse + 1
        BY <2>8 DEF eob
      <4>2. got.sym # 0
        BY <1>14 DEF digit, symRUNA
      <4>3. got.sym \in 0 .. head.nInUse + 1
        BY <1>7, <1>14
      <4> QED  BY <1>9, <4>1, <4>2, <4>3
    <3>2. got.sym \in 1 .. Len(list)
      BY <1>9, <1>10, <3>1
    <3>3. got.sym \in DOMAIN list
      BY <1>3, <3>2, LenProperties
    <3> DEFINE byte == ByteAt(list[got.sym])
    <3>4. /\ tt' = Append(ended, byte) /\ list' = MoveToFront(list, got.sym - 1)
          /\ reader' = reader
      BY <1>14, <2>8, <3>3
    <3>5. byte \in Bytes
      BY <1>4, ByteAtType
    <3> HIDE DEF byte
    <3>6. tt' \in Seq(Bytes) /\ Len(tt') = Len(ended) + 1
      BY <2>4, <3>4, <3>5, AppendProperties
    <3>7. Len(tt') <= MaxBlock
      BY <2>4, <2>5, <2>8, <3>6
    <3>8. list' \in Seq(Bytes) /\ Len(list') = A
      <4>1. got.sym - 1 \in 0 .. Len(list) - 1
        BY <1>9, <1>10, <3>2
      <4> QED  BY <1>3, <1>10, <3>4, <4>1, MoveToFrontItems
    <3> QED  BY <1>1, <2>1, <2>2, <2>3, <3>4, <3>6, <3>7, <3>8
  <2> QED  BY <2>6, <2>7, <2>8
<1>15. Typed
  BY <1>1, <1>11, <1>13, <1>14
<1>16. arrived' = arrived /\ head' = head /\ decode' = decode
  BY <1>1
<1> HIDE DEF Fails, Digit, Other
<1>17. ReaderTypeOK'
  BY <1>2, <1>15, <1>16 DEF ReaderTypeOK, GroupStates, Runs
<1>18. NeverPanics'
  BY <1>15 DEF NeverPanics
<1>19. HeaderRead'
  <2>1. list' \in Lists(A)
    BY <1>15 DEF Lists, Bytes
  <2> QED  BY <1>4, <1>16, <2>1 DEF HeaderRead
<1>20. TablesMade'
  BY <1>5, <1>15, <1>16 DEF TablesMade
<1>21. GroupWithin'
  <2>1. reader' = "symbols" => group'.no < Len(head'.selector)
    BY <1>9, <1>15, <1>16, SMTT(30)
  <2> QED  BY <1>15, <2>1 DEF GroupWithin
<1> QED  BY <1>17, <1>18, <1>19, <1>20, <1>21 DEF IInv

\* The walk through the sorted bytes starts where it can and stays in the block.
LEMMA InverseStep ==
    ASSUME FormatAssumption, ReaderAssumption, IInv, Invert
    PROVE  IInv'
<1>1. ReaderTypeOK /\ HeaderRead /\ TablesMade /\ GroupWithin
  BY DEF IInv
<1>2. /\ reader = "inverse" /\ reader' \in {"error", "ok"}
      /\ UNCHANGED << arrived, pos, head, decode, group, list, run >>
  BY DEF Invert
<1>3. tt \in Seq(Bytes) /\ Len(tt) <= MaxBlock /\ Len(tt) \in Nat
  BY <1>1 DEF ReaderTypeOK
<1>4. tt' \in Seq(Bytes) /\ Len(tt') <= MaxBlock
  <2>1. CASE tt' = tt
    BY <1>3, <2>1
  <2>2. CASE head.origPtr < Len(tt) /\ tt' = RotationFrom(head.origPtr)
    <3>1. head.origPtr \in Nat
      BY <1>1, <1>2 DEF HeaderRead, HeadOK
    <3>2. head.origPtr \in 0 .. Len(tt) - 1
      BY <1>3, <2>2, <3>1
    <3>3. RotationFrom(head.origPtr) \in Seq(Bytes)
          /\ Len(RotationFrom(head.origPtr)) = Len(tt)
      BY <1>3, <3>2, RotationType
    <3> QED  BY <1>3, <2>2, <3>3
  <2> QED  BY <2>1, <2>2 DEF Invert
<1>5. ReaderTypeOK'
  BY <1>1, <1>2, <1>4 DEF ReaderTypeOK
<1>6. NeverPanics' /\ HeaderRead' /\ TablesMade' /\ GroupWithin'
  BY <1>2 DEF NeverPanics, HeaderRead, TablesMade, GroupWithin
<1> QED  BY <1>5, <1>6 DEF IInv

\* The invariant holds whatever arrives: each step of readBlock keeps it.
THEOREM Invariance == ReaderSpec => []IInv
<1>1. ReaderInit => IInv
  BY FormatAssumption, ReaderAssumption, Started
<1>2. IInv /\ [ReaderStep]_readerVars => IInv'
  <2> SUFFICES ASSUME IInv, [ReaderStep]_readerVars PROVE IInv'
    OBVIOUS
  <2> USE FormatAssumption, ReaderAssumption
  <2>1. CASE ReadHeader
    BY <2>1, HeaderStep
  <2>2. CASE ReadTable
    BY <2>2, TableStep
  <2>3. CASE ReadSymbol
    BY <2>3, SymbolStep
  <2>4. CASE Invert
    BY <2>4, InverseStep
  <2>5. CASE UNCHANGED readerVars
    BY <2>5 DEF readerVars, stateVars, IInv, ReaderTypeOK, NeverPanics, HeaderRead,
                TablesMade, GroupWithin
  <2> QED  BY <2>1, <2>2, <2>3, <2>4, <2>5 DEF ReaderStep
<1> QED  BY <1>1, <1>2, PTL DEF ReaderSpec

\* The reader's fields stay what readBlock takes them for: positions within the input's
\* numbers, a group that has a selector's room, a block that fits into tt
\* (reader.go:321-422).
THEOREM TypeCorrect == ReaderSpec => []ReaderTypeOK
<1>1. IInv => ReaderTypeOK
  BY DEF IInv
<1> QED  BY <1>1, Invariance, PTL

\* No bits make readBlock use an index that is out of range, for blocks, alphabets,
\* tables and groups of every size (reader.go:327-362, 396).
THEOREM DamageNeverPanics == ReaderSpec => []NeverPanics
<1>1. IInv => NeverPanics
  BY DEF IInv
<1> QED  BY <1>1, Invariance, PTL
-----------------------------------------------------------------------------
(* The codes are undone.                                                    *)

\* The symbols that come before i in the order of their codes.
Before(lens, i) == {j \in DOMAIN lens : lens[j] < lens[i] \/ (lens[j] = lens[i] /\ j < i)}
Shorter(lens, l) == {v \in DOMAIN lens : lens[v] < l}

\* In the order of their codes every symbol stands where so many come before it.
LEMMA ByLengthPlace ==
    ASSUME NEW size \in Nat \ {0}, NEW lens \in [0 .. size - 1 -> 1 .. Longest],
           NEW v \in 0 .. size - 1
    PROVE  ByLength(lens)[Cardinality(Before(lens, v))] = v
<1> DEFINE S == 0 .. size - 1
           R == {x \in S \X S : \/ lens[x[1]] < lens[x[2]]
                                \/ lens[x[1]] = lens[x[2]] /\ x[1] < x[2]}
           before(i) == {j \in S : lens[j] < lens[i] \/ (lens[j] = lens[i] /\ j < i)}
<1>1. IsFiniteSet(S) /\ Cardinality(S) = size
  <2>1. 0 \in Int /\ size - 1 \in Int /\ ~(0 > size - 1) /\ (size - 1) - 0 + 1 = size
    OBVIOUS
  <2> QED  BY <2>1, FS_Interval
<1>2. \A i \in S : lens[i] \in Int /\ i \in Int
  OBVIOUS
<1>3. \A j, i \in S : << j, i >> \in R
                        <=> lens[j] < lens[i] \/ (lens[j] = lens[i] /\ j < i)
  OBVIOUS
<1>4. DOMAIN lens = S
  OBVIOUS
<1> HIDE DEF R
<1>5. StrictlyOrders(R, S)
  BY <1>2, <1>3 DEF StrictlyOrders
<1>6. \A i \in S : Cardinality(before(i)) = Rank(R, S, i)
  <2>1. \A i \in S : before(i) = {j \in S : << j, i >> \in R}
    BY <1>3
  <2> HIDE DEF before
  <2> QED  BY <2>1 DEF Rank
<1>7. v \in S
  OBVIOUS
<1> DEFINE k == Cardinality(before(v))
<1>8. k \in 0 .. Cardinality(S) - 1
  <2>1. before(v) \in SUBSET S /\ v \notin before(v)
    OBVIOUS
  <2> HIDE DEF before, S
  <2>2. IsFiniteSet(before(v)) /\ Cardinality(before(v)) <= Cardinality(S)
        /\ Cardinality(before(v)) # Cardinality(S)
    BY <1>1, <1>7, <2>1, FS_Subset
  <2>3. Cardinality(before(v)) \in Nat /\ Cardinality(S) \in Nat
    BY <1>1, <2>2, FS_CardinalityType
  <2> QED  BY <2>2, <2>3
<1>9. ByLength(lens) = [c \in 0 .. Cardinality(S) - 1 |->
                           CHOOSE i \in S : c = Cardinality(before(i))]
  BY <1>4 DEF ByLength, InOrder
<1>10. Before(lens, v) = before(v)
  BY <1>4 DEF Before
<1> HIDE DEF before, S, R
<1>11. ByLength(lens)[k] = CHOOSE i \in S : k = Cardinality(before(i))
  BY <1>8, <1>9
<1> DEFINE w == CHOOSE i \in S : k = Cardinality(before(i))
<1>12. w \in S /\ k = Cardinality(before(w))
  BY <1>7
<1>13. Rank(R, S, w) = Rank(R, S, v)
  BY <1>6, <1>7, <1>12
<1>14. w = v
  <2> HIDE DEF w
  <2> QED  BY <1>1, <1>5, <1>7, <1>12, <1>13, RankDecides
<1> QED  BY <1>10, <1>11, <1>14

LEMMA SomeLength ==
    ASSUME ReaderAssumption,
           NEW size \in Nat \ {0}, NEW lens \in [0 .. size - 1 -> 1 .. Longest],
           NEW v \in 0 .. size - 1
    PROVE  lens[v] \in MinLength(lens) .. MaxLength(lens)
<1> DEFINE S == {lens[u] : u \in DOMAIN lens}
<1>1. S \in SUBSET (1 .. Longest) /\ lens[v] \in S
  OBVIOUS
<1>2. S \in SUBSET Nat /\ S \in SUBSET (0 .. Longest) /\ Longest \in Nat /\ S # {}
  BY <1>1 DEF ReaderAssumption
<1>3. MinLength(lens) = Min(S) /\ MaxLength(lens) = Max(S)
  BY DEF MinLength, MaxLength
<1> HIDE DEF S
<1>4. Min(S) \in S /\ Min(S) <= lens[v]
  BY <1>1, <1>2, MinIsLeast
<1>5. Max(S) \in S /\ lens[v] <= Max(S)
  BY <1>1, <1>2, MaxIsGreatest
<1> QED  BY <1>1, <1>2, <1>3, <1>4, <1>5

\* A symbol's code is that of the first of its length and as many more as there are
\* smaller symbols of that length.
LEMMA CodeRange ==
    ASSUME ReaderAssumption,
           NEW size \in Nat \ {0}, NEW lens \in [0 .. size - 1 -> 1 .. Longest],
           NEW v \in 0 .. size - 1
    PROVE  LET L == lens[v]
               rank == Cardinality({u \in OfLength(lens, L) : u < v})
           IN  /\ rank \in Nat /\ rank < Cardinality(OfLength(lens, L))
               /\ AssignCodes(lens)[v] = Vec(lens, L) + rank
               /\ Cardinality(Before(lens, v)) = Cardinality(Shorter(lens, L)) + rank
<1> DEFINE L == lens[v]
           same == OfLength(lens, L)
           less == {u \in same : u < v}
           shorter == Shorter(lens, L)
<1>1. DOMAIN lens = 0 .. size - 1
  OBVIOUS
<1>2. same \in SUBSET (0 .. size - 1) /\ shorter \in SUBSET (0 .. size - 1)
  BY <1>1 DEF OfLength, Shorter
<1>3. IsFiniteSet(same) /\ IsFiniteSet(shorter)
  <2>1. 0 \in Int /\ size - 1 \in Int
    OBVIOUS
  <2>2. IsFiniteSet(0 .. size - 1)
    BY <2>1, FS_Interval
  <2> HIDE DEF same, shorter
  <2> QED  BY <1>2, <2>2, FS_Subset
<1>4. less \in SUBSET same /\ v \in same /\ v \notin less
  BY <1>1 DEF OfLength
<1>5. less \cap shorter = {} /\ Before(lens, v) = shorter \cup less
  BY <1>1 DEF OfLength, Shorter, Before
<1>6. AssignCodes(lens)[v] = Vec(lens, L) + Cardinality(less)
  BY <1>1 DEF AssignCodes
<1> HIDE DEF same, less, shorter
<1>7. IsFiniteSet(less) /\ Cardinality(less) <= Cardinality(same)
      /\ Cardinality(less) # Cardinality(same)
  BY <1>3, <1>4, FS_Subset
<1>8. Cardinality(less) \in Nat /\ Cardinality(same) \in Nat /\ Cardinality(shorter) \in Nat
  BY <1>3, <1>7, FS_CardinalityType
<1>9. Cardinality(shorter \cup less)
      = Cardinality(shorter) + Cardinality(less) - Cardinality(shorter \cap less)
  BY <1>3, <1>7, FS_Union
<1>10. Cardinality(shorter \cap less) = 0
  <2>1. shorter \cap less = {}
    BY <1>5
  <2> QED  BY <2>1, FS_EmptySet
<1>11. Cardinality(Before(lens, v)) = Cardinality(shorter) + Cardinality(less)
  BY <1>5, <1>8, <1>9, <1>10
<1> QED  BY <1>6, <1>7, <1>8, <1>11 DEF same, less, shorter

\* The beginning of a code is beyond the codes of its length, as the longer codes go
\* on where the shorter ones end.
LEMMA BeginningIsBeyond ==
    ASSUME BitsArrived, ReaderAssumption,
           NEW size \in Nat \ {0}, NEW lens \in [0 .. size - 1 -> 1 .. Longest],
           NEW p \in Nat \ {0}, NEW l \in Nat, MinLength(lens) <= l,
           ReadBits(p, l) >= Vec(lens, l)
    PROVE  \A k \in MinLength(lens) .. l - 1 :
               ReadBits(p, k) >= Vec(lens, k) + Cardinality(OfLength(lens, k))
<1> DEFINE least == MinLength(lens)
           Beyond(k) == ReadBits(p, k) >= Vec(lens, k) + Cardinality(OfLength(lens, k))
           T == {d \in Nat : d < l - least => Beyond(l - 1 - d)}
<1>1. least \in Nat
  BY LengthRange
<1>2. \A k \in Nat : /\ ReadBits(p, k) \in Nat /\ Vec(lens, k) \in Nat
                     /\ Cardinality(OfLength(lens, k)) \in Nat
  <2> SUFFICES ASSUME NEW k \in Nat
               PROVE  /\ ReadBits(p, k) \in Nat /\ Vec(lens, k) \in Nat
                      /\ Cardinality(OfLength(lens, k)) \in Nat
    OBVIOUS
  <2>1. OfLength(lens, k) \in SUBSET (0 .. size - 1)
    BY DEF OfLength
  <2> QED  BY <2>1, SymbolsFinite, ReadBitsType, VecType
<1>3. ASSUME NEW k \in Nat, k >= least, ReadBits(p, k + 1) >= Vec(lens, k + 1)
      PROVE  Beyond(k)
  <2>1. Vec(lens, k + 1) = 2 * (Vec(lens, k) + Cardinality(OfLength(lens, k)))
    <3>1. k + 1 > MinLength(lens)
      BY <1>1, <1>3
    <3> QED  BY <3>1, VecSteps
  <2>2. ReadBits(p, k + 1) = 2 * ReadBits(p, k) + ReadBit(p + k)
    BY ReadBitsNext
  <2>3. ReadBit(p + k) \in {0, 1}
    <3>1. p + k \in Nat \ {0}
      OBVIOUS
    <3> QED  BY <3>1, ReadBitType
  <2>4. /\ ReadBits(p, k) \in Nat /\ Vec(lens, k) \in Nat
        /\ Cardinality(OfLength(lens, k)) \in Nat
    BY <1>2
  <2>5. 2 * ReadBits(p, k) + ReadBit(p + k)
        >= 2 * (Vec(lens, k) + Cardinality(OfLength(lens, k)))
    BY <1>3, <2>1, <2>2
  <2> QED  BY <2>3, <2>4, <2>5
<1>4. 0 \in T
  <2> SUFFICES ASSUME 0 < l - least PROVE Beyond(l - 1 - 0)
    OBVIOUS
  <2>1. l - 1 \in Nat /\ l - 1 >= least /\ (l - 1) + 1 = l /\ l - 1 - 0 = l - 1
    BY <1>1
  <2>2. Beyond(l - 1)
    <3> HIDE DEF Beyond, least
    <3> QED  BY <1>3, <2>1
  <2> QED  BY <2>1, <2>2
<1>5. ASSUME NEW d \in Nat, d \in T PROVE d + 1 \in T
  <2> SUFFICES ASSUME d + 1 < l - least PROVE Beyond(l - 1 - (d + 1))
    OBVIOUS
  <2> DEFINE k == l - 1 - (d + 1)
  <2>1. k \in Nat /\ k >= least /\ k + 1 = l - 1 - d /\ d < l - least /\ k + 1 \in Nat
    BY <1>1
  <2>2. Beyond(k + 1)
    BY <1>5, <2>1
  <2> HIDE DEF k
  <2>3. ReadBits(p, k + 1) >= Vec(lens, k + 1)
    <3>1. /\ ReadBits(p, k + 1) \in Nat /\ Vec(lens, k + 1) \in Nat
          /\ Cardinality(OfLength(lens, k + 1)) \in Nat
      BY <1>2, <2>1
    <3> QED  BY <2>2, <3>1
  <2>4. Beyond(k)
    <3> HIDE DEF Beyond, least
    <3> QED  BY <1>3, <2>1, <2>3
  <2> QED  BY <2>4 DEF k
<1>6. T = Nat
  <2>1. T \subseteq Nat
    OBVIOUS
  <2> HIDE DEF T
  <2> QED  BY <1>4, <1>5, <2>1, Induction
<1> SUFFICES ASSUME NEW k \in least .. l - 1 PROVE Beyond(k)
  OBVIOUS
<1>7. l - 1 - k \in Nat /\ l - 1 - k < l - least /\ l - 1 - (l - 1 - k) = k
  BY <1>1
<1> HIDE DEF Beyond, least
<1> QED  BY <1>6, <1>7

\* The reader finds the code's end behind zn bits and the symbol in the table.
CodeFound(size, table, p, zn, sym) ==
    /\ CodeEnd(table, p) = zn
    /\ ReadBits(p, zn) - table.base[zn] \in 0 .. size - 1
    /\ table.perm[ReadBits(p, zn) - table.base[zn]] = sym

\* Where the code of a symbol stands in the stream the reader finds its end and, in
\* the decode table, the symbol: for all code lengths, of whatever number of symbols
\* (huffman.go:157-205, reader.go:337-362).
THEOREM CodesDecode ==
    ASSUME BitsArrived, ReaderAssumption,
           NEW size \in Nat \ {0}, NEW lens \in [0 .. size - 1 -> 1 .. Longest],
           NEW v \in 0 .. size - 1, NEW p \in Nat \ {0},
           ReadBits(p, lens[v]) = AssignCodes(lens)[v]
    PROVE  CodeFound(size, CreateDecodeTables(lens, Longest), p, lens[v], v)
<1> DEFINE L == lens[v]
           least == MinLength(lens)
           most == MaxLength(lens)
           Of(k) == Cardinality(OfLength(lens, k))
           rank == Cardinality({u \in OfLength(lens, L) : u < v})
           shorter(k) == Cardinality(Shorter(lens, k))
           limit == [i \in 1 .. Longest + 2 |->
                        IF i \notin MinLength(lens) .. MaxLength(lens) THEN 0
                        ELSE Vec(lens, i) + Cardinality(OfLength(lens, i)) - 1]
           base == [i \in 1 .. Longest + 2 |->
                        IF i \in MinLength(lens) + 1 .. MaxLength(lens)
                        THEN (limit[i - 1] + 1) * 2 - Cardinality({u \in DOMAIN lens : lens[u] < i})
                        ELSE Cardinality({u \in DOMAIN lens : lens[u] < i})]
           table == CreateDecodeTables(lens, Longest)
<1>1. L \in 1 .. Longest /\ least \in 1 .. Longest /\ most \in 1 .. Longest
      /\ L \in least .. most /\ Longest \in Nat
  BY LengthRange, SomeLength DEF ReaderAssumption
<1>2. /\ rank \in Nat /\ rank < Of(L)
      /\ ReadBits(p, L) = Vec(lens, L) + rank
      /\ Cardinality(Before(lens, v)) = shorter(L) + rank
  BY CodeRange, SMTT(30)
<1>3. \A k \in Nat : /\ ReadBits(p, k) \in Nat /\ Vec(lens, k) \in Nat
                     /\ Of(k) \in Nat /\ shorter(k) \in Nat
  <2> SUFFICES ASSUME NEW k \in Nat
               PROVE  /\ ReadBits(p, k) \in Nat /\ Vec(lens, k) \in Nat
                      /\ Of(k) \in Nat /\ shorter(k) \in Nat
    OBVIOUS
  <2>1. OfLength(lens, k) \in SUBSET (0 .. size - 1)
        /\ Shorter(lens, k) \in SUBSET (0 .. size - 1)
    BY DEF OfLength, Shorter
  <2> QED  BY <2>1, SymbolsFinite, ReadBitsType, VecType
<1>4. table.minLen = least /\ table.limit = limit /\ table.base = base
      /\ table.perm = ByLength(lens)
  BY DEF CreateDecodeTables
<1>5. \A k \in least .. most : limit[k] = Vec(lens, k) + Of(k) - 1
  BY <1>1
<1> HIDE DEF limit, table, rank
<1>6. \A k \in least .. L - 1 : ReadBits(p, k) >= Vec(lens, k) + Of(k)
  <2>1. L \in Nat /\ MinLength(lens) <= L /\ ReadBits(p, L) >= Vec(lens, L)
    <3>1. L \in Nat
      BY <1>1
    <3> HIDE DEF L
    <3>2. ReadBits(p, L) \in Nat /\ Vec(lens, L) \in Nat
      BY <1>3, <3>1
    <3> QED  BY <1>1, <1>2, <3>1, <3>2
  <2> HIDE DEF L
  <2> QED  BY <2>1, BeginningIsBeyond
<1> HIDE DEF least, most, L
<1>7. CodeEnd(table, p) = L
  <2> DEFINE ends == {zn \in least .. Longest + 1 :
                         zn > Longest \/ ReadBits(p, zn) <= limit[zn]}
  <2>1. L \in ends
    <3>1. limit[L] = Vec(lens, L) + Of(L) - 1 /\ L \in Nat
      BY <1>1, <1>5
    <3>2. Vec(lens, L) \in Nat /\ Of(L) \in Nat
      BY <1>3, <3>1
    <3> HIDE DEF Of
    <3>3. ReadBits(p, L) <= limit[L]
      BY <1>2, <3>1, <3>2
    <3> QED  BY <1>1, <3>3
  <2>2. ASSUME NEW k \in least .. L - 1 PROVE k \notin ends
    <3>1. k \in Nat /\ k \in least .. most /\ ~(k > Longest)
      BY <1>1
    <3>2. limit[k] = Vec(lens, k) + Of(k) - 1 /\ ReadBits(p, k) >= Vec(lens, k) + Of(k)
      BY <1>5, <1>6, <3>1
    <3>3. ReadBits(p, k) \in Nat /\ Vec(lens, k) \in Nat /\ Of(k) \in Nat
      BY <1>3, <3>1
    <3> HIDE DEF Of
    <3>4. ~(ReadBits(p, k) <= limit[k])
      BY <3>2, <3>3
    <3> QED  BY <3>1, <3>4
  <2>3. ends \in SUBSET Nat /\ ends \in SUBSET (least .. Longest + 1)
    BY <1>1
  <2>4. CodeEnd(table, p) = Min(ends)
    BY <1>4 DEF CodeEnd
  <2> HIDE DEF ends
  <2>5. Min(ends) \in ends /\ Min(ends) <= L
    BY <2>1, <2>3, MinIsLeast
  <2>6. Min(ends) \in least .. Longest + 1
    BY <2>3, <2>5
  <2>7. ~(Min(ends) \in least .. L - 1)
    BY <2>2, <2>5
  <2>8. Min(ends) = L
    BY <1>1, <2>5, <2>6, <2>7
  <2> QED  BY <2>4, <2>8
<1>8. ReadBits(p, L) - base[L] = Cardinality(Before(lens, v))
  <2>1. shorter(L) \in Nat /\ Vec(lens, L) \in Nat
    <3>1. L \in Nat
      BY <1>1
    <3> HIDE DEF shorter
    <3> QED  BY <1>3, <3>1
  <2>2. shorter(L) = Cardinality({u \in DOMAIN lens : lens[u] < L})
    BY DEF Shorter
  <2>3. CASE L = least
    <3>1. Vec(lens, L) = 0
      BY <1>1, <2>3, VecSteps DEF least
    <3>2. shorter(L) = 0
      <4>1. Shorter(lens, L) = {}
        <5> SUFFICES ASSUME NEW u \in DOMAIN lens, lens[u] < L PROVE FALSE
          BY DEF Shorter
        <5>1. lens[u] \in least .. most
          BY SomeLength DEF least, most
        <5> QED  BY <1>1, <2>3, <5>1
      <4> QED  BY <4>1, FS_EmptySet
    <3>3. base[L] = shorter(L)
      BY <1>1, <2>2, <2>3 DEF least
    <3> HIDE DEF shorter
    <3> QED  BY <1>2, <3>1, <3>2, <3>3
  <2>4. CASE L # least
    <3>1. L - 1 \in Nat /\ L - 1 \in least .. most /\ (L - 1) + 1 = L
          /\ L \in least + 1 .. most /\ L \in 1 .. Longest + 2
      BY <1>1, <2>4
    <3>2. limit[L - 1] = Vec(lens, L - 1) + Of(L - 1) - 1
      BY <1>5, <3>1
    <3>3. Vec(lens, L) = 2 * (Vec(lens, L - 1) + Of(L - 1))
      <4>1. (L - 1) + 1 > MinLength(lens)
        BY <1>1, <2>4, <3>1 DEF least
      <4>2. Vec(lens, (L - 1) + 1) = 2 * (Vec(lens, L - 1) + Of(L - 1))
        BY <3>1, <4>1, VecSteps
      <4> QED  BY <3>1, <4>2
    <3>4. base[L] = (limit[L - 1] + 1) * 2 - shorter(L)
      BY <2>2, <3>1 DEF least, most
    <3>5. Vec(lens, L - 1) \in Nat /\ Of(L - 1) \in Nat
      BY <1>3, <3>1
    <3> HIDE DEF shorter, Of, base
    <3>6. base[L] = Vec(lens, L) - shorter(L)
      BY <2>1, <3>2, <3>3, <3>4, <3>5
    <3> QED  BY <1>2, <2>1, <3>6
  <2> QED  BY <2>3, <2>4
<1>9. Cardinality(Before(lens, v)) \in 0 .. size - 1
  <2>1. Before(lens, v) \in SUBSET (0 .. size - 1) /\ v \notin Before(lens, v)
    BY DEF Before
  <2>2. 0 \in Int /\ size - 1 \in Int /\ ~(0 > size - 1) /\ (size - 1) - 0 + 1 = size
    OBVIOUS
  <2>3. IsFiniteSet(0 .. size - 1) /\ Cardinality(0 .. size - 1) = size
    BY <2>2, FS_Interval
  <2>4. /\ IsFiniteSet(Before(lens, v)) /\ Cardinality(Before(lens, v)) <= size
        /\ Cardinality(Before(lens, v)) # size
    BY <2>1, <2>3, FS_Subset
  <2>5. Cardinality(Before(lens, v)) \in Nat
    BY <2>4, FS_CardinalityType
  <2> QED  BY <2>4, <2>5
<1>10. ByLength(lens)[Cardinality(Before(lens, v))] = v
  BY ByLengthPlace
<1>11. /\ CodeEnd(table, p) = L
       /\ ReadBits(p, CodeEnd(table, p)) - table.base[CodeEnd(table, p)]
          = Cardinality(Before(lens, v))
  BY <1>4, <1>7, <1>8
<1>12. table.perm[ReadBits(p, CodeEnd(table, p)) - table.base[CodeEnd(table, p)]] = v
  BY <1>4, <1>10, <1>11
<1> HIDE DEF base, limit
<1> QED  BY <1>7, <1>9, <1>11, <1>12 DEF CodeFound, table, L

-----------------------------------------------------------------------------
(* The block sort is undone.                                               *)

LEMMA Wrapped ==
    ASSUME NEW n \in Nat \ {0}, NEW a \in 0 .. 2 * n - 1
    PROVE  a % n = IF a < n THEN a ELSE a - n
OBVIOUS

Words(n) == [0 .. n - 1 -> Bytes]

\* Where the words w and z first differ, if they do.
LEMMA FirstDifference ==
    ASSUME NEW n \in Nat, NEW w \in Words(n), NEW z \in Words(n), w # z
    PROVE  LET m == Min({k \in DOMAIN w : w[k] # z[k]})
           IN  /\ m \in 0 .. n - 1 /\ w[m] # z[m]
               /\ \A k \in 0 .. m - 1 : w[k] = z[k]
<1> DEFINE diff == {k \in DOMAIN w : w[k] # z[k]}
<1>1. DOMAIN w = 0 .. n - 1 /\ DOMAIN z = 0 .. n - 1
  BY DEF Words
<1>2. diff # {}
  <2>1. w = [k \in 0 .. n - 1 |-> w[k]] /\ z = [k \in 0 .. n - 1 |-> z[k]]
    BY DEF Words
  <2> QED  BY <1>1, <2>1
<1>3. diff \in SUBSET Nat /\ diff \in SUBSET (0 .. n - 1)
  BY <1>1
<1> DEFINE m == Min(diff)
<1>4. m \in diff /\ \A k \in diff : m <= k
  <2> HIDE DEF diff
  <2> QED  BY <1>2, <1>3, MinIsLeast
<1>5. ASSUME NEW k \in 0 .. m - 1 PROVE w[k] = z[k]
  <2>1. m \in 0 .. n - 1
    BY <1>3, <1>4
  <2> HIDE DEF m
  <2>2. k \in 0 .. n - 1 /\ ~(m <= k)
    BY <2>1
  <2>3. k \notin diff
    BY <1>4, <2>2
  <2> QED  BY <1>1, <2>2, <2>3
<1> HIDE DEF m
<1> QED  BY <1>1, <1>3, <1>4, <1>5 DEF m

\* A word does not come after another if they are the same or the first letter in
\* which they differ is smaller.
LEMMA OrderOfWords ==
    ASSUME NEW n \in Nat, NEW w \in Words(n), NEW z \in Words(n)
    PROVE  NotAfter(w, z) <=> \/ w = z
                              \/ \E m \in 0 .. n - 1 : /\ w[m] < z[m]
                                                       /\ \A k \in 0 .. m - 1 : w[k] = z[k]
<1> DEFINE diff == {k \in DOMAIN w : w[k] # z[k]}
           m == Min(diff)
<1>1. DOMAIN w = 0 .. n - 1 /\ \A k \in 0 .. n - 1 : w[k] \in Int /\ z[k] \in Int
  BY DEF Words, Bytes
<1>2. CASE w = z
  BY <1>2 DEF NotAfter
<1>3. CASE w # z
  <2>1. /\ m \in 0 .. n - 1 /\ w[m] # z[m]
        /\ \A k \in 0 .. m - 1 : w[k] = z[k]
    BY <1>3, FirstDifference
  <2>2. m \in diff
    BY <1>1, <2>1
  <2>3. NotAfter(w, z) <=> w[m] < z[m]
    <3> HIDE DEF diff
    <3>1. diff # {}
      BY <2>2
    <3> QED  BY <3>1 DEF NotAfter, diff
  <2> HIDE DEF m
  <2>4. ASSUME NEW q \in 0 .. n - 1, w[q] < z[q], \A k \in 0 .. q - 1 : w[k] = z[k]
        PROVE  q = m
    <3>1. ~(q < m)
      <4>1. ASSUME q < m PROVE FALSE
        <5>1. q \in 0 .. m - 1
          BY <2>1, <4>1
        <5> QED  BY <1>1, <2>1, <2>4, <5>1
      <4> QED  BY <4>1
    <3>2. ~(m < q)
      <4>1. ASSUME m < q PROVE FALSE
        <5>1. m \in 0 .. q - 1
          BY <2>1, <4>1
        <5> QED  BY <2>1, <2>4, <5>1
      <4> QED  BY <4>1
    <3> QED  BY <2>1, <3>1, <3>2
  <2> QED  BY <1>3, <2>1, <2>3, <2>4
<1> QED  BY <1>2, <1>3

LEMMA WordsAgree ==
    ASSUME NEW n \in Nat, NEW w \in Words(n), NEW z \in Words(n),
           NotAfter(w, z), NotAfter(z, w)
    PROVE  w = z
<1>1. \A k \in 0 .. n - 1 : w[k] \in Int /\ z[k] \in Int
  BY DEF Words, Bytes
<1> SUFFICES ASSUME w # z PROVE FALSE
  OBVIOUS
<1>2. PICK m \in 0 .. n - 1 : w[m] < z[m] /\ \A k \in 0 .. m - 1 : w[k] = z[k]
  BY OrderOfWords
<1>3. PICK q \in 0 .. n - 1 : z[q] < w[q] /\ \A k \in 0 .. q - 1 : z[k] = w[k]
  BY OrderOfWords
<1>4. m = q \/ m \in 0 .. q - 1 \/ q \in 0 .. m - 1
  OBVIOUS
<1> QED  BY <1>1, <1>2, <1>3, <1>4

LEMMA WordsInTurn ==
    ASSUME NEW n \in Nat, NEW w \in Words(n), NEW z \in Words(n), NEW y \in Words(n),
           NotAfter(w, z), NotAfter(z, y)
    PROVE  NotAfter(w, y)
<1>1. \A k \in 0 .. n - 1 : w[k] \in Int /\ z[k] \in Int /\ y[k] \in Int
  BY DEF Words, Bytes
<1>2. CASE w = z \/ z = y
  BY <1>2
<1>3. CASE w # z /\ z # y
  <2>1. PICK m \in 0 .. n - 1 : w[m] < z[m] /\ \A k \in 0 .. m - 1 : w[k] = z[k]
    BY <1>3, OrderOfWords
  <2>2. PICK q \in 0 .. n - 1 : z[q] < y[q] /\ \A k \in 0 .. q - 1 : z[k] = y[k]
    BY <1>3, OrderOfWords
  <2> DEFINE f == IF m <= q THEN m ELSE q
  <2>3. f \in 0 .. n - 1
    OBVIOUS
  <2>4. \A k \in 0 .. f - 1 : k \in 0 .. m - 1 /\ k \in 0 .. q - 1
    OBVIOUS
  <2>5. \A k \in 0 .. f - 1 : w[k] = y[k]
    <3> HIDE DEF f
    <3> QED  BY <2>1, <2>2, <2>4
  <2>6. w[f] < y[f]
    <3>1. CASE m = q
      BY <1>1, <2>1, <2>2, <3>1
    <3>2. CASE m < q
      <4>1. m \in 0 .. q - 1 /\ f = m
        BY <3>2
      <4>2. w[m] < z[m] /\ z[m] = y[m]
        BY <2>1, <2>2, <4>1
      <4> QED  BY <4>1, <4>2
    <3>3. CASE q < m
      <4>1. q \in 0 .. m - 1 /\ f = q
        BY <3>3
      <4>2. w[q] = z[q] /\ z[q] < y[q]
        BY <2>1, <2>2, <4>1
      <4> QED  BY <4>1, <4>2
    <3>4. m = q \/ m < q \/ q < m
      OBVIOUS
    <3> QED  BY <3>1, <3>2, <3>3, <3>4
  <2> HIDE DEF f
  <2> QED  BY <2>3, <2>5, <2>6, OrderOfWords
<1> QED  BY <1>2, <1>3

LEMMA WordsCompare ==
    ASSUME NEW n \in Nat, NEW w \in Words(n), NEW z \in Words(n), ~NotAfter(w, z)
    PROVE  NotAfter(z, w)
<1>1. \A k \in 0 .. n - 1 : w[k] \in Int /\ z[k] \in Int
  BY DEF Words, Bytes
<1>2. w # z
  BY OrderOfWords
<1> DEFINE m == Min({k \in DOMAIN w : w[k] # z[k]})
<1>3. m \in 0 .. n - 1 /\ w[m] # z[m] /\ \A k \in 0 .. m - 1 : w[k] = z[k]
  BY <1>2, FirstDifference
<1> HIDE DEF m
<1>4. ~(w[m] < z[m])
  BY <1>3, OrderOfWords
<1>5. z[m] < w[m]
  BY <1>1, <1>3, <1>4
<1> QED  BY <1>3, <1>5, OrderOfWords

\* The words f lists are in order, and t takes no place twice.
Ordered(n, f) == \A i \in 0 .. n - 1 : \A j \in i .. n - 1 : NotAfter(f[i], f[j])
NoneTwice(n, t) == \A i, j \in 0 .. n - 1 : i # j => t[i] # t[j]

\* What is in order from one to the next is in order.
LEMMA InOrderThroughout ==
    ASSUME NEW n \in Nat, NEW m \in Nat, NEW f \in [0 .. n - 1 -> Words(m)],
           \A i \in 1 .. n - 1 : NotAfter(f[i - 1], f[i])
    PROVE  Ordered(n, f)
<1> DEFINE T == {d \in Nat : \A i \in 0 .. n - 1 : i + d <= n - 1 => NotAfter(f[i], f[i + d])}
<1>1. 0 \in T
  <2> SUFFICES ASSUME NEW i \in 0 .. n - 1 PROVE NotAfter(f[i], f[i + 0])
    OBVIOUS
  <2>1. i + 0 = i
    OBVIOUS
  <2> QED  BY <2>1, OrderOfWords
<1>2. ASSUME NEW d \in Nat, d \in T PROVE d + 1 \in T
  <2> SUFFICES ASSUME NEW i \in 0 .. n - 1, i + (d + 1) <= n - 1
               PROVE  NotAfter(f[i], f[i + (d + 1)])
    OBVIOUS
  <2>1. i + d \in 0 .. n - 1 /\ i + (d + 1) \in 1 .. n - 1 /\ i + (d + 1) - 1 = i + d
    OBVIOUS
  <2>2. NotAfter(f[i], f[i + d])
    BY <1>2, <2>1
  <2>3. NotAfter(f[i + d], f[i + (d + 1)])
    BY <2>1
  <2>4. f[i] \in Words(m) /\ f[i + d] \in Words(m) /\ f[i + (d + 1)] \in Words(m)
    BY <2>1
  <2> QED  BY <2>2, <2>3, <2>4, WordsInTurn
<1>3. T = Nat
  <2>1. T \subseteq Nat
    OBVIOUS
  <2> HIDE DEF T
  <2> QED  BY <1>1, <1>2, <2>1, Induction
<1> SUFFICES ASSUME NEW i \in 0 .. n - 1, NEW j \in i .. n - 1 PROVE NotAfter(f[i], f[j])
  BY DEF Ordered
<1>4. j - i \in T
  <2>1. j - i \in Nat
    OBVIOUS
  <2> HIDE DEF T
  <2> QED  BY <1>3, <2>1
<1>5. i + (j - i) = j
  OBVIOUS
<1> QED  BY <1>4, <1>5

\* An arrangement in order of words that are in order already changes no place.
LEMMA SortedTwice ==
    ASSUME NEW n \in Nat, NEW m \in Nat, NEW f \in [0 .. n - 1 -> Words(m)], Ordered(n, f),
           NEW t \in [0 .. n - 1 -> 0 .. n - 1], NoneTwice(n, t),
           Ordered(n, [i \in 0 .. n - 1 |-> f[t[i]]]), NEW x \in 0 .. n - 1
    PROVE  f[t[x]] = f[x]
<1>0. /\ \A i \in 0 .. n - 1 : \A j \in i .. n - 1 : NotAfter(f[i], f[j])
      /\ \A i, j \in 0 .. n - 1 : i # j => t[i] # t[j]
      /\ \A i \in 0 .. n - 1 : \A j \in i .. n - 1 : NotAfter(f[t[i]], f[t[j]])
  <2>1. \A i \in 0 .. n - 1 : \A j \in i .. n - 1 : j \in 0 .. n - 1
    OBVIOUS
  <2> QED  BY <2>1 DEF Ordered, NoneTwice
<1>1. \A i \in 0 .. n - 1 : f[i] \in Words(m) /\ f[t[i]] \in Words(m)
  OBVIOUS
<1>2. NotAfter(f[x], f[t[x]])
  <2> SUFFICES ASSUME ~NotAfter(f[x], f[t[x]]) PROVE FALSE
    OBVIOUS
  <2> DEFINE S == 0 .. x
             U == 0 .. x - 1
             g == [i \in S |-> t[i]]
  <2>1. \A i \in S : t[i] \in U
    <3> SUFFICES ASSUME NEW i \in S, t[i] \notin U PROVE FALSE
      OBVIOUS
    <3>1. i \in 0 .. n - 1 /\ x \in i .. n - 1
      OBVIOUS
    <3>2. t[i] \in x .. n - 1
      <4>1. t[i] \in 0 .. n - 1
        BY <3>1
      <4> QED  BY <4>1
    <3>3. NotAfter(f[x], f[t[i]]) /\ NotAfter(f[t[i]], f[t[x]])
      BY <1>0, <3>1, <3>2
    <3> QED  BY <1>1, <3>1, <3>3, WordsInTurn
  <2>2. g \in [S -> U]
    BY <2>1
  <2>3. /\ IsFiniteSet(S) /\ IsFiniteSet(U)
        /\ Cardinality(U) < Cardinality(S)
    <3>1. 0 \in Int /\ x \in Int /\ x - 1 \in Int
      OBVIOUS
    <3>2. IsFiniteSet(S) /\ Cardinality(S) = IF 0 > x THEN 0 ELSE x - 0 + 1
      BY <3>1, FS_Interval
    <3>3. IsFiniteSet(U) /\ Cardinality(U) = IF 0 > x - 1 THEN 0 ELSE (x - 1) - 0 + 1
      BY <3>1, FS_Interval
    <3> QED  BY <3>2, <3>3
  <2>4. \E i, j \in S : i # j /\ g[i] = g[j]
    <3> HIDE DEF S, U, g
    <3> QED  BY <2>2, <2>3, FS_PigeonHole
  <2>5. PICK i \in S, j \in S : i # j /\ t[i] = t[j]
    BY <2>4
  <2>6. i \in 0 .. n - 1 /\ j \in 0 .. n - 1
    OBVIOUS
  <2> QED  BY <1>0, <2>5, <2>6
<1>3. NotAfter(f[t[x]], f[x])
  <2> SUFFICES ASSUME ~NotAfter(f[t[x]], f[x]) PROVE FALSE
    OBVIOUS
  <2> DEFINE S == x .. n - 1
             U == x + 1 .. n - 1
             g == [i \in S |-> t[i]]
  <2>1. \A i \in S : t[i] \in U
    <3> SUFFICES ASSUME NEW i \in S, t[i] \notin U PROVE FALSE
      OBVIOUS
    <3>1. i \in 0 .. n - 1 /\ i \in x .. n - 1
      OBVIOUS
    <3>2. t[i] \in 0 .. n - 1 /\ x \in t[i] .. n - 1
      <4>1. t[i] \in 0 .. n - 1
        BY <3>1
      <4> QED  BY <4>1
    <3>3. NotAfter(f[t[i]], f[x]) /\ NotAfter(f[t[x]], f[t[i]])
      BY <1>0, <3>1, <3>2
    <3> QED  BY <1>1, <3>1, <3>3, WordsInTurn
  <2>2. g \in [S -> U]
    BY <2>1
  <2>3. /\ IsFiniteSet(S) /\ IsFiniteSet(U)
        /\ Cardinality(U) < Cardinality(S)
    <3>1. x \in Int /\ n - 1 \in Int /\ x + 1 \in Int
      OBVIOUS
    <3>2. IsFiniteSet(S) /\ Cardinality(S) = IF x > n - 1 THEN 0 ELSE (n - 1) - x + 1
      BY <3>1, FS_Interval
    <3>3. IsFiniteSet(U) /\ Cardinality(U) = IF x + 1 > n - 1 THEN 0 ELSE (n - 1) - (x + 1) + 1
      BY <3>1, FS_Interval
    <3> QED  BY <3>2, <3>3
  <2>4. \E i, j \in S : i # j /\ g[i] = g[j]
    <3> HIDE DEF S, U, g
    <3> QED  BY <2>2, <2>3, FS_PigeonHole
  <2>5. PICK i \in S, j \in S : i # j /\ t[i] = t[j]
    BY <2>4
  <2>6. i \in 0 .. n - 1 /\ j \in 0 .. n - 1
    OBVIOUS
  <2> QED  BY <1>0, <2>5, <2>6
<1> QED  BY <1>1, <1>2, <1>3, WordsAgree

\* Follow lists every place once, smaller bytes first and equal ones as they come.
LEMMA FollowInOrder ==
    ASSUME tt \in Seq(Bytes)
    PROVE  \A i, j \in 0 .. Len(tt) - 1 :
               i < j => /\ Follow[i] # Follow[j]
                        /\ \/ tt[Follow[i] + 1] < tt[Follow[j] + 1]
                           \/ /\ tt[Follow[i] + 1] = tt[Follow[j] + 1]
                              /\ Follow[i] < Follow[j]
<1> DEFINE n == Len(tt)
           S == 0 .. n - 1
           R == {x \in S \X S : \/ tt[x[1] + 1] < tt[x[2] + 1]
                                \/ tt[x[1] + 1] = tt[x[2] + 1] /\ x[1] < x[2]}
           before(i) == {j \in S : tt[j + 1] < tt[i + 1] \/ (tt[j + 1] = tt[i + 1] /\ j < i)}
<1>1. n \in Nat
  OBVIOUS
<1>2. IsFiniteSet(S) /\ Cardinality(S) = n
  <2>1. 0 \in Int /\ n - 1 \in Int /\ (n - 1) - 0 + 1 = n
    BY <1>1
  <2>2. IsFiniteSet(S) /\ Cardinality(S) = IF 0 > n - 1 THEN 0 ELSE (n - 1) - 0 + 1
    <3> HIDE DEF n
    <3> QED  BY <2>1, FS_Interval
  <2> QED  BY <1>1, <2>1, <2>2
<1>3. \A i \in S : i \in Int /\ tt[i + 1] \in Int
  <2> SUFFICES ASSUME NEW i \in S PROVE tt[i + 1] \in Int
    OBVIOUS
  <2>1. i + 1 \in 1 .. Len(tt)
    BY <1>1
  <2>2. tt[i + 1] \in Bytes
    BY <2>1
  <2> QED  BY <2>2 DEF Bytes
<1>4. \A j, i \in S : << j, i >> \in R
                        <=> tt[j + 1] < tt[i + 1] \/ (tt[j + 1] = tt[i + 1] /\ j < i)
  OBVIOUS
<1> HIDE DEF R
<1>5. StrictlyOrders(R, S)
  <2> HIDE DEF S
  <2> QED  BY <1>3, <1>4, SMTT(30) DEF StrictlyOrders
<1>6. \A i \in S : Cardinality(before(i)) = Rank(R, S, i)
  <2>1. \A i \in S : before(i) = {j \in S : << j, i >> \in R}
    BY <1>4
  <2> HIDE DEF before
  <2> QED  BY <2>1 DEF Rank
<1>7. Follow = [k \in 0 .. Cardinality(S) - 1 |-> CHOOSE i \in S : k = Cardinality(before(i))]
  BY DEF Follow, RadixSort, InOrder
<1> HIDE DEF before
<1>8. ASSUME NEW k \in S PROVE Follow[k] \in S /\ Rank(R, S, Follow[k]) = k
  <2>1. k \in 0 .. Cardinality(S) - 1
    BY <1>2
  <2>2. PICK x \in S : k = Rank(R, S, x)
    <3> HIDE DEF S
    <3> QED  BY <1>2, <1>5, <2>1, RankTaken
  <2>3. \E i \in S : k = Cardinality(before(i))
    BY <1>6, <2>2
  <2>4. Follow[k] = CHOOSE i \in S : k = Cardinality(before(i))
    BY <1>7, <2>1
  <2>5. Follow[k] \in S /\ k = Cardinality(before(Follow[k]))
    <3> HIDE DEF S
    <3> QED  BY <2>3, <2>4
  <2> QED  BY <1>6, <2>5
<1> SUFFICES ASSUME NEW i \in S, NEW j \in S, i < j
             PROVE  Follow[i] # Follow[j] /\ << Follow[i], Follow[j] >> \in R
  BY <1>4, <1>8
<1>9. /\ Follow[i] \in S /\ Rank(R, S, Follow[i]) = i
      /\ Follow[j] \in S /\ Rank(R, S, Follow[j]) = j
  BY <1>8
<1>10. Follow[i] # Follow[j]
  BY <1>1, <1>9
<1>11. << Follow[j], Follow[i] >> \notin R
  <2> SUFFICES ASSUME << Follow[j], Follow[i] >> \in R PROVE FALSE
    OBVIOUS
  <2>1. Rank(R, S, Follow[j]) < Rank(R, S, Follow[i])
    <3> HIDE DEF S
    <3> QED  BY <1>2, <1>5, <1>9, RankGrows
  <2> QED  BY <1>1, <1>9, <2>1
<1> QED  BY <1>5, <1>9, <1>10, <1>11 DEF StrictlyOrders

Prev(x, n) == IF x = 0 THEN n - 1 ELSE x - 1

LEMMA WrappedSum ==
    ASSUME NEW n \in Nat \ {0}, NEW i \in 0 .. n - 1, NEW j \in 0 .. n - 1
    PROVE  (i + j) % n = IF i + j < n THEN i + j ELSE i + j - n
<1> DEFINE a == i + j
<1>1. a \in 0 .. 2 * n - 1
  OBVIOUS
<1>2. a % n = IF a < n THEN a ELSE a - n
  <2> HIDE DEF a
  <2> QED  BY <1>1, Wrapped
<1> QED  BY <1>2

\* What an invertible list of rotations is: a word at each place, the letter of the
\* place comes last in it, and the words of the places that follow are its turns.
LEMMA WordsTurn ==
    ASSUME NEW n \in Nat \ {0}, NEW b \in [0 .. n - 1 -> Bytes],
           NEW x \in 0 .. n - 1, NEW k \in 0 .. n - 1
    PROVE  /\ RotationOf(b, n, Prev(x, n), n)[0] = b[Prev(x, n)]
           /\ RotationOf(b, n, x, n)[n - 1] = b[Prev(x, n)]
           /\ k # n - 1 => RotationOf(b, n, Prev(x, n), n)[k + 1] = RotationOf(b, n, x, n)[k]
<1>1. Prev(x, n) \in 0 .. n - 1
  BY DEF Prev
<1>2. \A i, j \in 0 .. n - 1 : RotationOf(b, n, i, n)[j] = b[(i + j) % n]
  BY DEF RotationOf
<1>4. \A i, j \in 0 .. n - 1 : (i + j) % n = IF i + j < n THEN i + j ELSE i + j - n
  BY WrappedSum
<1>5. 0 \in 0 .. n - 1 /\ n - 1 \in 0 .. n - 1
  OBVIOUS
<1>6. (Prev(x, n) + 0) % n = Prev(x, n)
  BY <1>1, <1>4, <1>5
<1>7. (x + (n - 1)) % n = Prev(x, n)
  <2>1. (x + (n - 1)) % n = IF x + (n - 1) < n THEN x + (n - 1) ELSE x + (n - 1) - n
    BY <1>4, <1>5
  <2> QED  BY <2>1 DEF Prev
<1>8. ASSUME k # n - 1 PROVE (Prev(x, n) + (k + 1)) % n = (x + k) % n
  <2>1. k + 1 \in 0 .. n - 1
    BY <1>8
  <2>2. (Prev(x, n) + (k + 1)) % n
        = IF Prev(x, n) + (k + 1) < n THEN Prev(x, n) + (k + 1) ELSE Prev(x, n) + (k + 1) - n
    BY <1>1, <1>4, <2>1
  <2>3. (x + k) % n = IF x + k < n THEN x + k ELSE x + k - n
    BY <1>4
  <2> QED  BY <1>8, <2>2, <2>3 DEF Prev
<1>9. k # n - 1 => k + 1 \in 0 .. n - 1
  OBVIOUS
<1>10. RotationOf(b, n, Prev(x, n), n)[0] = b[Prev(x, n)]
  <2>1. RotationOf(b, n, Prev(x, n), n)[0] = b[(Prev(x, n) + 0) % n]
    BY <1>1, <1>2, <1>5
  <2> QED  BY <1>6, <2>1
<1>11. RotationOf(b, n, x, n)[n - 1] = b[Prev(x, n)]
  <2>1. RotationOf(b, n, x, n)[n - 1] = b[(x + (n - 1)) % n]
    BY <1>2, <1>5
  <2> QED  BY <1>7, <2>1
<1>12. ASSUME k # n - 1
       PROVE  RotationOf(b, n, Prev(x, n), n)[k + 1] = RotationOf(b, n, x, n)[k]
  <2>1. RotationOf(b, n, Prev(x, n), n)[k + 1] = b[(Prev(x, n) + (k + 1)) % n]
    BY <1>1, <1>2, <1>9, <1>12
  <2>2. RotationOf(b, n, x, n)[k] = b[(x + k) % n]
    BY <1>2
  <2> QED  BY <1>8, <1>12, <2>1, <2>2
<1> QED  BY <1>10, <1>11, <1>12

\* The word w is v with its last letter first.
TurnOf(n, w, v) == w[0] = v[n - 1] /\ \A k \in 0 .. n - 2 : w[k + 1] = v[k]

\* Words with their last letter put first are in order if those letters are, or if they
\* are the same and the words were in order.
LEMMA TurnedInOrder ==
    ASSUME NEW n \in Nat \ {0}, NEW v \in Words(n), NEW u \in Words(n),
           v[n - 1] < u[n - 1] \/ (v[n - 1] = u[n - 1] /\ NotAfter(v, u)),
           NEW w \in Words(n), NEW y \in Words(n), TurnOf(n, w, v), TurnOf(n, y, u)
    PROVE  NotAfter(w, y)
<1>1. 0 \in 0 .. n - 1 /\ n - 1 \in 0 .. n - 1 /\ n \in Nat
  OBVIOUS
<1>2. /\ w[0] = v[n - 1] /\ \A k \in 0 .. n - 2 : w[k + 1] = v[k]
      /\ y[0] = u[n - 1] /\ \A k \in 0 .. n - 2 : y[k + 1] = u[k]
  BY DEF TurnOf
<1>3. CASE v[n - 1] < u[n - 1]
  <2>1. w[0] < y[0] /\ \A k \in 0 .. 0 - 1 : w[k] = y[k]
    BY <1>2, <1>3
  <2> QED  BY <1>1, <2>1, OrderOfWords
<1>4. CASE v[n - 1] = u[n - 1] /\ NotAfter(v, u)
  <2>1. CASE v = u
    <3>1. ASSUME NEW k \in 0 .. n - 1 PROVE w[k] = y[k]
      <4>1. CASE k = 0
        BY <1>2, <1>4, <4>1
      <4>2. CASE k # 0
        <5>1. k - 1 \in 0 .. n - 2 /\ (k - 1) + 1 = k
          BY <4>2
        <5>2. w[(k - 1) + 1] = v[k - 1] /\ y[(k - 1) + 1] = u[k - 1]
          BY <1>2, <5>1
        <5> QED  BY <2>1, <5>1, <5>2
      <4> QED  BY <4>1, <4>2
    <3>2. w = [k \in 0 .. n - 1 |-> w[k]] /\ y = [k \in 0 .. n - 1 |-> y[k]]
      BY DEF Words
    <3>3. w = y
      BY <3>1, <3>2
    <3> QED  BY <1>1, <3>3, OrderOfWords
  <2>2. CASE v # u
    <3>1. PICK m \in 0 .. n - 1 : v[m] < u[m] /\ \A k \in 0 .. m - 1 : v[k] = u[k]
      BY <1>1, <1>4, <2>2, OrderOfWords
    <3>2. m # n - 1
      <4>1. u[n - 1] \in Int
        BY <1>1 DEF Words, Bytes
      <4>2. ASSUME m = n - 1 PROVE FALSE
        <5>1. u[n - 1] < u[n - 1]
          BY <1>4, <3>1, <4>2
        <5> QED  BY <4>1, <5>1
      <4> QED  BY <4>2
    <3>3. m \in 0 .. n - 2 /\ m + 1 \in 0 .. n - 1
      BY <3>2
    <3>4. w[m + 1] < y[m + 1]
      BY <1>2, <3>1, <3>3
    <3>5. ASSUME NEW k \in 0 .. (m + 1) - 1 PROVE w[k] = y[k]
      <4>1. CASE k = 0
        BY <1>2, <1>4, <4>1
      <4>2. CASE k # 0
        <5>1. k - 1 \in 0 .. n - 2 /\ (k - 1) + 1 = k /\ k - 1 \in 0 .. m - 1
          BY <3>3, <4>2
        <5>2. w[(k - 1) + 1] = v[k - 1] /\ y[(k - 1) + 1] = u[k - 1]
          BY <1>2, <5>1
        <5> QED  BY <3>1, <5>1, <5>2
      <4> QED  BY <4>1, <4>2
    <3> QED  BY <1>1, <3>3, <3>4, <3>5, OrderOfWords
  <2> QED  BY <2>1, <2>2
<1> QED  BY <1>3, <1>4

\* A list that takes every place takes none twice.
LEMMA ListedOnce ==
    ASSUME NEW n \in Nat, NEW p \in [0 .. n - 1 -> 0 .. n - 1],
           {p[i] : i \in 0 .. n - 1} = 0 .. n - 1
    PROVE  \A i, j \in 0 .. n - 1 : p[i] = p[j] => i = j
<1> DEFINE S == 0 .. n - 1
<1>1. IsFiniteSet(S)
  <2>1. 0 \in Int /\ n - 1 \in Int
    OBVIOUS
  <2> QED  BY <2>1, FS_Interval
<1>2. p \in Surjection(S, S)
  <2>1. \A x \in S : \E i \in S : p[i] = x
    OBVIOUS
  <2> QED  BY <2>1 DEF Surjection
<1>3. p \in Injection(S, S)
  <2> HIDE DEF S
  <2> QED  BY <1>1, <1>2, FS_Surjection
<1> QED  BY <1>3 DEF Injection, IsInjective

LEMMA PrevTurn ==
    ASSUME NEW n \in Nat \ {0}, NEW x \in 0 .. n - 1
    PROVE  Prev(x, n) \in 0 .. n - 1 /\ (x - 1 + n) % n = Prev(x, n)
<1> DEFINE a == x - 1 + n
<1>1. a \in 0 .. 2 * n - 1
  OBVIOUS
<1>2. a % n = IF a < n THEN a ELSE a - n
  <2> HIDE DEF a
  <2> QED  BY <1>1, Wrapped
<1> QED  BY <1>2 DEF Prev

LEMMA PrevDecides ==
    ASSUME NEW n \in Nat \ {0}, NEW x \in 0 .. n - 1, NEW y \in 0 .. n - 1,
           Prev(x, n) = Prev(y, n)
    PROVE  x = y
BY DEF Prev

LEMMA RotationIsWord ==
    ASSUME NEW n \in Nat \ {0}, NEW b \in [0 .. n - 1 -> Bytes], NEW i \in 0 .. n - 1
    PROVE  RotationOf(b, n, i, n) \in Words(n)
<1>1. ASSUME NEW k \in 0 .. n - 1 PROVE b[(i + k) % n] \in Bytes
  <2>1. (i + k) % n = IF i + k < n THEN i + k ELSE i + k - n
    BY WrappedSum
  <2>2. (IF i + k < n THEN i + k ELSE i + k - n) \in 0 .. n - 1
    OBVIOUS
  <2>3. (i + k) % n \in 0 .. n - 1
    BY <2>1, <2>2
  <2> QED  BY <2>3
<1> QED  BY <1>1 DEF RotationOf, Words

\* F lists the letters of c in their order, equal ones as they come.
ListsLetters(n, F, c) ==
    \A i, j \in 0 .. n - 1 :
        i < j => c[F[i]] < c[F[j]] \/ (c[F[i]] = c[F[j]] /\ F[i] < F[j])

\* Each word, taken as F lists their last letters, is listed with that letter first at t.
TurnsAt(n, f, F, t) == \A j \in 0 .. n - 1 : TurnOf(n, f[t[j]], f[F[j]])
Turns(n, f, F) == \A x \in 0 .. n - 1 : TurnOf(n, f[x], f[F[x]])
WalksAlong(n, F, from, walk) ==
    /\ F \in [0 .. n - 1 -> 0 .. n - 1]
    /\ from \in 0 .. n - 1 /\ walk \in [0 .. n -> 0 .. n - 1]
    /\ walk[0] = F[from] /\ \A k \in 1 .. n : walk[k] = F[walk[k - 1]]
EndsIn(n, f, c) == \A i \in 0 .. n - 1 : f[i][n - 1] = c[i]
Spells(n, c, walk, b) == \A q \in 0 .. n - 1 : c[walk[q]] = b[q]
InTurn(n, f) == f \in [0 .. n - 1 -> Words(n)] /\ Ordered(n, f)
StartsAs(n, w, b) == \A m \in 0 .. n - 1 : w[m] = b[m]

\* Words in order, and each of them, taken as F lists their last letters, is listed with
\* that letter first too, at t: then that is the word at the same place.
LEMMA FollowTurns ==
    ASSUME NEW n \in Nat \ {0}, NEW f \in [0 .. n - 1 -> Words(n)], Ordered(n, f),
           NEW F \in [0 .. n - 1 -> 0 .. n - 1],
           ListsLetters(n, F, [i \in 0 .. n - 1 |-> f[i][n - 1]]),
           NEW t \in [0 .. n - 1 -> 0 .. n - 1], NoneTwice(n, t),
           TurnsAt(n, f, F, t)
    PROVE  Turns(n, f, F)
<1> DEFINE g == [i \in 0 .. n - 1 |-> f[t[i]]]
<1>1. ASSUME NEW i \in 0 .. n - 1, NEW j \in i .. n - 1 PROVE NotAfter(f[t[i]], f[t[j]])
  <2>1. j \in 0 .. n - 1 /\ (i = j \/ i < j)
    OBVIOUS
  <2>2. f[t[i]] \in Words(n) /\ f[t[j]] \in Words(n) /\ n \in Nat
    BY <2>1
  <2>3. CASE i = j
    BY <2>2, <2>3, OrderOfWords
  <2>4. CASE i < j
    <3> DEFINE v == f[F[i]]
               u == f[F[j]]
    <3>1. F[i] \in 0 .. n - 1 /\ F[j] \in 0 .. n - 1
      BY <2>1
    <3>2. v \in Words(n) /\ u \in Words(n)
      BY <3>1
    <3>3. v[n - 1] < u[n - 1] \/ (v[n - 1] = u[n - 1] /\ F[i] < F[j])
      BY <2>1, <2>4, <3>1 DEF ListsLetters
    <3>4. F[i] < F[j] => NotAfter(v, u)
      <4>1. F[i] < F[j] => F[j] \in F[i] .. n - 1
        BY <3>1
      <4> QED  BY <3>1, <4>1 DEF Ordered
    <3>5. TurnOf(n, f[t[i]], v) /\ TurnOf(n, f[t[j]], u)
      BY <2>1 DEF TurnsAt
    <3> HIDE DEF v, u
    <3> QED  BY <2>2, <3>2, <3>3, <3>4, <3>5, TurnedInOrder
  <2> QED  BY <2>1, <2>3, <2>4
<1>2. Ordered(n, g)
  <2>1. \A i \in 0 .. n - 1 : \A j \in i .. n - 1 : j \in 0 .. n - 1
    OBVIOUS
  <2> QED  BY <1>1, <2>1 DEF Ordered
<1>3. ASSUME NEW x \in 0 .. n - 1 PROVE f[t[x]] = f[x]
  <2>1. n \in Nat
    OBVIOUS
  <2> QED  BY <1>2, <2>1, SortedTwice
<1> QED  BY <1>3 DEF TurnsAt, Turns

\* A walk along F from the place of b turns b by a letter with each step.
LEMMA WalkTurns ==
    ASSUME NEW n \in Nat \ {0}, NEW f, InTurn(n, f), NEW b, NEW c, EndsIn(n, f, c),
           NEW F, Turns(n, f, F),
           NEW from, StartsAs(n, f[from], b), NEW walk, WalksAlong(n, F, from, walk)
    PROVE  Spells(n, c, walk, b)
<1>6. /\ f \in [0 .. n - 1 -> Words(n)] /\ from \in 0 .. n - 1
      /\ walk \in [0 .. n -> 0 .. n - 1]
      /\ walk[0] = F[from] /\ F \in [0 .. n - 1 -> 0 .. n - 1]
  BY DEF InTurn, WalksAlong
<1> DEFINE Turned(k, x) ==
               \A m \in 0 .. n - 1 :
                   f[x][m] = IF k + 1 + m < n THEN b[k + 1 + m] ELSE b[k + 1 + m - n]
           T == {k \in Nat : k <= n - 1 => Turned(k, walk[k])}
<1>0. \A x \in 0 .. n - 1 : /\ f[F[x]][n - 1] = f[x][0]
                            /\ \A k \in 0 .. n - 2 : f[F[x]][k] = f[x][k + 1]
  BY DEF Turns, TurnOf
<1>7. \A m \in 0 .. n - 1 : f[from][m] = b[m]
  BY DEF StartsAs
<1>1. 0 \in T
  <2>1. ASSUME NEW m \in 0 .. n - 1
        PROVE  f[F[from]][m] = IF 0 + 1 + m < n THEN b[0 + 1 + m] ELSE b[0 + 1 + m - n]
    <3>1. CASE m = n - 1
      <4>1. 0 \in 0 .. n - 1 /\ ~(0 + 1 + m < n) /\ 0 + 1 + m - n = 0
        BY <3>1
      <4> QED  BY <1>0, <1>6, <1>7, <3>1, <4>1
    <3>2. CASE m # n - 1
      <4>1. /\ m \in 0 .. n - 2 /\ m + 1 \in 0 .. n - 1
            /\ 0 + 1 + m < n /\ 0 + 1 + m = m + 1
        BY <3>2
      <4> QED  BY <1>0, <1>6, <1>7, <4>1
    <3> QED  BY <3>1, <3>2
  <2> QED  BY <1>6, <2>1
<1>2. ASSUME NEW k \in Nat, k \in T PROVE k + 1 \in T
  <2>1. ASSUME k + 1 <= n - 1, NEW m \in 0 .. n - 1
        PROVE  f[walk[k + 1]][m] = IF k + 1 + 1 + m < n THEN b[k + 1 + 1 + m]
                                   ELSE b[k + 1 + 1 + m - n]
    <3>1. /\ k \in 0 .. n /\ k + 1 \in 1 .. n /\ (k + 1) - 1 = k
          /\ k <= n - 1
      BY <2>1
    <3>2. walk[k] \in 0 .. n - 1 /\ walk[k + 1] = F[walk[k]]
      <4>1. walk[k + 1] = F[walk[(k + 1) - 1]]
        BY <3>1 DEF WalksAlong
      <4> QED  BY <1>6, <3>1, <4>1
    <3>3. Turned(k, walk[k])
      BY <1>2, <3>1
    <3>4. CASE m = n - 1
      <4>1. f[walk[k + 1]][m] = f[walk[k]][0]
        BY <1>0, <1>6, <3>2, <3>4
      <4>2. f[walk[k]][0] = b[k + 1]
        <5>1. 0 \in 0 .. n - 1 /\ k + 1 + 0 < n /\ k + 1 + 0 = k + 1
          BY <2>1
        <5> QED  BY <3>3, <5>1
      <4>3. ~(k + 1 + 1 + m < n) /\ k + 1 + 1 + m - n = k + 1
        BY <3>4
      <4> QED  BY <4>1, <4>2, <4>3
    <3>5. CASE m # n - 1
      <4>1. /\ m \in 0 .. n - 2 /\ m + 1 \in 0 .. n - 1
            /\ k + 1 + (m + 1) = k + 1 + 1 + m
        BY <3>5
      <4>2. f[walk[k + 1]][m] = f[walk[k]][m + 1]
        BY <1>0, <1>6, <3>2, <4>1
      <4>3. f[walk[k]][m + 1] = IF k + 1 + (m + 1) < n THEN b[k + 1 + (m + 1)]
                                ELSE b[k + 1 + (m + 1) - n]
        BY <3>3, <4>1
      <4> QED  BY <4>1, <4>2, <4>3
    <3> QED  BY <3>4, <3>5
  <2> QED  BY <2>1
<1>3. T = Nat
  <2>1. T \subseteq Nat
    OBVIOUS
  <2> HIDE DEF T
  <2> QED  BY <1>1, <1>2, <2>1, Induction
<1> SUFFICES ASSUME NEW q \in 0 .. n - 1 PROVE c[walk[q]] = b[q]
  BY DEF Spells
<1>4. Turned(q, walk[q])
  <2>1. q \in T /\ q <= n - 1
    <3> HIDE DEF T
    <3> QED  BY <1>3
  <2> QED  BY <2>1
<1>5. n - 1 \in 0 .. n - 1 /\ ~(q + 1 + (n - 1) < n) /\ q + 1 + (n - 1) - n = q
  OBVIOUS
<1>8. f[walk[q]][n - 1] = b[q]
  BY <1>4, <1>5
<1>9. walk[q] \in 0 .. n - 1
  <2>1. q \in 0 .. n
    OBVIOUS
  <2> QED  BY <1>6, <2>1
<1> QED  BY <1>8, <1>9 DEF EndsIn

\* The rotations p lists, as words.
Listed(n, b, p) == [i \in 0 .. n - 1 |-> RotationOf(b, n, p[i], n)]

\* p lists the rotations of b in their order.
Sorts(n, b, p) == /\ b \in [0 .. n - 1 -> Bytes] /\ p \in [0 .. n - 1 -> 0 .. n - 1]
                  /\ ListsRotations(p, b, n)
\* The bytes in front of the rotations.
Fronts(n, b, p) == [i \in 0 .. n - 1 |-> b[Prev(p[i], n)]]

LEMMA ListedRotations ==
    ASSUME NEW n \in Nat \ {0}, NEW b, NEW p, Sorts(n, b, p)
    PROVE  InTurn(n, Listed(n, b, p)) /\ EndsIn(n, Listed(n, b, p), Fronts(n, b, p))
<1> USE DEF Sorts
<1> DEFINE f == Listed(n, b, p)
<1>1. \A i \in 0 .. n - 1 : f[i] = RotationOf(b, n, p[i], n) /\ p[i] \in 0 .. n - 1
  BY DEF Listed
<1>2. f \in [0 .. n - 1 -> Words(n)]
  <2>1. \A i \in 0 .. n - 1 : RotationOf(b, n, p[i], n) \in Words(n)
    BY RotationIsWord
  <2> QED  BY <2>1 DEF Listed
<1>3. Ordered(n, f)
  <2>1. ASSUME NEW i \in 1 .. n - 1 PROVE NotAfter(f[i - 1], f[i])
    <3>1. i \in 0 .. n - 1 /\ i - 1 \in 0 .. n - 1
      OBVIOUS
    <3> QED  BY <1>1, <3>1 DEF ListsRotations
  <2>2. n \in Nat
    OBVIOUS
  <2> HIDE DEF f
  <2> QED  BY <1>2, <2>1, <2>2, InOrderThroughout
<1>4. ASSUME NEW i \in 0 .. n - 1 PROVE f[i][n - 1] = b[Prev(p[i], n)]
  <2>1. n - 1 \in 0 .. n - 1
    OBVIOUS
  <2>2. RotationOf(b, n, p[i], n)[n - 1] = b[Prev(p[i], n)]
    BY <1>1, <2>1, WordsTurn
  <2> QED  BY <1>1, <2>2
<1> QED  BY <1>2, <1>3, <1>4 DEF InTurn, EndsIn, Fronts

\* With every rotation its turn to the right is listed, and nothing twice.
LEMMA TurnsListed ==
    ASSUME NEW n \in Nat \ {0}, NEW b, NEW p, Sorts(n, b, p),
           NEW F \in [0 .. n - 1 -> 0 .. n - 1], NoneTwice(n, F)
    PROVE  \E t \in [0 .. n - 1 -> 0 .. n - 1] :
              NoneTwice(n, t) /\ TurnsAt(n, Listed(n, b, p), F, t)
<1> USE DEF Sorts
<1> DEFINE t == [j \in 0 .. n - 1 |-> CHOOSE i \in 0 .. n - 1 : p[i] = Prev(p[F[j]], n)]
<1>1. ASSUME NEW j \in 0 .. n - 1
      PROVE  /\ F[j] \in 0 .. n - 1 /\ p[F[j]] \in 0 .. n - 1
             /\ t[j] \in 0 .. n - 1 /\ p[t[j]] = Prev(p[F[j]], n)
  <2>1. F[j] \in 0 .. n - 1 /\ p[F[j]] \in 0 .. n - 1
    OBVIOUS
  <2>2. Prev(p[F[j]], n) \in 0 .. n - 1
    BY <2>1, PrevTurn
  <2>3. \E i \in 0 .. n - 1 : p[i] = Prev(p[F[j]], n)
    BY <2>2 DEF ListsRotations
  <2> QED  BY <2>1, <2>3
<1>2. t \in [0 .. n - 1 -> 0 .. n - 1]
  BY <1>1
<1>3. \A i, j \in 0 .. n - 1 : p[i] = p[j] => i = j
  <2>1. {p[i] : i \in 0 .. n - 1} = 0 .. n - 1
    BY DEF ListsRotations
  <2>2. n \in Nat
    OBVIOUS
  <2> QED  BY <2>1, <2>2, ListedOnce
<1> HIDE DEF t
<1>4. ASSUME NEW i \in 0 .. n - 1, NEW j \in 0 .. n - 1, t[i] = t[j] PROVE i = j
  <2>1. Prev(p[F[i]], n) = Prev(p[F[j]], n)
    BY <1>1, <1>4
  <2>2. p[F[i]] = p[F[j]]
    BY <1>1, <2>1, PrevDecides
  <2>3. F[i] = F[j]
    BY <1>1, <1>3, <2>2
  <2> QED  BY <2>3 DEF NoneTwice
<1>5. ASSUME NEW j \in 0 .. n - 1
      PROVE  TurnOf(n, Listed(n, b, p)[t[j]], Listed(n, b, p)[F[j]])
  <2> DEFINE x == p[F[j]]
  <2>1. x \in 0 .. n - 1 /\ p[t[j]] = Prev(x, n)
    BY <1>1
  <2>2. /\ Listed(n, b, p)[t[j]] = RotationOf(b, n, Prev(x, n), n)
        /\ Listed(n, b, p)[F[j]] = RotationOf(b, n, x, n)
    BY <1>1 DEF Listed
  <2> HIDE DEF x
  <2>3. 0 \in 0 .. n - 1
    OBVIOUS
  <2>4. RotationOf(b, n, Prev(x, n), n)[0] = RotationOf(b, n, x, n)[n - 1]
    BY <2>1, <2>3, WordsTurn, ZenonT(60)
  <2>5. ASSUME NEW k \in 0 .. n - 2
        PROVE  RotationOf(b, n, Prev(x, n), n)[k + 1] = RotationOf(b, n, x, n)[k]
    <3>1. k \in 0 .. n - 1 /\ k # n - 1
      OBVIOUS
    <3> QED  BY <2>1, <3>1, WordsTurn
  <2> QED  BY <2>2, <2>4, <2>5 DEF TurnOf
<1> QED  BY <1>2, <1>4, <1>5 DEF NoneTwice, TurnsAt

\* The same for any list F of the places in the order of the bytes in front of the
\* rotations, and any walk along it from the place of the block itself.
LEMMA WalkSpells ==
    ASSUME NEW n \in Nat \ {0}, NEW b, NEW p, Sorts(n, b, p),
           NEW F, NoneTwice(n, F), ListsLetters(n, F, Fronts(n, b, p)),
           NEW from, p[from] = 0, NEW walk, WalksAlong(n, F, from, walk)
    PROVE  Spells(n, Fronts(n, b, p), walk, b)
<1>3. from \in 0 .. n - 1 /\ F \in [0 .. n - 1 -> 0 .. n - 1]
  BY DEF WalksAlong
<1> DEFINE f == Listed(n, b, p)
<1>1. InTurn(n, f) /\ EndsIn(n, f, Fronts(n, b, p))
  BY ListedRotations
<1>2. PICK t \in [0 .. n - 1 -> 0 .. n - 1] : NoneTwice(n, t) /\ TurnsAt(n, f, F, t)
  BY <1>3, TurnsListed
<1>4. StartsAs(n, f[from], b)
  <2> SUFFICES ASSUME NEW m \in 0 .. n - 1 PROVE RotationOf(b, n, 0, n)[m] = b[m]
    BY <1>3 DEF Listed, StartsAs
  <2>1. RotationOf(b, n, 0, n)[m] = b[(0 + m) % n] /\ 0 \in 0 .. n - 1
    BY DEF RotationOf
  <2>2. (0 + m) % n = IF 0 + m < n THEN 0 + m ELSE 0 + m - n
    BY <2>1, WrappedSum
  <2>3. (IF 0 + m < n THEN 0 + m ELSE 0 + m - n) = m
    OBVIOUS
  <2> QED  BY <2>1, <2>2, <2>3
<1> HIDE DEF f
<1>5. ListsLetters(n, F, [i \in 0 .. n - 1 |-> f[i][n - 1]])
  <2>1. [i \in 0 .. n - 1 |-> f[i][n - 1]] = Fronts(n, b, p)
    BY <1>1 DEF EndsIn, Fronts
  <2> QED  BY <2>1
<1>6. Turns(n, f, F)
  BY <1>1, <1>2, <1>3, <1>5, FollowTurns DEF InTurn
<1> QED  BY <1>1, <1>4, <1>6, WalkTurns

\* tt holds the bytes in front of the rotations p lists.
FrontsRead(n, b, p) ==
    Len(tt) = n /\ \A i \in 0 .. n - 1 : tt[i + 1] = b[(p[i] - 1 + n) % n]

\* What the writer's sort did the reader undoes, for blocks of every size: let p list the
\* rotations of the block b in their order, tt the byte in front of each, and from be
\* the place where the block itself is listed; the reader's walk through tt from there
\* yields the block (blocksort.go:772-811, mtf.go:47-54, reader.go:425-445).
THEOREM InverseOfSort ==
    ASSUME NEW n \in Nat \ {0}, NEW b, NEW p, Sorts(n, b, p),
           tt \in Seq(Bytes), FrontsRead(n, b, p), NEW from \in 0 .. n - 1, p[from] = 0
    PROVE  RotationFrom(from) = [k \in 1 .. n |-> b[k - 1]]
<1>0. /\ b \in [0 .. n - 1 -> Bytes] /\ p \in [0 .. n - 1 -> 0 .. n - 1]
      /\ Len(tt) = n /\ \A i \in 0 .. n - 1 : tt[i + 1] = b[(p[i] - 1 + n) % n]
  BY DEF Sorts, FrontsRead
<1> USE <1>0
<1> DEFINE c == Fronts(n, b, p)
<1>1. \A i \in 0 .. n - 1 : tt[i + 1] = c[i]
  <2> SUFFICES ASSUME NEW i \in 0 .. n - 1 PROVE tt[i + 1] = b[Prev(p[i], n)]
    BY DEF Fronts
  <2>1. p[i] \in 0 .. n - 1
    OBVIOUS
  <2>2. (p[i] - 1 + n) % n = Prev(p[i], n)
    BY <2>1, PrevTurn
  <2> QED  BY <2>2
<1>2. Follow \in [0 .. n - 1 -> 0 .. n - 1]
  BY FollowType
<1>3. \A i, j \in 0 .. n - 1 :
          i < j => /\ Follow[i] # Follow[j]
                   /\ \/ tt[Follow[i] + 1] < tt[Follow[j] + 1]
                      \/ tt[Follow[i] + 1] = tt[Follow[j] + 1] /\ Follow[i] < Follow[j]
  <2>1. \A i, j \in 0 .. Len(tt) - 1 :
            i < j => /\ Follow[i] # Follow[j]
                     /\ \/ tt[Follow[i] + 1] < tt[Follow[j] + 1]
                        \/ tt[Follow[i] + 1] = tt[Follow[j] + 1] /\ Follow[i] < Follow[j]
    BY FollowInOrder
  <2> QED  BY <2>1, SMTT(30)
<1>4. NoneTwice(n, Follow)
  <2>1. \A i, j \in 0 .. n - 1 : i # j => i < j \/ j < i
    OBVIOUS
  <2> QED  BY <1>3, <2>1 DEF NoneTwice
<1>5. ListsLetters(n, Follow, c)
  <2> HIDE DEF c
  <2>1. ASSUME NEW i \in 0 .. n - 1, NEW j \in 0 .. n - 1, i < j
        PROVE  \/ c[Follow[i]] < c[Follow[j]]
               \/ c[Follow[i]] = c[Follow[j]] /\ Follow[i] < Follow[j]
    <3>1. Follow[i] \in 0 .. n - 1 /\ Follow[j] \in 0 .. n - 1
      BY <1>2
    <3>2. c[Follow[i]] = tt[Follow[i] + 1] /\ c[Follow[j]] = tt[Follow[j] + 1]
      BY <1>1, <3>1
    <3> QED  BY <1>3, <2>1, <3>2
  <2> QED  BY <2>1 DEF ListsLetters
<1>6. PICK walk \in [0 .. n -> 0 .. n - 1] :
              /\ walk[0] = Follow[from]
              /\ \A k \in 1 .. n : walk[k] = Follow[walk[k - 1]]
              /\ RotationFrom(from) = [k \in 1 .. n |-> tt[walk[k - 1] + 1]]
  <2>1. from \in 0 .. Len(tt) - 1
    OBVIOUS
  <2>2. \E walk \in [0 .. Len(tt) -> 0 .. Len(tt) - 1] :
              /\ walk[0] = Follow[from]
              /\ \A k \in 1 .. Len(tt) : walk[k] = Follow[walk[k - 1]]
              /\ RotationFrom(from) = [k \in 1 .. Len(tt) |-> tt[walk[k - 1] + 1]]
    BY <2>1, RotationWalk
  <2> QED  BY <2>2
<1>7. WalksAlong(n, Follow, from, walk) /\ Sorts(n, b, p)
  BY <1>2, <1>6 DEF WalksAlong, Sorts
<1>8. Spells(n, c, walk, b)
  BY <1>4, <1>5, <1>7, WalkSpells
<1>9. ASSUME NEW k \in 1 .. n PROVE tt[walk[k - 1] + 1] = b[k - 1]
  <2>1. k - 1 \in 0 .. n - 1 /\ k - 1 \in 0 .. n
    OBVIOUS
  <2>2. c[walk[k - 1]] = b[k - 1]
    BY <1>8, <2>1 DEF Spells
  <2>3. walk[k - 1] \in 0 .. n - 1
    BY <2>1
  <2> HIDE DEF c
  <2> QED  BY <1>1, <2>2, <2>3
<1> QED  BY <1>6, <1>9

-----------------------------------------------------------------------------
(* Moving to the front and counting runs are undone.                        *)

\* The positions written for the selectors are read as the selectors:
\* both sides go through the same lists (writer.go:624-641, reader.go:247-264).
THEOREM SelectorsDecode ==
    ASSUME NEW size \in Nat \ {0}, NEW items \in Seq(0 .. size - 1)
    PROVE  /\ MTFEncode(items, size) \in Seq(0 .. size - 1)
           /\ MTFDecode(MTFEncode(items, size), size) = items
<1> DEFINE n == Len(items)
           V == 0 .. size - 1
           at == MTFEncode(items, size)
<1>1. n \in Nat /\ \A k \in 1 .. n : items[k] \in V /\ k - 1 \in 0 .. n /\ k \in 0 .. n
  OBVIOUS
<1>2. PICK e \in [0 .. n -> Permuted(size)] :
           /\ e[0] = InitialList(size)
           /\ \A k \in 1 .. n : e[k] = MoveToFront(e[k - 1], PositionOf(e[k - 1], items[k]))
           /\ at = [k \in 1 .. n |-> PositionOf(e[k - 1], items[k])]
  BY EncoderSteps
<1> HIDE DEF at
<1>3. ASSUME NEW k \in 1 .. n
      PROVE  /\ at[k] \in V /\ at[k] = PositionOf(e[k - 1], items[k])
             /\ e[k - 1][at[k] + 1] = items[k]
  <2>1. e[k - 1] \in Permuted(size)
    BY <1>1, <1>2
  <2>2. e[k - 1] \in Lists(size) /\ Complete(size, e[k - 1])
    BY <2>1 DEF Permuted
  <2>3. at[k] = PositionOf(e[k - 1], items[k])
    BY <1>2
  <2>4. PositionOf(e[k - 1], items[k]) \in V /\ e[k - 1][PositionOf(e[k - 1], items[k]) + 1] = items[k]
    BY <1>1, <2>2, PositionFound
  <2> QED  BY <2>3, <2>4
<1>4. at \in Seq(V) /\ Len(at) = n
  <2>1. at \in [1 .. n -> V]
    BY <1>2, <1>3
  <2> QED  BY <1>1, <2>1, SMTT(30)
<1>5. PICK d \in [0 .. n -> Permuted(size)] :
           /\ d[0] = InitialList(size)
           /\ \A k \in 1 .. n : d[k] = MoveToFront(d[k - 1], at[k])
           /\ MTFDecode(at, size) = [k \in 1 .. n |-> d[k][1]]
  <2> HIDE DEF n
  <2> QED  BY <1>4, DecoderSteps
<1>6. \A k \in 0 .. n : d[k] = e[k]
  <2>1. ASSUME NEW k \in 1 .. n, d[k - 1] = e[k - 1] PROVE d[k] = e[k]
    <3>1. d[k] = MoveToFront(e[k - 1], at[k])
      BY <1>5, <2>1
    <3>2. e[k] = MoveToFront(e[k - 1], at[k])
      BY <1>2, <1>3
    <3> QED  BY <3>1, <3>2
  <2>2. StepAlike(n, d, e)
    BY <1>2, <1>5, <2>1 DEF StepAlike
  <2> HIDE DEF n
  <2> QED  BY <1>1, <2>2, RecursionSame
<1>7. ASSUME NEW k \in 1 .. n PROVE d[k][1] = items[k]
  <2>1. e[k - 1] \in Permuted(size)
    BY <1>1, <1>2
  <2>2. e[k - 1] \in Seq(V) /\ Len(e[k - 1]) = size
    BY <2>1 DEF Permuted, Lists
  <2>3. MoveToFront(e[k - 1], at[k])[1] = e[k - 1][at[k] + 1]
    <3>1. at[k] \in 0 .. Len(e[k - 1]) - 1
      BY <1>3, <2>2
    <3> HIDE DEF V
    <3> QED  BY <2>2, <3>1, MoveToFrontItems
  <2>4. d[k] = MoveToFront(e[k - 1], at[k])
    BY <1>1, <1>5, <1>6
  <2> QED  BY <1>3, <2>3, <2>4
<1>8. MTFDecode(at, size) = [k \in 1 .. n |-> items[k]]
  BY <1>5, <1>7
<1>9. items = [k \in 1 .. n |-> items[k]]
  OBVIOUS
<1> QED  BY <1>4, <1>8, <1>9 DEF at

Digits == {symRUNA, symRUNB}

\* A run is written as the digit its number is odd or even by, and the digits of
\* half of what the digit leaves.
LEMMA RunDigitsSteps ==
    /\ RunDigits \in [Nat -> Seq(Digits)]
    /\ RunDigits[0] = << >>
    /\ \A z \in Nat \ {0} :
           RunDigits[z] = << IF (z - 1) % 2 = 1 THEN symRUNB ELSE symRUNA >>
                          \o RunDigits[(z - 1) \div 2]
<1> DEFINE St == Seq(Digits)
           P == [z \in Nat \ {0} |-> (z - 1) \div 2]
           digit(z) == IF (z - 1) % 2 = 1 THEN symRUNB ELSE symRUNA
           F == [x \in St \X (Nat \ {0}) |-> << digit(x[2]) >> \o x[1]]
           Is(f) == f = [z \in Nat |-> IF z = 0 THEN << >>
                                       ELSE << digit(z) >> \o f[(z - 1) \div 2]]
<1>1. \A z \in Nat \ {0} : (z - 1) \div 2 \in Nat /\ (z - 1) \div 2 < z
  OBVIOUS
<1>2. Backward(P)
  BY <1>1 DEF Backward
<1>3. << >> \in St
  OBVIOUS
<1>4. ASSUME NEW d \in St, NEW z \in Nat \ {0} PROVE << digit(z) >> \o d \in St
  <2>1. digit(z) \in Digits
    BY DEF Digits
  <2> HIDE DEF digit
  <2>2. << digit(z) >> \in Seq(Digits)
    BY <2>1
  <2> QED  BY <2>2, ConcatProperties
<1>5. F \in [St \X (Nat \ {0}) -> St]
  <2> HIDE DEF St, digit
  <2> QED  BY <1>4
<1>6. PICK f \in [Nat -> St] :
           f[0] = << >> /\ \A z \in Nat \ {0} : f[z] = F[<< f[P[z]], z >>]
  <2> DEFINE start == << >>
  <2>1. start \in St
    BY <1>3
  <2> HIDE DEF F, P, St, start
  <2>2. \E f \in [Nat -> St] :
             f[0] = start /\ \A z \in Nat \ {0} : f[z] = F[<< f[P[z]], z >>]
    BY <1>2, <1>5, <2>1, BackExists
  <2> QED  BY <2>2 DEF start
<1>7. ASSUME NEW z \in Nat \ {0} PROVE f[z] = << digit(z) >> \o f[(z - 1) \div 2]
  <2>1. P[z] = (z - 1) \div 2 /\ P[z] \in Nat
    BY <1>1
  <2>2. f[P[z]] \in St
    BY <2>1
  <2>3. f[z] = F[<< f[P[z]], z >>]
    BY <1>6
  <2> HIDE DEF P, St, digit
  <2>4. F[<< f[P[z]], z >>] = << digit(z) >> \o f[P[z]]
    BY <2>2
  <2> QED  BY <2>1, <2>3, <2>4
<1>8. Is(f)
  <2>1. f = [z \in Nat |-> f[z]]
    BY <1>6
  <2>2. \A z \in Nat : f[z] = IF z = 0 THEN << >>
                              ELSE << digit(z) >> \o f[(z - 1) \div 2]
    <3> HIDE DEF digit
    <3> QED  BY <1>6, <1>7
  <2> HIDE DEF digit
  <2> QED  BY <2>1, <2>2
<1>9. RunDigits = CHOOSE g : Is(g)
  BY DEF RunDigits
<1>10. Is(RunDigits)
  <2> HIDE DEF Is
  <2> QED  BY <1>8, <1>9
<1> DEFINE h == RunDigits
<1>11. Is(h)
  BY <1>10
<1> HIDE DEF h, digit
<1>12. h[0] = << >> /\ \A z \in Nat \ {0} : h[z] = << digit(z) >> \o h[(z - 1) \div 2]
  BY <1>11
<1>13. \A z \in Nat : h[z] \in St
  <2> DEFINE T == {z \in Nat : h[z] \in St}
  <2>1. ASSUME NEW z \in Nat, \A j \in Nat : j < z => j \in T PROVE z \in T
    <3>1. CASE z = 0
      BY <1>3, <1>12, <3>1
    <3>2. CASE z # 0
      <4>1. (z - 1) \div 2 \in T
        BY <1>1, <2>1, <3>2
      <4>2. h[(z - 1) \div 2] \in St
        BY <4>1
      <4>3. h[z] \in St
        <5> HIDE DEF St
        <5> QED  BY <1>4, <1>12, <3>2, <4>2
      <4> QED  BY <4>3
    <3> QED  BY <3>1, <3>2
  <2>2. \A z \in Nat : z \in T
    <3> HIDE DEF T
    <3> QED  BY <2>1, StrongInduction
  <2> QED  BY <2>2
<1>14. h \in [Nat -> St]
  <2> HIDE DEF St
  <2> QED  BY <1>11, <1>13
<1> QED  BY <1>12, <1>14 DEF h, digit

\* The states of a run that takes the digits one by one, and what they come to.
RunStates(digits, r) ==
    /\ r[0].N \in Nat \ {0} /\ r[0].es \in Int
    /\ \A k \in 1 .. Len(digits) : r[k] = RunDigit(r[k - 1], digits[k])
RunComesTo(digits, r, z) ==
    /\ r[Len(digits)].es = r[0].es + r[0].N * z
    /\ \A k \in 1 .. Len(digits) : r[k - 1].N \in Nat /\ r[k - 1].N <= r[0].N * z

\* In a run's digits the first weighs one or two, all others twice as much as in
\* a run of their own.
LEMMA RunOf ==
    ASSUME NEW z \in Nat, NEW r, RunStates(RunDigits[z], r)
    PROVE  RunComesTo(RunDigits[z], r, z)
<1> DEFINE T == {y \in Nat : \A s : RunStates(RunDigits[y], s) =>
                                        RunComesTo(RunDigits[y], s, y)}
<1>1. ASSUME NEW y \in Nat, \A j \in Nat : j < y => j \in T PROVE y \in T
  <2> SUFFICES ASSUME NEW s, RunStates(RunDigits[y], s)
               PROVE  RunComesTo(RunDigits[y], s, y)
    OBVIOUS
  <2> DEFINE es == s[0].es
             N == s[0].N
  <2>1. N \in Nat \ {0} /\ es \in Int
    BY DEF RunStates
  <2>2. CASE y = 0
    <3>1. RunDigits[y] = << >>
      BY <2>2, RunDigitsSteps
    <3>2. Len(RunDigits[y]) = 0 /\ 1 .. 0 = {}
      BY <3>1
    <3>3. es = es + N * 0
      BY <2>1
    <3> HIDE DEF es, N
    <3>4. s[0].es = s[0].es + s[0].N * y
      BY <2>2, <3>3 DEF es, N
    <3> QED  BY <3>2, <3>4 DEF RunComesTo
  <2>3. CASE y # 0
    <3> DEFINE half == (y - 1) \div 2
               odd == (y - 1) % 2 = 1
               d == IF odd THEN symRUNB ELSE symRUNA
               more == RunDigits[half]
               all == RunDigits[y]
               t == [k \in 0 .. Len(more) |-> s[k + 1]]
    <3>1. /\ half \in Nat /\ half < y
          /\ y = (IF odd THEN 2 ELSE 1) + 2 * half
      BY <2>3
    <3>2. more \in Seq(Digits) /\ all = << d >> \o more
      BY <2>3, <3>1, RunDigitsSteps
    <3>3. << d >> \in Seq(Digits) /\ Len(<< d >>) = 1 /\ << d >>[1] = d
      BY DEF Digits
    <3> HIDE DEF more, all, d, half, odd
    <3>4. Len(more) \in Nat /\ Len(all) = 1 + Len(more)
      BY <3>2, <3>3, ConcatProperties
    <3>5. all[1] = d /\ \A k \in 1 .. Len(more) : all[k + 1] = more[k]
      <4>1. \A k \in 1 .. Len(<< d >>) : (<< d >> \o more)[k] = << d >>[k]
        BY <3>2, <3>3, ConcatProperties
      <4>2. \A k \in 1 .. Len(more) : (<< d >> \o more)[Len(<< d >>) + k] = more[k]
        BY <3>2, <3>3, ConcatProperties
      <4>3. \A k \in 1 .. Len(more) : 1 + k = k + 1
        BY <3>4
      <4> QED  BY <3>2, <3>3, <4>1, <4>2, <4>3
    <3>6. \A k \in 1 .. Len(all) : s[k] = RunDigit(s[k - 1], all[k])
      BY DEF RunStates, all
    <3>7. s[1] = [es |-> es + (IF odd THEN 2 ELSE 1) * N, N |-> 2 * N]
      <4>1. 1 \in 1 .. Len(all) /\ 1 - 1 = 0
        BY <3>4
      <4>2. s[1] = RunDigit(s[0], d)
        BY <3>5, <3>6, <4>1
      <4>3. (IF d = symRUNA THEN 1 ELSE 2) = IF odd THEN 2 ELSE 1
        BY DEF d, symRUNA, symRUNB
      <4> QED  BY <4>2, <4>3 DEF RunDigit
    <3>8. t[0] = s[1]
      <4>1. 0 \in 0 .. Len(more) /\ 0 + 1 = 1
        BY <3>4
      <4> QED  BY <4>1
    <3>9. t[0].N = 2 * N /\ t[0].es = es + (IF odd THEN 2 ELSE 1) * N
      BY <3>7, <3>8
    <3>10. t[0].N \in Nat \ {0} /\ t[0].es \in Int
      <4> HIDE DEF t, es, N
      <4> QED  BY <2>1, <3>9
    <3>11. ASSUME NEW k \in 1 .. Len(more) PROVE t[k] = RunDigit(t[k - 1], more[k])
      <4>1. /\ k \in 0 .. Len(more) /\ k - 1 \in 0 .. Len(more) /\ (k - 1) + 1 = k
            /\ k + 1 \in 1 .. Len(all) /\ (k + 1) - 1 = k
        BY <3>4
      <4>2. t[k] = s[k + 1] /\ t[k - 1] = s[k]
        BY <4>1
      <4>3. s[k + 1] = RunDigit(s[k], all[k + 1])
        BY <3>6, <4>1
      <4> QED  BY <3>5, <4>2, <4>3
    <3>12. RunStates(more, t)
      <4> HIDE DEF t
      <4> QED  BY <3>10, <3>11 DEF RunStates
    <3>13. RunComesTo(more, t, half)
      <4>1. half \in T
        BY <1>1, <3>1
      <4> HIDE DEF t
      <4>2. RunStates(RunDigits[half], t)
        BY <3>12 DEF more
      <4> QED  BY <4>1, <4>2 DEF more
    <3>14. s[Len(all)] = t[Len(more)]
      <4>1. Len(more) \in 0 .. Len(more) /\ Len(more) + 1 = Len(all)
        BY <3>4
      <4> QED  BY <4>1
    <3> DEFINE w == IF odd THEN 2 ELSE 1
    <3>15. w \in {1, 2} /\ y = w + 2 * half
      BY <3>1
    <3>16. t[0].es = es + w * N
      BY <3>9
    <3> HIDE DEF t, es, N, w
    <3>17. t[Len(more)].es = es + w * N + (2 * N) * half
      BY <3>9, <3>13, <3>16 DEF RunComesTo
    <3>18. N * y = w * N + (2 * N) * half
      BY <2>1, <3>1, <3>15
    <3>19. N <= N * y /\ (2 * N) * half <= N * y
      BY <2>1, <3>1, <3>15, <3>18
    <3>20. (2 * N) * half \in Int /\ w * N \in Int /\ N * y \in Int
      BY <2>1, <3>1, <3>15
    <3>21. s[Len(all)].es = es + N * y
      BY <2>1, <3>14, <3>17, <3>18, <3>20
    <3>22. ASSUME NEW k \in 1 .. Len(all) 
                PROVE  s[k - 1].N \in Nat /\ s[k - 1].N <= N * y
      <4>1. CASE k = 1
        <5>1. k - 1 = 0
          BY <4>1
        <5> QED  BY <2>1, <3>19, <5>1 DEF N
      <4>2. CASE k # 1
        <5>1. k - 1 \in 1 .. Len(more) /\ (k - 1) - 1 \in 0 .. Len(more) /\ ((k - 1) - 1) + 1 = k - 1
          BY <3>4, <4>2
        <5>2. t[(k - 1) - 1].N \in Nat /\ t[(k - 1) - 1].N <= (2 * N) * half
          BY <3>9, <3>13, <5>1 DEF RunComesTo
        <5>3. t[(k - 1) - 1] = s[k - 1]
          BY <5>1 DEF t
        <5>4. s[k - 1].N \in Nat /\ s[k - 1].N <= (2 * N) * half
          BY <5>2, <5>3
        <5> QED  BY <3>19, <3>20, <5>4
      <4> QED  BY <4>1, <4>2
    <3> QED  BY <3>21, <3>22 DEF RunComesTo, all, es, N
  <2> QED  BY <2>2, <2>3
<1>2. \A y \in Nat : y \in T
  <2> HIDE DEF T
  <2> QED  BY <1>1, StrongInduction
<1>3. z \in T
  BY <1>2
<1> QED  BY <1>3

\* The reader takes the digits written for a run of z zeros for a run of z, and
\* gives up on none of them as overflowing unless z reaches the limit
\* (mtf.go:59-77, reader.go:374-396).
THEOREM RunsDecode ==
    ASSUME NEW z \in Nat, NEW r, r[0] = NoRun, RunStates(RunDigits[z], r)
    PROVE  /\ r[Len(RunDigits[z])].es + 1 = z
           /\ z < RunLimit => \A k \in 1 .. Len(RunDigits[z]) : r[k - 1].N < RunLimit
<1>1. RunComesTo(RunDigits[z], r, z)
  BY RunOf
<1>2. r[0].es = -1 /\ r[0].N = 1
  BY DEF NoRun
<1>3. RunLimit \in Nat
  BY FormatAssumption, ReaderAssumption
<1>4. r[Len(RunDigits[z])].es = -1 + 1 * z
  BY <1>1, <1>2 DEF RunComesTo
<1>5. \A k \in 1 .. Len(RunDigits[z]) : r[k - 1].N \in Nat /\ r[k - 1].N <= 1 * z
  BY <1>1, <1>2 DEF RunComesTo
<1> QED  BY <1>3, <1>4, <1>5

-----------------------------------------------------------------------------
(* Symbols are read as the bytes they stand for.                            *)

\* What the reader keeps while it reads symbols, and what a symbol makes of it: the
\* part of ReadSymbol that is about the symbol's meaning.
Reading == [run |-> run, list |-> list, tt |-> tt]
Eob == head.nInUse + 1
Ended(s) == s.tt \o [i \in 1 .. s.run.es + 1 |-> ByteAt(s.list[1])]
After(s, sym) ==
    IF sym \in Digits THEN [run |-> RunDigit(s.run, sym), list |-> s.list, tt |-> s.tt]
    ELSE IF sym = Eob THEN [run |-> NoRun, list |-> s.list, tt |-> Ended(s)]
    ELSE [run |-> NoRun, list |-> MoveToFront(s.list, sym - 1),
          tt |-> Append(Ended(s), ByteAt(s.list[sym]))]
\* The reader has no objection to it.
Accepted(s, sym) ==
    IF sym \in Digits THEN s.run.N < RunLimit
    ELSE /\ Len(Ended(s)) <= MaxBlock
         /\ sym # Eob => Len(Ended(s)) < MaxBlock /\ sym \in DOMAIN s.list

\* The states r of a reader that takes the symbols of a sequence, and that it has no
\* objection to any.
Taken(seq, r) == \A k \in 1 .. Len(seq) : r[k] = After(r[k - 1], seq[k])
Welcome(seq, r) == \A k \in 1 .. Len(seq) : Accepted(r[k - 1], seq[k])
Later(r, m, len) == [k \in 0 .. len |-> r[m + k]]

\* Taking one sequence behind another.
LEMMA TakenParts ==
    ASSUME NEW S, NEW a \in Seq(S), NEW b \in Seq(S), NEW r, Taken(a \o b, r)
    PROVE  /\ Taken(a, r) /\ Taken(b, Later(r, Len(a), Len(b)))
           /\ Later(r, Len(a), Len(b))[0] = r[Len(a)]
           /\ Later(r, Len(a), Len(b))[Len(b)] = r[Len(a \o b)]
<1> DEFINE q == Later(r, Len(a), Len(b))
<1>1. Len(a) \in Nat /\ Len(b) \in Nat /\ Len(a \o b) = Len(a) + Len(b)
  BY JoinedItems
<1>2. \A k \in 1 .. Len(a \o b) : r[k] = After(r[k - 1], (a \o b)[k])
  BY DEF Taken
<1>3. Taken(a, r)
  BY <1>2, JoinedItems DEF Taken
<1>4. ASSUME NEW k \in 0 .. Len(b) PROVE q[k] = r[Len(a) + k]
  BY DEF Later
<1> HIDE DEF q
<1>5. ASSUME NEW k \in 1 .. Len(b) PROVE q[k] = After(q[k - 1], b[k])
  <2>1. /\ k \in 0 .. Len(b) /\ k - 1 \in 0 .. Len(b)
        /\ Len(a) + (k - 1) = (Len(a) + k) - 1
    BY <1>1
  <2>2. q[k] = r[Len(a) + k] /\ q[k - 1] = r[(Len(a) + k) - 1]
    BY <1>4, <2>1
  <2>3. (a \o b)[Len(a) + k] = b[k] /\ Len(a) + k \in 1 .. Len(a \o b)
    BY JoinedItems
  <2> QED  BY <1>2, <2>2, <2>3
<1>6. Taken(b, q)
  BY <1>5 DEF Taken
<1>7. /\ 0 \in 0 .. Len(b) /\ Len(b) \in 0 .. Len(b)
      /\ Len(a) + 0 = Len(a)
  BY <1>1
<1>8. q[0] = r[Len(a)] /\ q[Len(b)] = r[Len(a \o b)]
  BY <1>1, <1>4, <1>7
<1> QED  BY <1>3, <1>6, <1>8 DEF q

LEMMA WelcomeParts ==
    ASSUME NEW S, NEW a \in Seq(S), NEW b \in Seq(S), NEW r, Welcome(a, r),
           Welcome(b, Later(r, Len(a), Len(b)))
    PROVE  Welcome(a \o b, r)
<1> DEFINE q == Later(r, Len(a), Len(b))
<1>1. Len(a) \in Nat /\ Len(b) \in Nat /\ Len(a \o b) = Len(a) + Len(b)
  BY JoinedItems
<1>2. ASSUME NEW k \in 0 .. Len(b) PROVE q[k] = r[Len(a) + k]
  BY DEF Later
<1>3. \A k \in 1 .. Len(b) : Accepted(q[k - 1], b[k])
  BY DEF Welcome
<1> HIDE DEF q
<1>4. ASSUME NEW k \in 1 .. Len(a \o b) PROVE Accepted(r[k - 1], (a \o b)[k])
  <2>1. CASE k \in 1 .. Len(a)
    BY <2>1, JoinedItems DEF Welcome
  <2>2. CASE k \notin 1 .. Len(a)
    <3> DEFINE d == k - Len(a)
    <3>1. d \in 1 .. Len(b) /\ k = Len(a) + d /\ d - 1 \in 0 .. Len(b) /\ Len(a) + (d - 1) = k - 1
      BY <1>1, <2>2
    <3> HIDE DEF d
    <3>2. (a \o b)[k] = b[d]
      BY <3>1, JoinedItems
    <3>3. q[d - 1] = r[k - 1]
      BY <1>2, <3>1
    <3> QED  BY <1>3, <3>1, <3>2, <3>3
  <2> QED  BY <2>1, <2>2
<1> QED  BY <1>4 DEF Welcome

Stands(s, a, l, t) == s = [run |-> a, list |-> l, tt |-> t]

LEMMA Fields ==
    ASSUME NEW s, NEW a, NEW l, NEW t, Stands(s, a, l, t)
    PROVE  s.run = a /\ s.list = l /\ s.tt = t
BY DEF Stands

\* The digits of a run leave everything but the run alone.
LEMMA RunTaken ==
    ASSUME ReaderAssumption, NEW z \in Nat, NEW l, NEW t, NEW r,
           Stands(r[0], NoRun, l, t), Taken(RunDigits[z], r)
    PROVE  /\ \E last : /\ Stands(r[Len(RunDigits[z])], last, l, t)
                        /\ last.es + 1 = z
           /\ z < RunLimit => Welcome(RunDigits[z], r)
<1> DEFINE digits == RunDigits[z]
           n == Len(digits)
           q == [k \in 0 .. n |-> r[k].run]
           St == [k \in 0 .. n |-> {s \in {r[k]} : Stands(s, q[k], l, t)}]
<1>1. digits \in Seq(Digits)
  BY RunDigitsSteps
<1> HIDE DEF digits
<1>2. n \in Nat /\ \A k \in 1 .. n : digits[k] \in Digits
  BY <1>1
<1>3. \A k \in 1 .. n : r[k] = After(r[k - 1], digits[k])
  BY DEF Taken, digits
<1>4. ASSUME NEW k \in 1 .. n
      PROVE  Stands(r[k], RunDigit(r[k - 1].run, digits[k]), r[k - 1].list, r[k - 1].tt)
  BY <1>2, <1>3 DEF After, Stands
<1>5. \A k \in 0 .. n : q[k] = r[k].run
  OBVIOUS
<1>13. ASSUME NEW k \in 1 .. n
       PROVE  /\ r[k].run = RunDigit(r[k - 1].run, digits[k])
              /\ r[k].list = r[k - 1].list /\ r[k].tt = r[k - 1].tt
  BY <1>4, Fields
<1>6. q[0] = NoRun
  <2>1. 0 \in 0 .. n
    BY <1>2
  <2> QED  BY <1>5, <2>1, Fields
<1> HIDE DEF q, n
<1>7. \A k \in 0 .. n : r[k] \in St[k]
  <2>1. r[0] \in St[0]
    <3>1. 0 \in 0 .. n
      BY <1>2
    <3> QED  BY <1>6, <3>1
  <2>2. ASSUME NEW k \in 1 .. n, r[k - 1] \in St[k - 1] PROVE r[k] \in St[k]
    <3>1. k \in 0 .. n /\ k - 1 \in 0 .. n
      BY <1>2
    <3>2. r[k - 1].list = l /\ r[k - 1].tt = t
      <4>1. Stands(r[k - 1], q[k - 1], l, t)
        BY <2>2, <3>1
      <4> QED  BY <4>1, Fields
    <3>3. q[k] = r[k].run
      BY <1>5, <3>1
    <3>4. Stands(r[k], q[k], l, t)
      BY <1>4, <1>13, <3>2, <3>3
    <3> QED  BY <3>1, <3>4
  <2> HIDE DEF St
  <2> QED  BY <1>2, <2>1, <2>2, RecursionInvariant
<1>8. ASSUME NEW k \in 1 .. n PROVE q[k] = RunDigit(q[k - 1], digits[k])
  <2>1. k \in 0 .. n /\ k - 1 \in 0 .. n
    BY <1>2
  <2>2. q[k] = r[k].run /\ q[k - 1] = r[k - 1].run
    BY <1>5, <2>1
  <2> QED  BY <1>13, <2>2
<1>9. RunStates(digits, q)
  <2>1. q[0].N = 1 /\ q[0].es = -1
    BY <1>6 DEF NoRun
  <2> QED  BY <1>8, <2>1 DEF RunStates, n
<1>10. /\ q[n].es + 1 = z
       /\ z < RunLimit => \A k \in 1 .. n : q[k - 1].N < RunLimit
  BY <1>6, <1>9, RunsDecode DEF digits, n
<1>11. n \in 0 .. n /\ Stands(r[n], q[n], l, t)
  BY <1>2, <1>7
<1>12. ASSUME z < RunLimit, NEW k \in 1 .. n PROVE Accepted(r[k - 1], digits[k])
  <2>1. k - 1 \in 0 .. n
    BY <1>2
  <2>2. r[k - 1].run.N < RunLimit
    BY <1>5, <1>10, <1>12, <2>1
  <2> QED  BY <1>2, <2>2 DEF Accepted
<1> QED  BY <1>10, <1>11, <1>12 DEF Welcome, n, digits

\* What a run of z and the symbol behind it make of the reader's list and bytes.
Copies(l, z) == [i \in 1 .. z |-> ByteAt(l[1])]
AfterItem(l, t, z, sym) ==
    IF sym = Eob THEN [run |-> NoRun, list |-> l, tt |-> t \o Copies(l, z)]
    ELSE [run |-> NoRun, list |-> MoveToFront(l, sym - 1),
          tt |-> Append(t \o Copies(l, z), ByteAt(l[sym]))]
ItemFits(l, t, z, sym) ==
    /\ z < RunLimit
    /\ Len(t \o Copies(l, z)) <= MaxBlock
    /\ sym # Eob => Len(t \o Copies(l, z)) < MaxBlock /\ sym \in DOMAIN l

\* The symbols made of a run of z and of the symbol that ended it, behind others.
Item(a, z, sym) == a \o RunDigits[z] \o << sym >>

LEMMA ItemTaken ==
    ASSUME ReaderAssumption, NEW a \in Seq(Nat), NEW z \in Nat, NEW sym \in Nat \ Digits,
           NEW l, NEW t, NEW r, Taken(Item(a, z, sym), r),
           Stands(r[Len(a)], NoRun, l, t)
    PROVE  /\ Taken(a, r)
           /\ r[Len(Item(a, z, sym))] = AfterItem(l, t, z, sym)
           /\ Welcome(a, r) /\ ItemFits(l, t, z, sym)
                  => Welcome(Item(a, z, sym), r)
<1> DEFINE digits == RunDigits[z]
           last == << sym >>
           ad == a \o digits
           q == Later(r, Len(a), Len(digits))
           p == Later(r, Len(ad), Len(last))
<1>1. digits \in Seq(Nat) /\ last \in Seq(Nat) /\ Len(last) = 1 /\ last[1] = sym
  <2>1. Digits \subseteq Nat
    BY DEF Digits, symRUNA, symRUNB
  <2>2. digits \in Seq(Digits)
    BY RunDigitsSteps
  <2> HIDE DEF digits
  <2>5. digits \in [1 .. Len(digits) -> Digits] /\ Len(digits) \in Nat
    BY <2>2
  <2>3. digits \in [1 .. Len(digits) -> Nat] /\ Len(digits) \in Nat
    BY <2>1, <2>5
  <2>4. digits \in Seq(Nat)
    BY <2>3
  <2> QED  BY <2>4
<1>2. Taken(digits, q) /\ q[0] = r[Len(a)] /\ q[Len(digits)] = r[Len(ad)]
      /\ Taken(last, p) /\ p[0] = r[Len(ad)] /\ p[Len(last)] = r[Len(ad \o last)]
      /\ Taken(a, r) /\ ad \in Seq(Nat)
  <2> HIDE DEF digits, last
  <2>1. ad \in Seq(Nat)
    BY <1>1, JoinedItems
  <2>2. Taken(ad \o last, r)
    BY DEF digits, last, Item
  <2>3. Taken(ad, r) /\ Taken(last, p) /\ p[0] = r[Len(ad)] /\ p[Len(last)] = r[Len(ad \o last)]
    <3>1. last \in Seq(Nat)
      BY <1>1
    <3> HIDE DEF ad
    <3> QED  BY <2>1, <2>2, <3>1, TakenParts
  <2>4. Taken(a, r) /\ Taken(digits, q) /\ q[0] = r[Len(a)] /\ q[Len(digits)] = r[Len(ad)]
    BY <1>1, <2>3, TakenParts
  <2> QED  BY <2>1, <2>3, <2>4
<1> HIDE DEF q, p, ad, last
<1>3. PICK run1 : /\ Stands(q[Len(digits)], run1, l, t)
                  /\ run1.es + 1 = z
  <2>1. Stands(q[0], NoRun, l, t)
    BY <1>2
  <2>2. Taken(RunDigits[z], q)
    BY <1>2
  <2> QED  BY <2>1, <2>2, RunTaken
<1>4. z < RunLimit => Welcome(digits, q)
  BY <1>2, RunTaken
<1> HIDE DEF digits
<1>5. Stands(p[0], run1, l, t)
  BY <1>2, <1>3
<1>6. Ended(p[0]) = t \o Copies(l, z)
  <2>1. p[0].run = run1 /\ p[0].list = l /\ p[0].tt = t
    BY <1>5, Fields
  <2> DEFINE s == p[0]
  <2>2. s.run.es + 1 = z /\ s.list[1] = l[1] /\ s.tt = t
    BY <1>3, <2>1
  <2> HIDE DEF s
  <2>3. Ended(s) = s.tt \o [i \in 1 .. s.run.es + 1 |-> ByteAt(s.list[1])]
    BY DEF Ended
  <2>4. Ended(s) = t \o [i \in 1 .. z |-> ByteAt(l[1])]
    BY <2>2, <2>3
  <2> QED  BY <2>4 DEF s, Copies
<1>7. p[1] = After(p[0], sym)
  <2>1. 1 \in 1 .. Len(last) /\ 1 - 1 = 0
    BY <1>1
  <2> QED  BY <1>1, <1>2, <2>1 DEF Taken
<1>8. p[1] = AfterItem(l, t, z, sym)
  BY <1>5, <1>6, <1>7, Fields DEF After, AfterItem
<1>9. r[Len(ad \o last)] = AfterItem(l, t, z, sym)
  BY <1>1, <1>2, <1>8
<1>10. ASSUME Welcome(a, r), ItemFits(l, t, z, sym) PROVE Welcome(ad \o last, r)
  <2>1. Welcome(digits, q)
    BY <1>4, <1>10 DEF ItemFits
  <2>2. Welcome(ad, r)
    BY <1>1, <1>10, <2>1, WelcomeParts DEF ad, q
  <2>3. Accepted(p[0], sym)
    BY <1>5, <1>6, <1>10, Fields DEF Accepted, ItemFits
  <2>4. Welcome(last, p)
    <3>1. \A k \in 1 .. Len(last) : k = 1 /\ k - 1 = 0
      BY <1>1
    <3> QED  BY <1>1, <2>3, <3>1 DEF Welcome
  <2> QED  BY <1>1, <1>2, <2>2, <2>4, WelcomeParts DEF p
<1> QED  BY <1>2, <1>9, <1>10 DEF ad, digits, last, Item

\* What the writer keeps while it makes the symbols of a block.
Encoding(size) == [list : Permuted(size), zPend : Nat, mtfv : Seq(0 .. size)]
\* The next symbol makes the run longer, or is found behind the front.
Longer(s, next) == next.list = s.list /\ next.zPend = s.zPend + 1 /\ next.mtfv = s.mtfv
MovedUp(s, q, next) ==
    /\ next.list = MoveToFront(s.list, q) /\ next.zPend = 0
    /\ next.mtfv = s.mtfv \o RunDigits[s.zPend] \o << q + 1 >>

LEMMA EncodeSymbolCases ==
    ASSUME NEW size \in Nat \ {0}, NEW s \in Encoding(size), NEW x \in 0 .. size - 1
    PROVE  /\ EncodeSymbol(s, x) \in Encoding(size)
           /\ s.list[1] = x => Longer(s, EncodeSymbol(s, x))
           /\ s.list[1] # x => \E q \in 1 .. size - 1 : /\ s.list[q + 1] = x
                                                        /\ MovedUp(s, q, EncodeSymbol(s, x))
<1>1. s.list \in Permuted(size) /\ s.zPend \in Nat /\ s.mtfv \in Seq(0 .. size)
  BY DEF Encoding
<1>2. CASE s.list[1] = x
  <2>1. EncodeSymbol(s, x) = [s EXCEPT !.zPend = s.zPend + 1]
    BY <1>2 DEF EncodeSymbol
  <2>2. EncodeSymbol(s, x) = [list |-> s.list, zPend |-> s.zPend + 1, mtfv |-> s.mtfv]
    BY <2>1 DEF Encoding
  <2> QED  BY <1>1, <1>2, <2>2 DEF Encoding, Longer
<1>3. CASE s.list[1] # x
  <2> DEFINE q == PositionOf(s.list, x)
  <2>1. s.list \in Lists(size) /\ Complete(size, s.list)
    BY <1>1 DEF Permuted
  <2>2. q \in 0 .. size - 1 /\ s.list[q + 1] = x
    BY <2>1, PositionFound
  <2>3. EncodeSymbol(s, x) = [list |-> MoveToFront(s.list, q), zPend |-> 0,
                              mtfv |-> s.mtfv \o RunDigits[s.zPend] \o << q + 1 >>]
    BY <1>3 DEF EncodeSymbol
  <2> HIDE DEF q
  <2>4. q # 0
    BY <1>3, <2>2
  <2>5. q \in 1 .. size - 1 /\ q + 1 \in 0 .. size
    BY <2>2, <2>4
  <2>6. MoveToFront(s.list, q) \in Permuted(size)
    BY <1>1, <2>2, MoveToFrontPermuted
  <2>7. RunDigits[s.zPend] \in Seq(0 .. size)
    <3>1. RunDigits[s.zPend] \in Seq(Digits)
      BY <1>1, RunDigitsSteps
    <3>2. Digits \subseteq 0 .. size
      BY DEF Digits, symRUNA, symRUNB
    <3> QED  BY <3>1, <3>2, SeqIn
  <2>8. << q + 1 >> \in Seq(0 .. size)
    BY <2>5
  <2>9. s.mtfv \o RunDigits[s.zPend] \o << q + 1 >> \in Seq(0 .. size)
    <3>1. s.mtfv \o RunDigits[s.zPend] \in Seq(0 .. size)
      BY <1>1, <2>7, ConcatProperties
    <3> QED  BY <2>8, <3>1, ConcatProperties
  <2>10. EncodeSymbol(s, x) \in Encoding(size)
    BY <2>3, <2>6, <2>9 DEF Encoding
  <2>11. MovedUp(s, q, EncodeSymbol(s, x))
    <3> DEFINE made == s.mtfv \o RunDigits[s.zPend] \o << q + 1 >>
               next == EncodeSymbol(s, x)
               moved == MoveToFront(s.list, q)
    <3>1. next = [list |-> moved, zPend |-> 0, mtfv |-> made]
      BY <2>3
    <3> HIDE DEF made, next, moved
    <3>2. next.list = moved /\ next.zPend = 0 /\ next.mtfv = made
      BY <3>1
    <3> QED  BY <3>2 DEF MovedUp, made, next, moved
  <2> QED  BY <1>3, <2>2, <2>5, <2>10, <2>11
<1> QED  BY <1>2, <1>3

\* The states of the writer, one after each symbol.
EncoderIs(n, size, symbols, f) ==
    f = [k \in 0 .. n |->
            IF k = 0 THEN [list |-> InitialList(size), zPend |-> 0, mtfv |-> << >>]
            ELSE EncodeSymbol(f[k - 1], symbols[k])]

LEMMA EncoderExists ==
    ASSUME NEW size \in Nat \ {0}, NEW symbols \in Seq(0 .. size - 1)
    PROVE  \E f \in [0 .. Len(symbols) -> Encoding(size)] :
               EncoderIs(Len(symbols), size, symbols, f)
<1> DEFINE n == Len(symbols)
           St == Encoding(size)
           start == [list |-> InitialList(size), zPend |-> 0, mtfv |-> << >>]
           F == [x \in St \X (1 .. n) |-> EncodeSymbol(x[1], symbols[x[2]])]
<1>1. n \in Nat /\ \A k \in 1 .. n : symbols[k] \in 0 .. size - 1
  OBVIOUS
<1>2. start \in St
  BY InitialListPermuted DEF Encoding
<1>3. ASSUME NEW s \in St, NEW k \in 1 .. n PROVE EncodeSymbol(s, symbols[k]) \in St
  BY <1>1, EncodeSymbolCases
<1>4. F \in [St \X (1 .. n) -> St]
  <2> HIDE DEF St
  <2> QED  BY <1>3
<1>5. StepsTaken(n, St, start, F)
  <2> HIDE DEF F, St, start, n
  <2> QED  BY <1>1, <1>2, <1>4, RecursionExists
<1>6. PICK g \in [0 .. n -> St] :
           g[0] = start /\ \A k \in 1 .. n : g[k] = F[<< g[k - 1], k >>]
  BY <1>5 DEF StepsTaken
<1> HIDE DEF St
<1>7. ASSUME NEW k \in 1 .. n PROVE g[k] = EncodeSymbol(g[k - 1], symbols[k])
  <2>1. k - 1 \in 0 .. n
    BY <1>1
  <2>2. << g[k - 1], k >> \in St \X (1 .. n)
    BY <2>1
  <2> QED  BY <1>6, <2>2
<1>8. \A k \in 0 .. n : k = 0 \/ k \in 1 .. n
  BY <1>1
<1> HIDE DEF start
<1>9. \A k \in 0 .. n : g[k] = IF k = 0 THEN start ELSE EncodeSymbol(g[k - 1], symbols[k])
  BY <1>6, <1>7, <1>8
<1>10. g = [k \in 0 .. n |-> g[k]]
  OBVIOUS
<1>11. g = [k \in 0 .. n |-> IF k = 0 THEN start ELSE EncodeSymbol(g[k - 1], symbols[k])]
  BY <1>9, <1>10
<1>12. EncoderIs(n, size, symbols, g)
  BY <1>11 DEF EncoderIs, start
<1> QED  BY <1>12 DEF St

LEMMA EncoderStates ==
    ASSUME NEW size \in Nat \ {0}, NEW symbols \in Seq(0 .. size - 1)
    PROVE  \E e \in [0 .. Len(symbols) -> Encoding(size)] :
               /\ e[0] = [list |-> InitialList(size), zPend |-> 0, mtfv |-> << >>]
               /\ \A k \in 1 .. Len(symbols) : e[k] = EncodeSymbol(e[k - 1], symbols[k])
               /\ GenerateMTFValues(symbols, size)
                  = e[Len(symbols)].mtfv \o RunDigits[e[Len(symbols)].zPend] \o << size + 1 >>
<1> DEFINE n == Len(symbols)
           e == CHOOSE f : EncoderIs(n, size, symbols, f)
           start == [list |-> InitialList(size), zPend |-> 0, mtfv |-> << >>]
<1>1. PICK g \in [0 .. n -> Encoding(size)] : EncoderIs(n, size, symbols, g)
  BY EncoderExists
<1>2. EncoderIs(n, size, symbols, e)
  BY <1>1
<1>3. GenerateMTFValues(symbols, size) = e[n].mtfv \o RunDigits[e[n].zPend] \o << size + 1 >>
  BY DEF GenerateMTFValues, EncoderIs
<1> HIDE DEF e
<1>4. n \in Nat /\ 0 \in 0 .. n /\ \A k \in 1 .. n : k \in 0 .. n /\ k # 0
  OBVIOUS
<1>5. e[0] = start /\ \A k \in 1 .. n : e[k] = EncodeSymbol(e[k - 1], symbols[k])
  <2>1. e = [k \in 0 .. n |-> IF k = 0 THEN start ELSE EncodeSymbol(e[k - 1], symbols[k])]
    BY <1>2 DEF EncoderIs
  <2> HIDE DEF start, n
  <2> QED  BY <1>4, <2>1
<1>6. g[0] = start /\ \A k \in 1 .. n : g[k] = EncodeSymbol(g[k - 1], symbols[k])
  <2>1. g = [k \in 0 .. n |-> IF k = 0 THEN start ELSE EncodeSymbol(g[k - 1], symbols[k])]
    BY <1>1 DEF EncoderIs
  <2> HIDE DEF start, n
  <2> QED  BY <1>4, <2>1
<1>7. \A k \in 0 .. n : e[k] = g[k]
  <2> HIDE DEF start
  <2>1. StepAlike(n, e, g)
    BY <1>5, <1>6 DEF StepAlike
  <2> HIDE DEF n
  <2> QED  BY <1>4, <2>1, RecursionSame
<1>8. DOMAIN e = 0 .. n /\ e = [k \in 0 .. n |-> e[k]]
  BY <1>2 DEF EncoderIs
<1>9. e \in [0 .. n -> Encoding(size)]
  BY <1>7, <1>8
<1> QED  BY <1>3, <1>5, <1>9

\* The bytes the first m symbols stand for.
Spelled(symbols, m) == [i \in 1 .. m |-> ByteAt(symbols[i])]
\* The reader's list, over all byte values, begins like the writer's.
Alike(size, l, w) == l \in Lists(A) /\ \A i \in 1 .. size : l[i] = w[i]
AtStart(r) == Stands(r[0], NoRun, InitialList(A), << >>)
\* Who reads coded from the start has m of the symbols and the writer's list.
ReadsTo(coded, size, w, symbols, m) ==
    \A r : AtStart(r) /\ Taken(coded, r) =>
               /\ Welcome(coded, r)
               /\ \E l : /\ Alike(size, l, w)
                         /\ Stands(r[Len(coded)], NoRun, l, Spelled(symbols, m))
\* What the writer has made of k symbols is read as all but the run at their end.
Matches(size, symbols, k, s) ==
    /\ s.zPend \in 0 .. k
    /\ \A i \in k - s.zPend + 1 .. k : symbols[i] = s.list[1]
    /\ ReadsTo(s.mtfv, size, s.list, symbols, k - s.zPend)

LEMMA AlikeMoved ==
    ASSUME NEW size \in 1 .. A, A \in Nat, NEW l, NEW w \in Lists(size), Alike(size, l, w),
           NEW q \in 0 .. size - 1
    PROVE  Alike(size, MoveToFront(l, q), MoveToFront(w, q))
<1>1. l \in Seq(0 .. A - 1) /\ Len(l) = A /\ w \in Seq(0 .. size - 1) /\ Len(w) = size
  BY DEF Lists, Alike
<1>2. \A i \in 1 .. size : l[i] = w[i]
  BY DEF Alike
<1>3. q \in 0 .. Len(l) - 1 /\ q \in 0 .. Len(w) - 1
  BY <1>1
<1>4. /\ MoveToFront(l, q) \in Seq(0 .. A - 1) /\ Len(MoveToFront(l, q)) = A
      /\ MoveToFront(l, q)[1] = l[q + 1]
      /\ \A i \in 1 .. q : MoveToFront(l, q)[i + 1] = l[i]
      /\ \A i \in q + 2 .. A : MoveToFront(l, q)[i] = l[i]
  BY <1>1, <1>3, MoveToFrontItems, ZenonT(60)
<1>5. /\ MoveToFront(w, q)[1] = w[q + 1]
      /\ \A i \in 1 .. q : MoveToFront(w, q)[i + 1] = w[i]
      /\ \A i \in q + 2 .. size : MoveToFront(w, q)[i] = w[i]
  BY <1>1, <1>3, MoveToFrontItems, ZenonT(60)
<1>6. ASSUME NEW i \in 1 .. size PROVE MoveToFront(l, q)[i] = MoveToFront(w, q)[i]
  <2>1. CASE i = 1
    <3>1. q + 1 \in 1 .. size
      OBVIOUS
    <3> QED  BY <1>2, <1>4, <1>5, <2>1, <3>1
  <2>2. CASE i \in 2 .. q + 1
    <3>1. i - 1 \in 1 .. q /\ (i - 1) + 1 = i /\ i - 1 \in 1 .. size
      BY <2>2
    <3>2. MoveToFront(l, q)[(i - 1) + 1] = l[i - 1] /\ MoveToFront(w, q)[(i - 1) + 1] = w[i - 1]
      BY <1>4, <1>5, <3>1
    <3> QED  BY <1>2, <3>1, <3>2
  <2>3. CASE i \in q + 2 .. size
    <3>1. i \in q + 2 .. A
      BY <2>3
    <3> QED  BY <1>2, <1>4, <1>5, <2>3, <3>1
  <2>4. i = 1 \/ i \in 2 .. q + 1 \/ i \in q + 2 .. size
    OBVIOUS
  <2> QED  BY <2>1, <2>2, <2>3, <2>4
<1> QED  BY <1>4, <1>6 DEF Alike, Lists

Continued(symbols, m, z, l) ==
    Spelled(symbols, m) \o Copies(l, z) = Spelled(symbols, m + z)
RunAt(symbols, m, z, l) == \A i \in m + 1 .. m + z : symbols[i] = l[1]

\* A run's copies, and the byte behind them.
LEMMA SpelledOn ==
    ASSUME FormatAssumption, HeadOK(head), NEW symbols, NEW m \in Nat, NEW z \in Nat, NEW l,
           RunAt(symbols, m, z, l)
    PROVE  /\ Continued(symbols, m, z, l)
           /\ Len(Spelled(symbols, m)) = m
           /\ Append(Spelled(symbols, m), ByteAt(symbols[m + 1])) = Spelled(symbols, m + 1)
<1> DEFINE a == Spelled(symbols, m)
           b == Copies(l, z)
           c == Spelled(symbols, m + z)
           d == Spelled(symbols, m + 1)
           x == ByteAt(symbols[m + 1])
<1>1. /\ a \in [1 .. m -> Bytes] /\ b \in [1 .. z -> Bytes] /\ c \in [1 .. m + z -> Bytes]
      /\ d \in [1 .. m + 1 -> Bytes] /\ x \in Bytes
  BY ByteAtType DEF Spelled, Copies
<1>2. /\ \A i \in 1 .. m : a[i] = ByteAt(symbols[i])
      /\ \A i \in 1 .. z : b[i] = ByteAt(l[1])
      /\ \A i \in 1 .. m + z : c[i] = ByteAt(symbols[i])
      /\ \A i \in 1 .. m + 1 : d[i] = ByteAt(symbols[i])
  BY DEF Spelled, Copies
<1> HIDE DEF a, b, c, d, x
<1>3. /\ a \in Seq(Bytes) /\ Len(a) = m /\ b \in Seq(Bytes) /\ Len(b) = z
      /\ c \in Seq(Bytes) /\ Len(c) = m + z /\ d \in Seq(Bytes) /\ Len(d) = m + 1
  <2>1. m + z \in Nat /\ m + 1 \in Nat
    OBVIOUS
  <2>2. a \in Seq(Bytes) /\ Len(a) = m
    <3>1. a \in [1 .. m -> Bytes]
      BY <1>1
    <3> QED  BY <2>1, <3>1, SMTT(30)
  <2>3. b \in Seq(Bytes) /\ Len(b) = z
    <3>1. b \in [1 .. z -> Bytes]
      BY <1>1
    <3> QED  BY <2>1, <3>1
  <2>4. c \in Seq(Bytes) /\ Len(c) = m + z
    <3>1. c \in [1 .. m + z -> Bytes]
      BY <1>1
    <3> QED  BY <2>1, <3>1
  <2>5. d \in Seq(Bytes) /\ Len(d) = m + 1
    <3>1. d \in [1 .. m + 1 -> Bytes]
      BY <1>1
    <3> QED  BY <2>1, <3>1
  <2> QED  BY <2>2, <2>3, <2>4, <2>5
<1>4. a \o b = c
  <2>1. a \o b \in Seq(Bytes) /\ Len(a \o b) = m + z
    BY <1>3, JoinedItems, ZenonT(60)
  <2>2. ASSUME NEW i \in 1 .. m + z PROVE (a \o b)[i] = c[i]
    <3>1. CASE i \in 1 .. m
      BY <1>2, <1>3, <3>1, JoinedItems
    <3>2. CASE i \notin 1 .. m
      <4> DEFINE j == i - m
      <4>1. j \in 1 .. z /\ m + j = i /\ i \in m + 1 .. m + z
        BY <3>2
      <4> HIDE DEF j
      <4>2. (a \o b)[Len(a) + j] = b[j]
        <5>1. j \in 1 .. Len(b)
          BY <1>3, <4>1
        <5>2. a \in Seq(Bytes) /\ b \in Seq(Bytes)
          BY <1>3
        <5> QED  BY <5>1, <5>2, JoinedSecond
      <4>3. b[j] = ByteAt(l[1]) /\ symbols[i] = l[1]
        BY <1>2, <4>1 DEF RunAt
      <4> QED  BY <1>2, <1>3, <4>1, <4>2, <4>3
    <3> QED  BY <3>1, <3>2
  <2> QED  BY <1>3, <2>1, <2>2, SeqEqual
<1>5. Append(a, x) = d
  <2>1. Append(a, x) \in Seq(Bytes) /\ Len(Append(a, x)) = m + 1
    BY <1>1, <1>3, AppendProperties
  <2>2. ASSUME NEW i \in 1 .. m + 1 PROVE Append(a, x)[i] = d[i]
    <3>1. Append(a, x)[i] = IF i = m + 1 THEN x ELSE a[i]
      BY <1>1, <1>3, AppendProperties
    <3>2. i # m + 1 => i \in 1 .. m
      OBVIOUS
    <3> QED  BY <1>2, <3>1, <3>2 DEF x
  <2> QED  BY <1>3, <2>1, <2>2, SeqEqual
<1> QED  BY <1>3, <1>4, <1>5 DEF a, b, c, d, x, Continued

LEMMA TakenFirst ==
    ASSUME NEW S, NEW a \in Seq(S), NEW b \in Seq(S), NEW c \in Seq(S), NEW r,
           Taken(a \o b \o c, r)
    PROVE  Taken(a, r)
<1> DEFINE ab == a \o b
<1>1. ab \in Seq(S)
  BY JoinedItems
<1>2. Taken(ab, r)
  <2> HIDE DEF ab
  <2>1. Taken(ab \o c, r)
    BY DEF ab
  <2> QED  BY <1>1, <2>1, TakenParts
<1> QED  BY <1>2, TakenParts

ReadAs(l, symbols, k, sym) ==
    IF sym = Eob THEN [run |-> NoRun, list |-> l, tt |-> Spelled(symbols, k)]
    ELSE [run |-> NoRun, list |-> MoveToFront(l, sym - 1),
          tt |-> Append(Spelled(symbols, k), ByteAt(l[sym]))]

\* An item the writer makes is read as the run and the byte it stands for.
LEMMA ItemRead ==
    ASSUME FormatAssumption, ReaderAssumption, HeadOK(head), NEW size, size = head.nInUse,
           NEW symbols \in Seq(0 .. size - 1), NEW k \in 0 .. Len(symbols),
           NEW s \in Encoding(size), Matches(size, symbols, k, s), k < RunLimit, k <= MaxBlock,
           NEW sym \in Nat \ Digits,
           sym # Eob => k < MaxBlock /\ sym \in 2 .. size,
           NEW r, AtStart(r), Taken(Item(s.mtfv, s.zPend, sym), r)
    PROVE  /\ Welcome(Item(s.mtfv, s.zPend, sym), r)
           /\ \E l : /\ Alike(size, l, s.list)
                     /\ r[Len(Item(s.mtfv, s.zPend, sym))] = ReadAs(l, symbols, k, sym)
<1> DEFINE a == s.mtfv
           z == s.zPend
           m == k - z
           t == Spelled(symbols, m)
           coded == Item(a, z, sym)
<1>1. /\ s.list \in Permuted(size) /\ a \in Seq(0 .. size)
      /\ size \in 1 .. A /\ A \in Nat /\ Len(symbols) \in Nat
  BY DEF Encoding, HeadOK, FormatAssumption
<1>2. /\ z \in 0 .. k
      /\ \A i \in k - z + 1 .. k : symbols[i] = s.list[1]
      /\ ReadsTo(a, size, s.list, symbols, m)
  BY DEF Matches
<1>3. z \in Nat /\ m \in Nat /\ m + z = k /\ k \in Nat /\ k - z + 1 = m + 1
  BY <1>1, <1>2
<1>4. a \in Seq(Nat)
  <2>1. 0 .. size \subseteq Nat
    OBVIOUS
  <2> QED  BY <1>1, <2>1, SeqIn
<1>5. RunDigits[z] \in Seq(Nat) /\ << sym >> \in Seq(Nat)
  <2>1. RunDigits[z] \in Seq(Digits)
    BY <1>3, RunDigitsSteps
  <2>2. Digits \subseteq Nat
    BY DEF Digits, symRUNA, symRUNB
  <2>3. RunDigits[z] \in Seq(Nat)
    BY <2>1, <2>2, SeqIn
  <2>4. << sym >> \in Seq(Nat)
    OBVIOUS
  <2> QED  BY <2>3, <2>4
<1> HIDE DEF a, z, m, t
<1>6. Taken(coded, r)
  BY DEF a, z
<1>7. Taken(a, r)
  BY <1>4, <1>5, <1>6, TakenFirst DEF Item
<1>8. PICK l : Alike(size, l, s.list) /\ Stands(r[Len(a)], NoRun, l, t)
  BY <1>2, <1>7 DEF ReadsTo, t
<1>9. Welcome(a, r)
  BY <1>2, <1>7 DEF ReadsTo
<1>10. /\ r[Len(coded)] = AfterItem(l, t, z, sym)
       /\ ItemFits(l, t, z, sym) => Welcome(coded, r)
  <2>1. z \in Nat
    BY <1>3
  <2>2. Taken(Item(a, z, sym), r)
    BY <1>6
  <2>3. Stands(r[Len(a)], NoRun, l, t)
    BY <1>8
  <2>4. /\ r[Len(Item(a, z, sym))] = AfterItem(l, t, z, sym)
        /\ Welcome(a, r) /\ ItemFits(l, t, z, sym) => Welcome(Item(a, z, sym), r)
    BY <1>4, <2>1, <2>2, <2>3, ItemTaken
  <2> QED  BY <1>9, <2>4
<1>11. t \o Copies(l, z) = Spelled(symbols, k) /\ Len(Spelled(symbols, k)) = k
  <2>1. l[1] = s.list[1]
    BY <1>1, <1>8 DEF Alike
  <2>2. RunAt(symbols, m, z, l)
    BY <1>2, <1>3, <2>1 DEF RunAt
  <2>3. t \o Copies(l, z) = Spelled(symbols, m + z)
    <3>1. m \in Nat /\ z \in Nat
      BY <1>3
    <3>2. Continued(symbols, m, z, l)
      BY <2>2, <3>1, SpelledOn
    <3> QED  BY <3>2 DEF t, Continued
  <2>4. RunAt(symbols, k, 0, l)
    BY <1>3 DEF RunAt
  <2>5. Len(Spelled(symbols, k)) = k
    BY <1>3, <2>4, SpelledOn
  <2> QED  BY <1>3, <2>3, <2>5
<1>12. ItemFits(l, t, z, sym)
  <2>1. z < RunLimit
    BY <1>2, <1>3 DEF ReaderAssumption
  <2>2. sym # Eob => sym \in DOMAIN l
    <3>1. l \in Seq(0 .. A - 1) /\ Len(l) = A
      BY <1>8 DEF Alike, Lists
    <3>2. DOMAIN l = 1 .. A
      BY <3>1, LenProperties
    <3> QED  BY <1>1, <3>2
  <2> QED  BY <1>11, <2>1, <2>2 DEF ItemFits
<1>13. r[Len(coded)] = ReadAs(l, symbols, k, sym)
  BY <1>10, <1>11 DEF AfterItem, ReadAs
<1> QED  BY <1>8, <1>10, <1>12, <1>13 DEF a, z

LEMMA Sizes ==
    ASSUME FormatAssumption, ReaderAssumption, HeadOK(head)
    PROVE  /\ head.nInUse \in 1 .. A /\ A \in Nat /\ head.nInUse \in Nat \ {0}
           /\ RunLimit \in Nat /\ MaxBlock \in Nat
<1>1. A \in Nat
  BY DEF FormatAssumption
<1>2. head.nInUse \in 1 .. A
  BY DEF HeadOK
<1>3. \A i \in 1 .. A : i \in Nat \ {0}
  BY <1>1
<1>4. RunLimit \in Nat /\ MaxBlock \in Nat
  BY DEF ReaderAssumption
<1> QED  BY <1>1, <1>2, <1>3, <1>4

LEMMA MatchesStart ==
    ASSUME FormatAssumption, HeadOK(head), NEW size, size = head.nInUse, NEW symbols
    PROVE  Matches(size, symbols, 0,
                   [list |-> InitialList(size), zPend |-> 0, mtfv |-> << >>])
<1> DEFINE w == InitialList(size)
<1>1. size \in 1 .. A /\ A \in Nat
  BY DEF HeadOK, FormatAssumption
<1>2. Alike(size, InitialList(A), w)
  <2>1. InitialList(A) \in Lists(A)
    BY <1>1, InitialListType
  <2>2. \A i \in 1 .. size : i \in 1 .. A
    BY <1>1
  <2> QED  BY <2>1, <2>2 DEF Alike, InitialList
<1>3. Spelled(symbols, 0) = << >>
  <2>1. Spelled(symbols, 0) \in [1 .. 0 -> Bytes]
    BY ByteAtType DEF Spelled
  <2>2. Spelled(symbols, 0) \in Seq(Bytes) /\ Len(Spelled(symbols, 0)) = 0
    BY <2>1
  <2> QED  BY <2>2
<1>4. ReadsTo(<< >>, size, w, symbols, 0)
  <2> SUFFICES ASSUME NEW r, AtStart(r), Taken(<< >>, r)
               PROVE  /\ Welcome(<< >>, r)
                      /\ \E l : /\ Alike(size, l, w)
                                /\ Stands(r[Len(<< >>)], NoRun, l, Spelled(symbols, 0))
    BY DEF ReadsTo
  <2>1. Len(<< >>) = 0 /\ 1 .. Len(<< >>) = {}
    OBVIOUS
  <2>2. Welcome(<< >>, r)
    BY <2>1 DEF Welcome
  <2>3. Stands(r[0], NoRun, InitialList(A), Spelled(symbols, 0))
    BY <1>3 DEF AtStart
  <2>4. Stands(r[Len(<< >>)], NoRun, InitialList(A), Spelled(symbols, 0))
    BY <2>1, <2>3
  <2> HIDE DEF w
  <2> QED  BY <1>2, <2>2, <2>4
<1>5. 0 \in 0 .. 0 /\ 0 - 0 = 0 /\ 0 - 0 + 1 .. 0 = {}
  OBVIOUS
<1> HIDE DEF w
<1>6. ASSUME NEW s, s = [list |-> w, zPend |-> 0, mtfv |-> << >>]
      PROVE  Matches(size, symbols, 0, s)
  <2>1. s.list = w /\ s.zPend = 0 /\ s.mtfv = << >>
    BY <1>6
  <2> QED  BY <1>4, <1>5, <2>1 DEF Matches
<1> QED  BY <1>6 DEF w

\* Numbers, for the steps below.
LEMMA Later1 ==
    ASSUME NEW k \in Nat \ {0}, NEW z \in 0 .. k - 1
    PROVE  k - (z + 1) = (k - 1) - z /\ z + 1 \in 0 .. k
OBVIOUS

LEMMA Behind1 ==
    ASSUME NEW size \in Nat \ {0}, NEW q \in 1 .. size - 1
    PROVE  /\ q + 1 \in 2 .. size /\ q + 1 # size + 1 /\ (q + 1) - 1 = q
           /\ q \in 0 .. size - 1 /\ q + 1 \in Nat
OBVIOUS

LEMMA MatchesStep ==
    ASSUME FormatAssumption, ReaderAssumption, HeadOK(head), NEW size, size = head.nInUse,
           NEW symbols \in Seq(0 .. size - 1), Len(symbols) < RunLimit, Len(symbols) <= MaxBlock,
           NEW k \in 1 .. Len(symbols), NEW s \in Encoding(size),
           Matches(size, symbols, k - 1, s)
    PROVE  Matches(size, symbols, k, EncodeSymbol(s, symbols[k]))
<1> DEFINE x == symbols[k]
           next == EncodeSymbol(s, x)
<1>1. /\ size \in 1 .. A /\ A \in Nat /\ Len(symbols) \in Nat /\ x \in 0 .. size - 1
      /\ size \in Nat \ {0} /\ k - 1 \in 0 .. Len(symbols) /\ (k - 1) + 1 = k
      /\ k \in Nat \ {0}
  <2>1. size \in 1 .. A /\ A \in Nat /\ size \in Nat \ {0}
    BY Sizes
  <2>2. Len(symbols) \in Nat /\ x \in 0 .. size - 1
    <3>1. Len(symbols) \in Nat
      BY LenProperties
    <3> DEFINE V == 0 .. size - 1
    <3>2. symbols \in Seq(V)
      OBVIOUS
    <3> HIDE DEF V
    <3>3. x \in V
      BY <3>2, ElementOfSeq
    <3> QED  BY <3>1, <3>3 DEF V
  <2>3. k - 1 \in 0 .. Len(symbols) /\ (k - 1) + 1 = k /\ k \in Nat \ {0}
    BY <2>2
  <2> QED  BY <2>1, <2>2, <2>3
<1>2. s.list \in Permuted(size) /\ s.zPend \in Nat
  BY DEF Encoding
<1>3. /\ s.zPend \in 0 .. k - 1
      /\ \A i \in (k - 1) - s.zPend + 1 .. k - 1 : symbols[i] = s.list[1]
      /\ ReadsTo(s.mtfv, size, s.list, symbols, (k - 1) - s.zPend)
  BY DEF Matches
<1>4. CASE s.list[1] = x
  <2>1. Longer(s, next)
    BY <1>1, <1>4, EncodeSymbolCases
  <2>2. next.list = s.list /\ next.zPend = s.zPend + 1 /\ next.mtfv = s.mtfv
    BY <2>1 DEF Longer
  <2> HIDE DEF next
  <2>3. k - next.zPend = (k - 1) - s.zPend /\ next.zPend \in 0 .. k
    <3> DEFINE z == s.zPend
    <3>1. z \in 0 .. k - 1 /\ next.zPend = z + 1
      BY <1>3, <2>2
    <3> HIDE DEF z
    <3>2. k - (z + 1) = (k - 1) - z /\ z + 1 \in 0 .. k
      BY <1>1, <3>1, Later1
    <3> QED  BY <3>1, <3>2 DEF z
  <2>4. ASSUME NEW i \in k - next.zPend + 1 .. k PROVE symbols[i] = s.list[1]
    <3>1. i = k \/ i \in (k - 1) - s.zPend + 1 .. k - 1
      BY <1>1, <1>3, <2>3
    <3> QED  BY <1>3, <1>4, <3>1
  <2>5. ReadsTo(next.mtfv, size, next.list, symbols, k - next.zPend)
    BY <1>3, <2>2, <2>3
  <2>6. Matches(size, symbols, k, next)
    BY <2>2, <2>3, <2>4, <2>5 DEF Matches
  <2> QED  BY <2>6 DEF next
<1>5. CASE s.list[1] # x
  <2>1. PICK q \in 1 .. size - 1 : s.list[q + 1] = x /\ MovedUp(s, q, next)
    BY <1>1, <1>5, EncodeSymbolCases
  <2>2. /\ next.list = MoveToFront(s.list, q) /\ next.zPend = 0
        /\ next.mtfv = Item(s.mtfv, s.zPend, q + 1)
    BY <2>1 DEF MovedUp, Item
  <2> HIDE DEF next
  <2>3. /\ q + 1 \in Nat \ Digits /\ q + 1 # Eob /\ q + 1 \in 2 .. size /\ (q + 1) - 1 = q
        /\ q \in 0 .. size - 1 /\ k - 1 < RunLimit /\ k - 1 < MaxBlock /\ k - 1 <= MaxBlock
    <3>1. RunLimit \in Nat /\ MaxBlock \in Nat
      BY Sizes
    <3>2. /\ q + 1 \in 2 .. size /\ q + 1 # size + 1 /\ (q + 1) - 1 = q
          /\ q \in 0 .. size - 1 /\ q + 1 \in Nat
      BY <1>1, Behind1
    <3>3. q + 1 \notin Digits
      BY <3>2 DEF Digits, symRUNA, symRUNB
    <3>4. q + 1 # Eob
      BY <3>2 DEF Eob
    <3>5. k - 1 < RunLimit /\ k - 1 < MaxBlock /\ k - 1 <= MaxBlock
      <4> DEFINE n == Len(symbols)
      <4>1. n \in Nat /\ k \in 1 .. n /\ n < RunLimit /\ n <= MaxBlock
        BY <1>1
      <4> HIDE DEF n
      <4> QED  BY <3>1, <4>1
    <3> QED  BY <3>2, <3>3, <3>4, <3>5
  <2>4. ASSUME NEW r, AtStart(r), Taken(next.mtfv, r)
        PROVE  /\ Welcome(next.mtfv, r)
               /\ \E l : /\ Alike(size, l, next.list)
                         /\ Stands(r[Len(next.mtfv)], NoRun, l, Spelled(symbols, k))
    <3>1. Taken(Item(s.mtfv, s.zPend, q + 1), r)
      BY <2>2, <2>4
    <3>2. /\ Welcome(Item(s.mtfv, s.zPend, q + 1), r)
          /\ \E l : /\ Alike(size, l, s.list)
                    /\ r[Len(Item(s.mtfv, s.zPend, q + 1))]
                       = [run |-> NoRun, list |-> MoveToFront(l, (q + 1) - 1),
                          tt |-> Append(Spelled(symbols, k - 1), ByteAt(l[q + 1]))]
      <4> DEFINE j == k - 1
                 sym == q + 1
      <4>1. /\ j \in 0 .. Len(symbols) /\ j < RunLimit /\ j <= MaxBlock /\ j < MaxBlock
            /\ sym \in Nat \ Digits /\ sym # Eob /\ sym \in 2 .. size
            /\ Matches(size, symbols, j, s)
        BY <1>1, <2>3
      <4> HIDE DEF j, sym
      <4>2. Taken(Item(s.mtfv, s.zPend, sym), r) /\ AtStart(r)
        BY <2>4, <3>1 DEF sym
      <4>3. /\ Welcome(Item(s.mtfv, s.zPend, sym), r)
            /\ \E l : /\ Alike(size, l, s.list)
                      /\ r[Len(Item(s.mtfv, s.zPend, sym))] = ReadAs(l, symbols, j, sym)
        BY <4>1, <4>2, ItemRead, SMTT(30)
      <4>4. \A l : ReadAs(l, symbols, j, sym)
                   = [run |-> NoRun, list |-> MoveToFront(l, sym - 1),
                      tt |-> Append(Spelled(symbols, j), ByteAt(l[sym]))]
        BY <4>1 DEF ReadAs
      <4> QED  BY <4>3, <4>4 DEF j, sym
    <3>3. PICK l : /\ Alike(size, l, s.list)
                   /\ r[Len(next.mtfv)]
                      = [run |-> NoRun, list |-> MoveToFront(l, (q + 1) - 1),
                         tt |-> Append(Spelled(symbols, k - 1), ByteAt(l[q + 1]))]
      BY <2>2, <3>2
    <3>4. s.list \in Lists(size)
      BY <1>2 DEF Permuted
    <3>5. Alike(size, MoveToFront(l, q), next.list)
      BY <1>1, <2>2, <2>3, <3>3, <3>4, AlikeMoved
    <3>6. l[q + 1] = symbols[k]
      <4>1. q + 1 \in 1 .. size
        BY <2>3
      <4> QED  BY <2>1, <3>3, <4>1 DEF Alike
    <3>7. Append(Spelled(symbols, k - 1), ByteAt(symbols[k])) = Spelled(symbols, k)
      <4>1. RunAt(symbols, k - 1, 0, l)
        BY DEF RunAt
      <4>2. k - 1 \in Nat /\ 0 \in Nat
        BY <1>1
      <4>3. Append(Spelled(symbols, k - 1), ByteAt(symbols[(k - 1) + 1]))
            = Spelled(symbols, (k - 1) + 1)
        BY <4>1, <4>2, SpelledOn
      <4> QED  BY <1>1, <4>3
    <3>8. Stands(r[Len(next.mtfv)], NoRun, MoveToFront(l, q), Spelled(symbols, k))
      BY <2>3, <3>3, <3>6, <3>7 DEF Stands
    <3>9. Welcome(next.mtfv, r)
      BY <2>2, <3>2
    <3> QED  BY <3>5, <3>8, <3>9
  <2>5. ReadsTo(next.mtfv, size, next.list, symbols, k)
    BY <2>4 DEF ReadsTo
  <2>6. k - 0 = k /\ 0 \in 0 .. k /\ k - 0 + 1 .. k = {}
    <3>1. k \in Nat
      BY <1>1
    <3> QED  BY <3>1
  <2>7. Matches(size, symbols, k, next)
    BY <2>2, <2>5, <2>6 DEF Matches
  <2> QED  BY <2>7 DEF next
<1> QED  BY <1>4, <1>5

\* The symbols the writer makes of a block are read as the block's bytes, for every
\* alphabet and any block that fits: the reader takes each of them without an
\* objection, meets the end-of-block symbol behind all others and nowhere else, and
\* has then what they stand for, runs and all (mtf.go:47-110, reader.go:364-421).
THEOREM SymbolsDecode ==
    ASSUME FormatAssumption, ReaderAssumption, HeadOK(head),
           NEW symbols \in Seq(0 .. head.nInUse - 1),
           Len(symbols) < RunLimit, Len(symbols) <= MaxBlock,
           NEW r, AtStart(r), Taken(GenerateMTFValues(symbols, head.nInUse), r)
    PROVE  LET coded == GenerateMTFValues(symbols, head.nInUse)
           IN  /\ Welcome(coded, r)
               /\ r[Len(coded)].tt = Spelled(symbols, Len(symbols))
               /\ \A k \in 1 .. Len(coded) : coded[k] = Eob <=> k = Len(coded)
<1> DEFINE size == head.nInUse
           n == Len(symbols)
           coded == GenerateMTFValues(symbols, size)
<1>1. /\ size \in 1 .. A /\ A \in Nat /\ size \in Nat \ {0} /\ n \in Nat
      /\ RunLimit \in Nat /\ MaxBlock \in Nat
  BY Sizes
<1> HIDE DEF size, n
<1>2. PICK e \in [0 .. n -> Encoding(size)] :
           /\ e[0] = [list |-> InitialList(size), zPend |-> 0, mtfv |-> << >>]
           /\ \A k \in 1 .. n : e[k] = EncodeSymbol(e[k - 1], symbols[k])
           /\ coded = e[n].mtfv \o RunDigits[e[n].zPend] \o << size + 1 >>
  BY <1>1, EncoderStates DEF size, n
<1> HIDE DEF coded
<1>3. \A k \in 0 .. n : Matches(size, symbols, k, e[k])
  <2> DEFINE St == [k \in 0 .. n |-> {s \in Encoding(size) : Matches(size, symbols, k, s)}]
  <2>1. e[0] \in St[0]
    <3>1. 0 \in 0 .. n
      BY <1>1
    <3>2. Matches(size, symbols, 0, e[0])
      BY <1>2, MatchesStart DEF size
    <3> QED  BY <1>2, <3>1, <3>2
  <2>2. ASSUME NEW k \in 1 .. n, e[k - 1] \in St[k - 1] PROVE e[k] \in St[k]
    <3>1. k \in 0 .. n /\ k - 1 \in 0 .. n
      BY <1>1
    <3>2. e[k - 1] \in Encoding(size) /\ Matches(size, symbols, k - 1, e[k - 1])
      BY <2>2, <3>1
    <3>3. Matches(size, symbols, k, e[k])
      <4>1. Matches(size, symbols, k, EncodeSymbol(e[k - 1], symbols[k]))
        BY <3>2, MatchesStep DEF size, n
      <4> QED  BY <1>2, <4>1
    <3> QED  BY <1>2, <3>1, <3>3
  <2>3. \A k \in 0 .. n : e[k] \in St[k]
    <3> HIDE DEF St
    <3> QED  BY <1>1, <2>1, <2>2, RecursionInvariant
  <2> QED  BY <2>3
<1> DEFINE s == e[n]
           a == s.mtfv \o RunDigits[s.zPend]
<1>4. s \in Encoding(size) /\ Matches(size, symbols, n, s)
  <2>1. n \in 0 .. n
    BY <1>1
  <2> QED  BY <1>2, <1>3, <2>1
<1>5. coded = Item(s.mtfv, s.zPend, size + 1)
  BY <1>2 DEF Item
<1> HIDE DEF s
<1>6. size + 1 \in Nat \ Digits /\ size + 1 = Eob /\ n \in 0 .. n
  BY <1>1, SMTT(30) DEF Digits, symRUNA, symRUNB, Eob, size
<1>7. Taken(Item(s.mtfv, s.zPend, size + 1), r)
  BY <1>5 DEF coded, size
<1>8. /\ Welcome(Item(s.mtfv, s.zPend, size + 1), r)
      /\ \E l : r[Len(Item(s.mtfv, s.zPend, size + 1))]
                = [run |-> NoRun, list |-> l, tt |-> Spelled(symbols, n)]
  <2> DEFINE sym == size + 1
  <2>1. /\ sym \in Nat \ Digits /\ sym = Eob /\ n \in 0 .. Len(symbols)
        /\ n < RunLimit /\ n <= MaxBlock
    BY <1>1, <1>6 DEF n
  <2> HIDE DEF sym
  <2>2. Taken(Item(s.mtfv, s.zPend, sym), r)
    BY <1>7 DEF sym
  <2>3. /\ Welcome(Item(s.mtfv, s.zPend, sym), r)
        /\ \E l : r[Len(Item(s.mtfv, s.zPend, sym))] = ReadAs(l, symbols, n, sym)
    BY <1>4, <2>1, <2>2, ItemRead, SMTT(30) DEF size
  <2>4. \A l : ReadAs(l, symbols, n, sym)
               = [run |-> NoRun, list |-> l, tt |-> Spelled(symbols, n)]
    BY <2>1 DEF ReadAs
  <2> QED  BY <2>3, <2>4 DEF sym
<1>9. r[Len(coded)].tt = Spelled(symbols, n)
  BY <1>5, <1>8
<1>10. ASSUME NEW k \in 1 .. Len(coded) PROVE coded[k] = Eob <=> k = Len(coded)
  <2>1. RunDigits[s.zPend] \in Seq(0 .. size)
    <3>1. s.zPend \in Nat /\ Digits \subseteq 0 .. size
      BY <1>1, <1>4 DEF Encoding, Digits, symRUNA, symRUNB
    <3>2. RunDigits[s.zPend] \in Seq(Digits)
      BY <3>1, RunDigitsSteps
    <3> QED  BY <3>1, <3>2, SeqIn
  <2>2. s.mtfv \in Seq(0 .. size)
    BY <1>4 DEF Encoding
  <2>3. a \in Seq(0 .. size)
    BY <2>1, <2>2, ConcatProperties
  <2>4. coded = a \o << size + 1 >>
    BY <1>5 DEF Item
  <2> HIDE DEF a
  <2>5. coded = Append(a, size + 1) /\ size + 1 \in Nat /\ a \in Seq(Nat)
    <3>1. 0 .. size \subseteq Nat
      BY <1>1
    <3>2. a \in Seq(Nat)
      BY <2>3, <3>1, SeqIn
    <3>3. a \o << size + 1 >> = Append(a, size + 1)
      BY <1>1, <3>2
    <3> QED  BY <1>1, <2>4, <3>2, <3>3
  <2>6. /\ Len(coded) = Len(a) + 1 /\ Len(a) \in Nat
        /\ coded[k] = IF k = Len(a) + 1 THEN size + 1 ELSE a[k]
    BY <2>5, AppendProperties, SMTT(30)
  <2>7. k # Len(a) + 1 => a[k] \in 0 .. size
    <3>1. k # Len(a) + 1 => k \in 1 .. Len(a)
      BY <2>6
    <3> QED  BY <2>3, <3>1, ElementOfSeq
  <2>8. \A v \in 0 .. size : v # size + 1
    BY <1>1
  <2> QED  BY <1>6, <2>6, <2>7, <2>8
<1>11. Welcome(coded, r)
  BY <1>5, <1>8
<1> QED  BY <1>9, <1>10, <1>11 DEF coded, size, n

-----------------------------------------------------------------------------
(* What arrives is read.                                                   *)

\* The group a symbol is read in.
GroupRead == IF group.left = 0 THEN group.no + 1 ELSE group.no

\* While symbols are read and selectors are left, a code that stands next in the stream
\* is read as its symbol: for every table the reader made from some lengths
\* (reader.go:321-362).
THEOREM SymbolArrives ==
    ASSUME IInv, reader = "symbols", GroupRead < Len(head.selector),
           NEW lens \in [0 .. head.nInUse + 1 -> 1 .. Longest],
           decode[head.selector[GroupRead + 1] + 1] = CreateDecodeTables(lens, Longest),
           NEW v \in 0 .. head.nInUse + 1,
           ReadBits(pos, lens[v]) = AssignCodes(lens)[v], ~PastEnd(pos + lens[v])
    PROVE  GetSymbol.fails = "no" /\ GetSymbol.sym = v /\ GetSymbol.p = pos + lens[v]
<1> USE FormatAssumption, ReaderAssumption
<1> DEFINE fresh == group.left = 0
           no == IF fresh THEN group.no + 1 ELSE group.no
           left == IF fresh THEN GroupSize ELSE group.left
           table == decode[head.selector[no + 1] + 1]
           zn == CodeEnd(table, pos)
           idx == ReadBits(pos, zn) - table.base[zn]
           size == head.nInUse + 2
           right == [fails |-> "no", p |-> pos + zn,
                     group |-> [no |-> no, left |-> left - 1],
                     sym |-> IF idx \in DOMAIN table.perm THEN table.perm[idx] ELSE 0]
<1>1. /\ BitsArrived /\ HeadOK(head) /\ pos \in Nat \ {0} /\ group \in GroupStates
      /\ decode \in Seq(DecodeTables(head.nInUse + 2)) /\ Len(decode) = head.numGroups
      /\ group.no < Len(head.selector) /\ (group.left > 0 => group.no >= 0)
  BY DEF IInv, ReaderTypeOK, HeaderRead, TablesMade, GroupWithin, BitsArrived, GroupStates
<1>2. /\ head.selector \in Seq(0 .. head.numGroups - 1)
      /\ head.numGroups \in Nat /\ head.nInUse \in 1 .. A
  BY <1>1 DEF HeadOK, FormatAssumption
<1>3. A \in Nat /\ size \in Nat \ {0} /\ size - 1 = head.nInUse + 1 /\ size <= A + 2
  <2>1. A \in Nat
    BY DEF FormatAssumption
  <2>2. ASSUME NEW x \in 1 .. A
        PROVE  x + 2 \in Nat \ {0} /\ (x + 2) - 1 = x + 1 /\ x + 2 <= A + 2
    BY <2>1
  <2> QED  BY <1>2, <2>1, <2>2
<1>4. no = GroupRead /\ no < Len(head.selector) /\ no \in Nat
  <2>1. group.no \in -1 .. MaxSelectors - 1 /\ group.left \in 0 .. GroupSize - 1
        /\ GroupSize \in Nat /\ MaxSelectors \in Nat
    BY <1>1 DEF GroupStates, FormatAssumption
  <2>2. no = GroupRead
    BY DEF GroupRead
  <2>3. no \in Nat
    <3>1. CASE fresh
      BY <2>1, <3>1
    <3>2. CASE ~fresh
      BY <1>1, <2>1, <3>2
    <3> QED  BY <3>1, <3>2
  <2> HIDE DEF no
  <2> QED  BY <2>2, <2>3
<1>5. ~RanOut(no)
  <2>1. Len(head.selector) \in Nat
    BY <1>2
  <2> HIDE DEF no
  <2> QED  BY <1>4, <2>1 DEF RanOut
<1>6. no + 1 \in DOMAIN head.selector /\ head.selector[no + 1] + 1 \in DOMAIN decode
  <2> HIDE DEF no
  <2>1. no + 1 \in 1 .. Len(head.selector)
    BY <1>2, <1>4
  <2>2. head.selector[no + 1] \in 0 .. head.numGroups - 1
    BY <1>2, <2>1, ElementOfSeq
  <2>3. ASSUME NEW x \in 0 .. head.numGroups - 1 PROVE x + 1 \in 1 .. head.numGroups
    BY <1>2
  <2>4. head.selector[no + 1] + 1 \in 1 .. Len(decode)
    BY <1>1, <2>2, <2>3
  <2>5. DOMAIN head.selector = 1 .. Len(head.selector) /\ DOMAIN decode = 1 .. Len(decode)
    BY <1>1, <1>2, LenProperties
  <2> QED  BY <2>1, <2>4, <2>5
<1> HIDE DEF no, left
<1>7. table = CreateDecodeTables(lens, Longest)
  BY <1>4
<1> HIDE DEF table, size
<1>8. /\ zn = lens[v] /\ idx \in 0 .. size - 1 /\ table.perm[idx] = v
  <2>1. lens \in [0 .. size - 1 -> 1 .. Longest] /\ v \in 0 .. size - 1
    BY <1>3
  <2>2. CodeFound(size, CreateDecodeTables(lens, Longest), pos, lens[v], v)
    <3>1. \A q \in Nat \ {0} :
              ReadBits(q, lens[v]) = AssignCodes(lens)[v]
              => CodeFound(size, CreateDecodeTables(lens, Longest), q, lens[v], v)
      BY <1>1, <1>3, <2>1, CodesDecode
    <3> QED  BY <1>1, <3>1
  <2> QED  BY <1>7, <2>2 DEF CodeFound
<1>9. lens[v] \in 1 .. Longest /\ Longest \in Nat
  BY DEF ReaderAssumption
<1> HIDE DEF zn
<1>10. DOMAIN table.perm = 0 .. size - 1
  <2>1. ByLength(lens) \in [0 .. size - 1 -> 0 .. size - 1]
    BY <1>3, ByLengthType
  <2>2. table.perm = ByLength(lens)
    BY <1>7 DEF CreateDecodeTables
  <2> QED  BY <2>1, <2>2
<1>11. ~(zn > Longest \/ PastEnd(pos + zn))
  BY <1>8, <1>9
<1> HIDE DEF idx
<1>12. idx \in 0 .. A + 1
  BY <1>3, <1>8
<1>13. GetSymbol = right
  BY <1>5, <1>6, <1>11, <1>12 DEF GetSymbol, no, left, table, zn, idx
<1> QED  BY <1>8, <1>10, <1>13

LEMMA EndedType ==
    ASSUME IInv, FormatAssumption, reader = "symbols"
    PROVE  Ended(Reading) \in Seq(Bytes) /\ Len(Ended(Reading)) \in Nat
<1> DEFINE copies == [i \in 1 .. run.es + 1 |-> ByteAt(list[1])]
<1>1. run.es + 1 \in Nat /\ tt \in Seq(Bytes)
  BY SMTT(30) DEF IInv, ReaderTypeOK
<1>2. HeadOK(head)
  BY DEF IInv, HeaderRead
<1>3. copies \in [1 .. run.es + 1 -> Bytes]
  BY <1>2, ByteAtType
<1>4. Ended(Reading) = tt \o copies
  BY DEF Ended, Reading
<1> HIDE DEF copies
<1>5. copies \in Seq(Bytes)
  BY <1>1, <1>3
<1>6. tt \o copies \in Seq(Bytes)
  BY <1>1, <1>5, ConcatProperties
<1> QED  BY <1>4, <1>6, LenProperties

\* A symbol that arrives and is accepted is taken as After says, the end-of-block
\* symbol ending the loop (reader.go:369-421).
THEOREM SymbolTaken ==
    ASSUME IInv, ReadSymbol, GetSymbol.fails = "no", Accepted(Reading, GetSymbol.sym)
    PROVE  /\ Reading' = After(Reading, GetSymbol.sym)
           /\ reader' = IF GetSymbol.sym = Eob THEN "inverse" ELSE "symbols"
<1> DEFINE got == GetSymbol
           digit == got.sym \in {symRUNA, symRUNB}
           ended == tt \o [i \in 1 .. run.es + 1 |-> ByteAt(list[1])]
           eob == got.sym = head.nInUse + 1
           Digit == /\ IF run.N >= RunLimit THEN reader' = "error" /\ UNCHANGED run
                       ELSE run' = RunDigit(run, got.sym) /\ UNCHANGED reader
                    /\ UNCHANGED << list, tt >>
           Other == /\ run' = NoRun
                    /\ IF Len(ended) > MaxBlock \/ (~eob /\ Len(ended) = MaxBlock)
                       THEN reader' = "error" /\ UNCHANGED << list, tt >>
                       ELSE IF eob
                       THEN reader' = "inverse" /\ tt' = ended /\ UNCHANGED list
                       ELSE IF got.sym \notin DOMAIN list
                       THEN reader' = "panic" /\ UNCHANGED << list, tt >>
                       ELSE /\ tt' = Append(ended, ByteAt(list[got.sym]))
                            /\ list' = MoveToFront(list, got.sym - 1)
                            /\ UNCHANGED reader
<1>1. /\ reader = "symbols"
      /\ got.fails = "no"
      /\ (digit /\ Digit) \/ (~digit /\ Other)
  BY DEF ReadSymbol
<1>2. ended = Ended(Reading)
  BY DEF Ended, Reading
<1>3. Len(ended) \in Nat /\ MaxBlock \in Nat /\ RunLimit \in Nat
  BY <1>1, <1>2, EndedType, FormatAssumption, ReaderAssumption
<1>4. head.nInUse \in Nat \ {0}
  BY <1>1 DEF IInv, HeaderRead, HeadOK
<1>5. run.N \in Nat
  BY DEF IInv, ReaderTypeOK
<1> HIDE DEF got
<1>6. Accepted(Reading, got.sym)
  BY DEF got
<1>7. digit => got.sym \in Digits /\ ~eob
  BY <1>4 DEF Digits, symRUNA, symRUNB
<1>8. ~digit => got.sym \notin Digits
  BY DEF Digits
<1>9. Reading' = [run |-> run', list |-> list', tt |-> tt']
  BY DEF Reading
<1>10. eob <=> got.sym = Eob
  BY DEF Eob
<1> HIDE DEF ended, digit, eob
<1>11. CASE digit
  <2>1. Digit
    BY <1>1, <1>11
  <2>2. run.N < RunLimit
    BY <1>6, <1>7, <1>11 DEF Accepted, Reading
  <2>3. ~(run.N >= RunLimit)
    BY <1>3, <1>5, <2>2
  <2>4. run' = RunDigit(run, got.sym) /\ reader' = reader /\ list' = list /\ tt' = tt
    BY <2>1, <2>3
  <2>5. After(Reading, got.sym) = [run |-> RunDigit(run, got.sym), list |-> list, tt |-> tt]
    BY <1>7, <1>11 DEF After, Reading
  <2> QED  BY <1>1, <1>7, <1>9, <1>10, <1>11, <2>4, <2>5 DEF got
<1>12. CASE ~digit /\ eob
  <2>1. Other
    BY <1>1, <1>12
  <2>2. Len(ended) <= MaxBlock
    BY <1>2, <1>6, <1>8, <1>12 DEF Accepted
  <2>3. ~(Len(ended) > MaxBlock \/ (~eob /\ Len(ended) = MaxBlock))
    BY <1>3, <1>12, <2>2
  <2>4. run' = NoRun /\ reader' = "inverse" /\ tt' = ended /\ list' = list
    BY <1>12, <2>1, <2>3
  <2>5. After(Reading, got.sym) = [run |-> NoRun, list |-> list, tt |-> ended]
    BY <1>2, <1>8, <1>10, <1>12 DEF After, Reading
  <2> QED  BY <1>9, <1>10, <1>12, <2>4, <2>5 DEF got
<1>13. CASE ~digit /\ ~eob
  <2>1. Other
    BY <1>1, <1>13
  <2>2. Len(ended) < MaxBlock /\ got.sym \in DOMAIN list
    BY <1>2, <1>6, <1>8, <1>10, <1>13 DEF Accepted, Reading
  <2>3. ~(Len(ended) > MaxBlock \/ (~eob /\ Len(ended) = MaxBlock))
    BY <1>3, <1>13, <2>2
  <2>4. /\ run' = NoRun /\ reader' = reader
        /\ tt' = Append(ended, ByteAt(list[got.sym])) /\ list' = MoveToFront(list, got.sym - 1)
    BY <1>13, <2>1, <2>2, <2>3
  <2>5. After(Reading, got.sym) = [run |-> NoRun, list |-> MoveToFront(list, got.sym - 1),
                                   tt |-> Append(ended, ByteAt(list[got.sym]))]
    BY <1>2, <1>8, <1>10, <1>13 DEF After, Reading
  <2> QED  BY <1>1, <1>9, <1>10, <1>13, <2>4, <2>5 DEF got
<1> QED  BY <1>11, <1>12, <1>13

\* The last step of readBlock restores the block, for blocks of every size: if p lists
\* the rotations of b in their order, what was read are the bytes in front of them and
\* the header says where the block itself is listed (reader.go:424-465).
THEOREM SortUndone ==
    ASSUME IInv, Invert, NEW n \in Nat \ {0}, NEW b, NEW p, Sorts(n, b, p), FrontsRead(n, b, p),
           head.origPtr < n, p[head.origPtr] = 0
    PROVE  reader' = "ok" /\ tt' = [k \in 1 .. n |-> b[k - 1]]
<1>1. tt \in Seq(Bytes) /\ head.origPtr \in 0 .. n - 1
  <2>1. reader = "inverse"
    BY DEF Invert
  <2>2. tt \in Seq(Bytes) /\ head.origPtr \in Nat
    BY <2>1 DEF IInv, ReaderTypeOK, HeaderRead, HeadOK
  <2> QED  BY <2>2
<1>2. RotationFrom(head.origPtr) = [k \in 1 .. n |-> b[k - 1]]
  BY <1>1, InverseOfSort
<1>3. ~(head.origPtr >= Len(tt)) /\ Len(tt) = n
  BY <1>1 DEF FrontsRead
<1> QED  BY <1>2, <1>3 DEF Invert

-----------------------------------------------------------------------------
(* Powers of two.                                                          *)

LEMMA Pow2Steps ==
    /\ Pow2 \in [Nat -> Nat \ {0}]
    /\ Pow2[0] = 1
    /\ \A k \in Nat \ {0} : Pow2[k] = 2 * Pow2[k - 1]
<1> DEFINE St == Nat \ {0}
           P == [z \in Nat \ {0} |-> z - 1]
           F == [x \in St \X (Nat \ {0}) |-> 2 * x[1]]
           Is(f) == f = [k \in Nat |-> IF k = 0 THEN 1 ELSE 2 * f[k - 1]]
<1>1. \A z \in Nat \ {0} : z - 1 \in Nat /\ z - 1 < z
  OBVIOUS
<1>2. Backward(P)
  BY <1>1 DEF Backward
<1>3. \A d \in St : 2 * d \in St
  OBVIOUS
<1>4. F \in [St \X (Nat \ {0}) -> St]
  <2> HIDE DEF St
  <2> QED  BY <1>3
<1>5. PICK f \in [Nat -> St] :
           f[0] = 1 /\ \A z \in Nat \ {0} : f[z] = F[<< f[P[z]], z >>]
  <2> DEFINE start == 1
  <2>1. start \in St
    OBVIOUS
  <2> HIDE DEF F, P, St, start
  <2>2. \E f \in [Nat -> St] :
             f[0] = start /\ \A z \in Nat \ {0} : f[z] = F[<< f[P[z]], z >>]
    BY <1>2, <1>4, <2>1, BackExists
  <2> QED  BY <2>2 DEF start
<1>6. ASSUME NEW z \in Nat \ {0} PROVE f[z] = 2 * f[z - 1]
  <2>1. P[z] = z - 1 /\ z - 1 \in Nat
    BY <1>1
  <2>2. f[P[z]] \in St
    BY <2>1
  <2>3. f[z] = F[<< f[P[z]], z >>]
    BY <1>5
  <2> HIDE DEF P, St
  <2>4. F[<< f[P[z]], z >>] = 2 * f[P[z]]
    BY <2>2
  <2> QED  BY <2>1, <2>3, <2>4
<1>7. Is(f)
  <2>1. f = [z \in Nat |-> f[z]]
    BY <1>5
  <2>2. \A z \in Nat : f[z] = IF z = 0 THEN 1 ELSE 2 * f[z - 1]
    BY <1>5, <1>6
  <2> QED  BY <2>1, <2>2
<1>8. Pow2 = CHOOSE g : Is(g)
  BY DEF Pow2
<1>9. Is(Pow2)
  <2> HIDE DEF Is
  <2> QED  BY <1>7, <1>8
<1> DEFINE h == Pow2
<1>10. Is(h)
  BY <1>9
<1> HIDE DEF h
<1>11. h[0] = 1 /\ \A z \in Nat \ {0} : h[z] = 2 * h[z - 1]
  BY <1>10
<1>12. \A z \in Nat : h[z] \in Nat \ {0}
  <2> DEFINE T == {z \in Nat : h[z] \in Nat \ {0}}
  <2>1. 0 \in T
    BY <1>11
  <2>2. ASSUME NEW z \in T PROVE z + 1 \in T
    <3>1. z + 1 \in Nat \ {0} /\ (z + 1) - 1 = z
      OBVIOUS
    <3>2. h[z + 1] = 2 * h[z]
      BY <1>11, <3>1
    <3> QED  BY <3>1, <3>2
  <2>3. T = Nat
    <3>1. T \subseteq Nat
      OBVIOUS
    <3> HIDE DEF T
    <3> QED  BY <2>1, <2>2, <3>1, Induction
  <2> QED  BY <2>3
<1>13. h \in [Nat -> Nat \ {0}]
  BY <1>10, <1>12
<1> QED  BY <1>11, <1>13 DEF h

LEMMA Pow2Next ==
    ASSUME NEW k \in Nat
    PROVE  Pow2[k] \in Nat /\ Pow2[k] >= 1 /\ Pow2[k + 1] = 2 * Pow2[k]
<1>1. k + 1 \in Nat \ {0} /\ (k + 1) - 1 = k
  OBVIOUS
<1> QED  BY <1>1, Pow2Steps

-----------------------------------------------------------------------------
(* What the sort hands over.                                               *)

SortKept ==
    /\ input \in Blocks(Bytes, MaxBlock) /\ block = input
    /\ sorter \in {"start", "sorted"}
    /\ sorter = "sorted" => /\ ptr \in [Positions -> Positions]
                            /\ ListsRotations(ptr, input, nblock)

LEMMA BlockSizes ==
    ASSUME FormatAssumption, ReaderAssumption, input \in Blocks(Bytes, MaxBlock), block = input
    PROVE  /\ nblock \in 1 .. MaxBlock
           /\ input \in [Positions -> Bytes]
           /\ inUse \in SUBSET Bytes /\ IsFiniteSet(inUse)
           /\ nInUse \in 1 .. A /\ A \in Nat
<1>1. PICK len \in 1 .. MaxBlock : input \in [0 .. len - 1 -> Bytes]
  BY DEF Blocks
<1>2. len \in Nat \ {0} /\ MaxBlock \in Nat
  BY DEF ReaderAssumption
<1>3. DOMAIN input = 0 .. len - 1
  BY <1>1
<1>4. nblock = len
  <2>1. 0 \in Int /\ len - 1 \in Int /\ ~(0 > len - 1) /\ (len - 1) - 0 + 1 = len
    BY <1>2
  <2>2. Cardinality(0 .. len - 1) = len
    BY <2>1, FS_Interval
  <2> QED  BY <1>3, <2>2 DEF nblock
<1>5. inUse \in SUBSET Bytes /\ inUse # {}
  <2>1. 0 \in DOMAIN block
    BY <1>2, <1>3
  <2> QED  BY <1>1, <1>3, <2>1 DEF inUse
<1>6. IsFiniteSet(inUse) /\ nInUse \in 0 .. A
  BY <1>5, AlphabetType DEF nInUse
<1>7. nInUse # 0
  BY <1>5, <1>6, FS_EmptySet DEF nInUse
<1> QED  BY <1>1, <1>4, <1>5, <1>6, <1>7 DEF Positions, FormatAssumption

\* The number of a byte value among those in use.
LEMMA NumberInUse ==
    ASSUME FormatAssumption, ReaderAssumption, input \in Blocks(Bytes, MaxBlock), block = input,
           NEW c \in inUse
    PROVE  unseqToSeq(c) \in 0 .. nInUse - 1
<1> DEFINE less == {b \in inUse : b < c}
<1>1. inUse \in SUBSET Bytes /\ IsFiniteSet(inUse)
  BY BlockSizes
<1>2. less \in SUBSET inUse /\ c \notin less
  <2>1. c \in Int
    BY <1>1 DEF Bytes
  <2> QED  BY <2>1
<1>3. unseqToSeq(c) = Cardinality(less) /\ nInUse = Cardinality(inUse)
  BY DEF unseqToSeq, nInUse
<1> HIDE DEF less
<1>4. IsFiniteSet(less) /\ Cardinality(less) <= Cardinality(inUse)
      /\ Cardinality(less) # Cardinality(inUse)
  BY <1>1, <1>2, FS_Subset
<1>5. Cardinality(less) \in Nat /\ Cardinality(inUse) \in Nat
  BY <1>1, <1>4, FS_CardinalityType
<1> QED  BY <1>3, <1>4, <1>5

\* The bytes in front of the rotations, by their numbers.
Fed == [i \in 1 .. nblock |-> unseqToSeq(block[Rotate(ptr[i - 1] - 1 + nblock)])]

LEMMA FedType ==
    ASSUME FormatAssumption, ReaderAssumption, SortKept, sorter = "sorted"
    PROVE  Fed \in Seq(0 .. nInUse - 1) /\ Len(Fed) = nblock
<1>1. nblock \in Nat \ {0}
  BY BlockSizes DEF SortKept, ReaderAssumption
<1>2. block \in [Positions -> Bytes] /\ ptr \in [Positions -> Positions]
  BY BlockSizes DEF SortKept
<1>3. ASSUME NEW i \in 1 .. nblock
      PROVE  unseqToSeq(block[Rotate(ptr[i - 1] - 1 + nblock)]) \in 0 .. nInUse - 1
  <2>1. i - 1 \in Positions
    BY <1>1 DEF Positions
  <2>2. ptr[i - 1] \in 0 .. nblock - 1
    BY <1>2, <2>1 DEF Positions
  <2> DEFINE at == ptr[i - 1] - 1 + nblock
  <2>3. at \in Nat
    BY <1>1, <2>2
  <2> HIDE DEF at
  <2>4. Rotate(at) \in Positions
    BY <1>1, <2>3 DEF Rotate, Positions
  <2>5. block[Rotate(at)] \in inUse
    BY <1>2, <2>4 DEF inUse
  <2> QED  BY <2>5, NumberInUse DEF at, SortKept
<1>4. Fed \in [1 .. nblock -> 0 .. nInUse - 1]
  BY <1>3 DEF Fed
<1> QED  BY <1>1, <1>4, SeqFrom

-----------------------------------------------------------------------------
(* The symbols.                                                            *)

LEMMA HalfSteps ==
    ASSUME NEW z \in Nat \ {0}
    PROVE  (z - 1) \div 2 \in Nat /\ (z - 1) \div 2 < z
OBVIOUS

\* A run has no more digits than zeros.
LEMMA RunDigitsShort ==
    ASSUME NEW z \in Nat
    PROVE  /\ RunDigits[z] \in Seq(Digits) /\ Len(RunDigits[z]) \in 0 .. z
<1> DEFINE T == {y \in Nat : Len(RunDigits[y]) \in 0 .. y}
<1>1. ASSUME NEW y \in Nat, \A j \in Nat : j < y => j \in T PROVE y \in T
  <2>1. CASE y = 0
    <3>1. RunDigits[y] = << >>
      BY <2>1, RunDigitsSteps
    <3> QED  BY <2>1, <3>1
  <2>2. CASE y # 0
    <3> DEFINE half == (y - 1) \div 2
               digit == IF (y - 1) % 2 = 1 THEN symRUNB ELSE symRUNA
    <3>1. half \in Nat /\ half < y
      BY <2>2, HalfSteps
    <3>2. RunDigits[y] = << digit >> \o RunDigits[half]
      BY <2>2, RunDigitsSteps
    <3>3. digit \in Digits
      BY DEF Digits
    <3> HIDE DEF half, digit
    <3>4. Len(RunDigits[half]) \in 0 .. half
      BY <1>1, <3>1
    <3>5. RunDigits[half] \in Seq(Digits) /\ << digit >> \in Seq(Digits) /\ Len(<< digit >>) = 1
      BY <3>1, <3>3, RunDigitsSteps
    <3>6. Len(RunDigits[y]) = 1 + Len(RunDigits[half])
      BY <3>2, <3>5, JoinedItems
    <3> QED  BY <2>2, <3>1, <3>4, <3>6
  <2> QED  BY <2>1, <2>2
<1>2. \A y \in Nat : y \in T
  <2> HIDE DEF T
  <2> QED  BY <1>1, StrongInduction
<1>3. z \in T
  BY <1>2
<1> QED  BY <1>3, RunDigitsSteps

\* The symbols of a block end with the end-of-block symbol and are no more than its
\* bytes and that one.
LEMMA SymbolsMade ==
    ASSUME NEW size \in Nat \ {0}, NEW symbols \in Seq(0 .. size - 1)
    PROVE  LET coded == GenerateMTFValues(symbols, size)
           IN  /\ coded \in Seq(0 .. size + 1)
               /\ Len(coded) \in 1 .. Len(symbols) + 1
               /\ coded[Len(coded)] = size + 1
<1> DEFINE n == Len(symbols)
           coded == GenerateMTFValues(symbols, size)
<1>1. PICK e \in [0 .. n -> Encoding(size)] :
           /\ e[0] = [list |-> InitialList(size), zPend |-> 0, mtfv |-> << >>]
           /\ \A k \in 1 .. n : e[k] = EncodeSymbol(e[k - 1], symbols[k])
           /\ coded = e[n].mtfv \o RunDigits[e[n].zPend] \o << size + 1 >>
  BY EncoderStates
<1> HIDE DEF coded
<1>2. n \in Nat /\ \A k \in 1 .. n : symbols[k] \in 0 .. size - 1
  OBVIOUS
<1> DEFINE Short(k) == {s \in Encoding(size) : Len(s.mtfv) + s.zPend <= k}
           St == [k \in 0 .. n |-> Short(k)]
<1>3. ASSUME NEW k \in 1 .. n, NEW s \in Short(k - 1)
      PROVE  EncodeSymbol(s, symbols[k]) \in Short(k)
  <2> DEFINE next == EncodeSymbol(s, symbols[k])
  <2>1. symbols[k] \in 0 .. size - 1 /\ s \in Encoding(size)
    BY <1>2
  <2>2. s.mtfv \in Seq(0 .. size) /\ s.zPend \in Nat /\ Len(s.mtfv) + s.zPend <= k - 1
        /\ k \in Nat
    BY <1>2, <2>1 DEF Encoding
  <2>3. next \in Encoding(size)
    BY <2>1, EncodeSymbolCases
  <2>4. CASE s.list[1] = symbols[k]
    <3>1. Longer(s, next)
      BY <2>1, <2>4, EncodeSymbolCases
    <3> HIDE DEF next
    <3>2. next.zPend = s.zPend + 1 /\ next.mtfv = s.mtfv
      BY <3>1 DEF Longer
    <3>3. Len(next.mtfv) + next.zPend <= k
      BY <2>2, <3>2
    <3> QED  BY <2>3, <3>3 DEF next
  <2>5. CASE s.list[1] # symbols[k]
    <3>1. PICK q \in 1 .. size - 1 : MovedUp(s, q, next)
      BY <2>1, <2>5, EncodeSymbolCases
    <3> HIDE DEF next
    <3> DEFINE digits == RunDigits[s.zPend]
    <3>2. next.zPend = 0 /\ next.mtfv = s.mtfv \o digits \o << q + 1 >>
      BY <3>1 DEF MovedUp
    <3>3. digits \in Seq(Digits) /\ Len(digits) \in 0 .. s.zPend
      BY <2>2, RunDigitsShort
    <3>4. digits \in Seq(0 .. size) /\ << q + 1 >> \in Seq(0 .. size)
      <4>1. Digits \subseteq 0 .. size
        BY DEF Digits, symRUNA, symRUNB
      <4>2. digits \in Seq(0 .. size)
        <5> HIDE DEF digits
        <5> QED  BY <3>3, <4>1, SeqIn
      <4> QED  BY <4>2
    <3> HIDE DEF digits
    <3>5. s.mtfv \o digits \in Seq(0 .. size)
          /\ Len(s.mtfv \o digits) = Len(s.mtfv) + Len(digits)
      BY <2>2, <3>4, JoinedItems
    <3>6. Len(s.mtfv \o digits \o << q + 1 >>) = Len(s.mtfv) + Len(digits) + 1
      BY <3>4, <3>5, JoinedItems
    <3>7. Len(next.mtfv) + next.zPend <= k
      BY <2>2, <3>2, <3>3, <3>6
    <3> QED  BY <2>3, <3>7 DEF next
  <2> QED  BY <2>4, <2>5
<1>4. \A k \in 0 .. n : e[k] \in Short(k)
  <2>1. e[0] \in St[0]
    <3>1. 0 \in 0 .. n
      BY <1>2
    <3>2. e[0] \in Encoding(size)
      BY <3>1
    <3>3. e[0].mtfv = << >> /\ e[0].zPend = 0
      BY <1>1
    <3>4. Len(e[0].mtfv) + e[0].zPend <= 0
      BY <3>3
    <3> QED  BY <3>1, <3>2, <3>4
  <2>2. ASSUME NEW k \in 1 .. n, e[k - 1] \in St[k - 1] PROVE e[k] \in St[k]
    <3>1. k - 1 \in 0 .. n /\ k \in 0 .. n
      BY <1>2
    <3> HIDE DEF Short
    <3>2. e[k - 1] \in Short(k - 1)
      BY <2>2, <3>1
    <3>3. e[k] \in Short(k)
      BY <1>1, <1>3, <3>2
    <3> QED  BY <3>1, <3>3
  <2>3. \A k \in 0 .. n : e[k] \in St[k]
    <3> HIDE DEF St, n
    <3> QED  BY <1>2, <2>1, <2>2, RecursionInvariant
  <2> QED  BY <2>3
<1> DEFINE s == e[n]
           digits == RunDigits[s.zPend]
<1>5. n \in 0 .. n
  BY <1>2
<1>6. s.mtfv \in Seq(0 .. size) /\ s.zPend \in Nat /\ Len(s.mtfv) + s.zPend <= n
  BY <1>4, <1>5 DEF Encoding
<1>7. coded = s.mtfv \o digits \o << size + 1 >>
  BY <1>1
<1>8. digits \in Seq(Digits) /\ Len(digits) \in 0 .. s.zPend
  <2> HIDE DEF s
  <2> QED  BY <1>6, RunDigitsShort
<1> HIDE DEF s, digits
<1>9. s.mtfv \in Seq(0 .. size + 1) /\ digits \in Seq(0 .. size + 1)
      /\ << size + 1 >> \in Seq(0 .. size + 1) /\ Len(<< size + 1 >>) = 1
  <2>1. Digits \subseteq 0 .. size + 1 /\ 0 .. size \subseteq 0 .. size + 1
    BY DEF Digits, symRUNA, symRUNB
  <2>2. s.mtfv \in Seq(0 .. size + 1)
    BY <1>6, <2>1, SeqIn
  <2>3. digits \in Seq(0 .. size + 1)
    BY <1>8, <2>1, SeqIn
  <2> QED  BY <2>2, <2>3
<1> DEFINE first == s.mtfv \o digits
<1>10. first \in Seq(0 .. size + 1) /\ Len(first) = Len(s.mtfv) + Len(digits)
       /\ Len(s.mtfv) \in Nat
  BY <1>9, JoinedItems
<1>11. coded = first \o << size + 1 >>
  BY <1>7
<1> HIDE DEF first
<1>12. coded \in Seq(0 .. size + 1) /\ Len(coded) = Len(first) + 1
       /\ coded[Len(first) + 1] = size + 1
  <2> DEFINE S == 0 .. size + 1
             eob == size + 1
  <2>1. eob \in S /\ first \in Seq(S) /\ coded = first \o << eob >>
    BY <1>10, <1>11
  <2> HIDE DEF S, eob
  <2>2. /\ first \o << eob >> \in Seq(S) /\ Len(first \o << eob >>) = Len(first) + 1
        /\ (first \o << eob >>)[Len(first) + 1] = eob
    BY <2>1, OneBehind
  <2>3. coded \in Seq(S) /\ Len(coded) = Len(first) + 1 /\ coded[Len(first) + 1] = eob
    BY <2>1, <2>2
  <2> QED  BY <2>3 DEF S, eob
<1> HIDE DEF n
<1>13. Len(coded) \in 1 .. n + 1
  <2>1. Len(first) \in Nat /\ Len(first) <= n
    BY <1>2, <1>6, <1>8, <1>10
  <2> QED  BY <1>2, <1>12, <2>1
<1> QED  BY <1>12, <1>13, <1>2, <1>10 DEF coded, n

-----------------------------------------------------------------------------
(* Heaps.                                                                  *)

Holds(h) == {h[i] : i \in 1 .. Len(h)}
Distinct(h) == \A i, j \in 1 .. Len(h) : h[i] = h[j] => i = j
\* The same nodes in another order.
Rearranged(S, h) ==
    {r \in Seq(S) : Len(r) = Len(h) /\ Holds(r) = Holds(h) /\ (Distinct(h) => Distinct(r))}

LEMMA ExchangeRearranges ==
    ASSUME NEW S, NEW h, NEW r \in Rearranged(S, h),
           NEW i \in 1 .. Len(r), NEW j \in 1 .. Len(r)
    PROVE  Exchange(r, i, j) \in Rearranged(S, h)
<1> DEFINE x == Exchange(r, i, j)
           at(k) == IF k = j THEN i ELSE IF k = i THEN j ELSE k
<1>1. r \in Seq(S) /\ Len(r) \in Nat /\ Len(r) = Len(h) /\ Holds(r) = Holds(h)
  BY DEF Rearranged
<1>2. x \in Seq(S) /\ Len(x) = Len(r)
  BY <1>1 DEF Exchange
<1>3. \A k \in 1 .. Len(r) : at(k) \in 1 .. Len(r) /\ x[k] = r[at(k)] /\ at(at(k)) = k
  BY <1>1 DEF Exchange
<1> HIDE DEF x, at
<1>4. Holds(x) = Holds(r)
  <2>1. ASSUME NEW k \in 1 .. Len(r) PROVE r[k] \in Holds(x)
    <3>1. at(k) \in 1 .. Len(x) /\ x[at(k)] = r[k]
      BY <1>2, <1>3
    <3> QED  BY <3>1 DEF Holds
  <2>2. ASSUME NEW k \in 1 .. Len(x) PROVE x[k] \in Holds(r)
    BY <1>2, <1>3 DEF Holds
  <2> QED  BY <2>1, <2>2 DEF Holds
<1>5. ASSUME Distinct(h) PROVE Distinct(x)
  <2>1. Distinct(r)
    BY <1>5 DEF Rearranged
  <2>2. ASSUME NEW k \in 1 .. Len(x), NEW l \in 1 .. Len(x), x[k] = x[l]
        PROVE  k = l
    <3>1. r[at(k)] = r[at(l)] /\ at(k) \in 1 .. Len(r) /\ at(l) \in 1 .. Len(r)
      BY <1>2, <1>3, <2>2
    <3>2. at(k) = at(l)
      BY <2>1, <3>1 DEF Distinct
    <3> QED  BY <1>2, <1>3, <3>2
  <2> QED  BY <2>2 DEF Distinct
<1> QED  BY <1>1, <1>2, <1>4, <1>5 DEF Rearranged, x

\* What the loops keep: some order of the nodes and a place among them.
HeapStates(S, h) == [heap : Rearranged(S, h), at : 1 .. Len(h)]

LEMMA RiseKeeps ==
    ASSUME NEW S, NEW h \in Seq(S), NEW wt, NEW s \in HeapStates(S, h)
    PROVE  Rise(s, wt) \in HeapStates(S, h)
<1>1. s.heap \in Rearranged(S, h) /\ s.at \in 1 .. Len(h) /\ Len(s.heap) = Len(h)
      /\ Len(h) \in Nat
  BY DEF HeapStates, Rearranged
<1> DEFINE up == s.at \div 2
<1>2. CASE s.at > 1 /\ wt[s.heap[s.at]] < wt[s.heap[up]]
  <2>1. Rise(s, wt) = [heap |-> Exchange(s.heap, s.at, up), at |-> up]
    BY <1>2 DEF Rise
  <2>2. up \in 1 .. Len(h)
    BY <1>1, <1>2
  <2> HIDE DEF up
  <2>3. Exchange(s.heap, s.at, up) \in Rearranged(S, h)
    BY <1>1, <2>2, ExchangeRearranges
  <2> QED  BY <2>1, <2>2, <2>3 DEF HeapStates
<1>3. CASE ~(s.at > 1 /\ wt[s.heap[s.at]] < wt[s.heap[up]])
  BY <1>3 DEF Rise
<1> QED  BY <1>2, <1>3

LEMMA FallKeeps ==
    ASSUME NEW S, NEW h \in Seq(S), NEW wt, NEW s \in HeapStates(S, h)
    PROVE  Fall(s, wt) \in HeapStates(S, h)
<1>1. s.heap \in Rearranged(S, h) /\ s.at \in 1 .. Len(h) /\ Len(s.heap) = Len(h)
      /\ Len(h) \in Nat
  BY DEF HeapStates, Rearranged
<1> DEFINE zz == s.at
           yy == IF 2 * zz < Len(s.heap)
                    /\ wt[s.heap[2 * zz + 1]] < wt[s.heap[2 * zz]]
                 THEN 2 * zz + 1 ELSE 2 * zz
<1>2. CASE 2 * zz > Len(s.heap) \/ wt[s.heap[zz]] < wt[s.heap[yy]]
  BY <1>2 DEF Fall
<1>3. CASE ~(2 * zz > Len(s.heap) \/ wt[s.heap[zz]] < wt[s.heap[yy]])
  <2>1. Fall(s, wt) = [heap |-> Exchange(s.heap, zz, yy), at |-> yy]
    BY <1>3 DEF Fall
  <2>2. zz \in 1 .. Len(h) /\ yy \in 1 .. Len(h)
    <3>1. 2 * zz <= Len(h)
      BY <1>1, <1>3
    <3> QED  BY <1>1, <3>1
  <2> HIDE DEF zz, yy
  <2>3. Exchange(s.heap, zz, yy) \in Rearranged(S, h)
    BY <1>1, <2>2, ExchangeRearranges
  <2> QED  BY <2>1, <2>2, <2>3 DEF HeapStates
<1> QED  BY <1>2, <1>3

LEMMA UpHeapRearranges ==
    ASSUME NEW S, NEW h \in Seq(S), NEW wt, NEW zz \in 1 .. Len(h)
    PROVE  UpHeap(h, wt, zz) \in Rearranged(S, h)
<1> DEFINE St == HeapStates(S, h)
           start == [heap |-> h, at |-> zz]
           F == [x \in St \X (1 .. zz) |-> Rise(x[1], wt)]
           Is(f) == f = [k \in 0 .. zz |-> IF k = 0 THEN [heap |-> h, at |-> zz]
                                           ELSE Rise(f[k - 1], wt)]
<1>1. zz \in Nat /\ start \in St
  BY DEF HeapStates, Rearranged
<1>2. F \in [St \X (1 .. zz) -> St]
  <2>1. \A s \in St : Rise(s, wt) \in St
    BY RiseKeeps
  <2> HIDE DEF St
  <2> QED  BY <2>1
<1>3. StepsTaken(zz, St, start, F)
  <2> HIDE DEF F, St, start
  <2> QED  BY <1>1, <1>2, RecursionExists
<1>4. PICK f \in [0 .. zz -> St] : f[0] = start /\ \A k \in 1 .. zz : f[k] = F[<< f[k - 1], k >>]
  <2> HIDE DEF F, start, St
  <2> QED  BY <1>3 DEF StepsTaken
<1>5. Is(f)
  <2>1. f = [k \in 0 .. zz |-> f[k]] /\ \A k \in 0 .. zz : k = 0 \/ k \in 1 .. zz
    BY <1>1
  <2>2. ASSUME NEW k \in 1 .. zz PROVE f[k] = Rise(f[k - 1], wt)
    <3>1. k - 1 \in 0 .. zz
      BY <1>1
    <3> HIDE DEF St
    <3>2. << f[k - 1], k >> \in St \X (1 .. zz)
      BY <3>1
    <3> QED  BY <1>4, <3>2
  <2> QED  BY <1>4, <2>1, <2>2
<1> DEFINE after == CHOOSE g : Is(g)
<1>6. Is(after)
  <2> HIDE DEF Is
  <2> QED  BY <1>5
<1>7. UpHeap(h, wt, zz) = after[zz].heap
  BY DEF UpHeap
<1> HIDE DEF after
<1>8. after[0] = start /\ \A k \in 1 .. zz : after[k] = Rise(after[k - 1], wt)
  BY <1>1, <1>6
<1>9. \A k \in 0 .. zz : after[k] \in St
  <2> DEFINE all == [k \in 0 .. zz |-> St]
  <2>1. after[0] \in all[0]
    BY <1>1, <1>8
  <2>2. ASSUME NEW k \in 1 .. zz, after[k - 1] \in all[k - 1] PROVE after[k] \in all[k]
    <3>1. k - 1 \in 0 .. zz /\ k \in 0 .. zz
      BY <1>1
    <3>2. after[k - 1] \in HeapStates(S, h)
      BY <2>2, <3>1
    <3>3. after[k] \in HeapStates(S, h)
      BY <1>8, <3>2, RiseKeeps
    <3> QED  BY <3>1, <3>3
  <2>3. \A k \in 0 .. zz : after[k] \in all[k]
    <3> HIDE DEF all
    <3> QED  BY <1>1, <2>1, <2>2, RecursionInvariant
  <2> QED  BY <2>3
<1>10. zz \in 0 .. zz
  BY <1>1
<1> QED  BY <1>7, <1>9, <1>10 DEF HeapStates

LEMMA DownHeapRearranges ==
    ASSUME NEW S, NEW h \in Seq(S), NEW wt, NEW zz \in 1 .. Len(h)
    PROVE  DownHeap(h, wt, zz) \in Rearranged(S, h)
<1> DEFINE n == Len(h)
           St == HeapStates(S, h)
           start == [heap |-> h, at |-> zz]
           F == [x \in St \X (1 .. n) |-> Fall(x[1], wt)]
           Is(f) == f = [k \in 0 .. Len(h) |-> IF k = 0 THEN [heap |-> h, at |-> zz]
                                               ELSE Fall(f[k - 1], wt)]
<1>1. n \in Nat /\ start \in St
  BY DEF HeapStates, Rearranged
<1>2. F \in [St \X (1 .. n) -> St]
  <2>1. \A s \in St : Fall(s, wt) \in St
    BY FallKeeps
  <2> HIDE DEF St
  <2> QED  BY <2>1
<1>3. StepsTaken(n, St, start, F)
  <2> HIDE DEF F, St, start, n
  <2> QED  BY <1>1, <1>2, RecursionExists
<1>4. PICK f \in [0 .. n -> St] : f[0] = start /\ \A k \in 1 .. n : f[k] = F[<< f[k - 1], k >>]
  <2> HIDE DEF F, start, St
  <2> QED  BY <1>3 DEF StepsTaken
<1>5. Is(f)
  <2>1. f = [k \in 0 .. n |-> f[k]] /\ \A k \in 0 .. n : k = 0 \/ k \in 1 .. n
    BY <1>1
  <2>2. ASSUME NEW k \in 1 .. n PROVE f[k] = Fall(f[k - 1], wt)
    <3>1. k - 1 \in 0 .. n
      BY <1>1
    <3> HIDE DEF St
    <3>2. << f[k - 1], k >> \in St \X (1 .. n)
      BY <3>1
    <3> QED  BY <1>4, <3>2
  <2> QED  BY <1>4, <2>1, <2>2
<1> DEFINE after == CHOOSE g : Is(g)
<1>6. Is(after)
  <2> HIDE DEF Is
  <2> QED  BY <1>5
<1>7. DownHeap(h, wt, zz) = after[n].heap
  BY DEF DownHeap
<1> HIDE DEF after
<1>8. after[0] = start /\ \A k \in 1 .. n : after[k] = Fall(after[k - 1], wt)
  <2>1. after = [k \in 0 .. n |-> IF k = 0 THEN start ELSE Fall(after[k - 1], wt)]
    BY <1>6
  <2> HIDE DEF n, start
  <2> QED  BY <1>1, <2>1
<1>9. \A k \in 0 .. n : after[k] \in St
  <2> DEFINE all == [k \in 0 .. n |-> St]
  <2>1. after[0] \in all[0]
    BY <1>1, <1>8
  <2>2. ASSUME NEW k \in 1 .. n, after[k - 1] \in all[k - 1] PROVE after[k] \in all[k]
    <3>1. k - 1 \in 0 .. n /\ k \in 0 .. n
      BY <1>1
    <3>2. after[k - 1] \in HeapStates(S, h)
      BY <2>2, <3>1
    <3>3. after[k] \in HeapStates(S, h)
      BY <1>8, <3>2, FallKeeps
    <3> QED  BY <3>1, <3>3
  <2>3. \A k \in 0 .. n : after[k] \in all[k]
    <3> HIDE DEF all, n
    <3> QED  BY <1>1, <2>1, <2>2, RecursionInvariant
  <2> QED  BY <2>3
<1>10. n \in 0 .. n
  BY <1>1
<1> QED  BY <1>7, <1>9, <1>10 DEF HeapStates

\* A node more.
LEMMA PushHolds ==
    ASSUME NEW S, NEW h \in Seq(S), NEW wt, NEW node \in S, Distinct(h), node \notin Holds(h)
    PROVE  LET r == Push(h, wt, node)
           IN  /\ r \in Seq(S) /\ Len(r) = Len(h) + 1 /\ Distinct(r)
               /\ Holds(r) = Holds(h) \cup {node}
<1> DEFINE a == Append(h, node)
           n == Len(h)
<1>1. n \in Nat /\ a \in Seq(S) /\ Len(a) = n + 1 /\ a[n + 1] = node
      /\ \A k \in 1 .. n : a[k] = h[k]
  OBVIOUS
<1> HIDE DEF a
<1>2. Holds(a) = Holds(h) \cup {node}
  <2>1. \A k \in 1 .. n + 1 : k \in 1 .. n \/ k = n + 1
    BY <1>1
  <2>2. n + 1 \in 1 .. n + 1 /\ \A k \in 1 .. n : k \in 1 .. n + 1
    BY <1>1
  <2> HIDE DEF n
  <2>3. Holds(a) \subseteq Holds(h) \cup {node}
    BY <1>1, <2>1 DEF Holds, n
  <2>4. Holds(h) \cup {node} \subseteq Holds(a)
    BY <1>1, <2>2 DEF Holds, n
  <2> QED  BY <2>3, <2>4
<1>3. Distinct(a)
  <2> SUFFICES ASSUME NEW i \in 1 .. n + 1, NEW j \in 1 .. n + 1, a[i] = a[j] PROVE i = j
    BY <1>1 DEF Distinct
  <2>1. \A k \in 1 .. n : h[k] \in Holds(h)
    BY DEF Holds
  <2>2. \A k \in 1 .. n + 1 : k \in 1 .. n \/ k = n + 1
    BY <1>1
  <2> QED  BY <1>1, <2>1, <2>2 DEF Distinct
<1>4. UpHeap(a, wt, n + 1) \in Rearranged(S, a)
  <2>1. n + 1 \in 1 .. Len(a)
    BY <1>1
  <2> QED  BY <1>1, <2>1, UpHeapRearranges
<1>5. Push(h, wt, node) = UpHeap(a, wt, n + 1)
  BY DEF Push, a
<1> QED  BY <1>1, <1>2, <1>3, <1>4, <1>5 DEF Rearranged, n

\* All but the first.
LEMMA PopHolds ==
    ASSUME NEW S, NEW h \in Seq(S), NEW wt, Len(h) # 0, Distinct(h)
    PROVE  LET r == Pop(h, wt)
           IN  /\ r \in Seq(S) /\ Len(r) = Len(h) - 1 /\ Distinct(r)
               /\ Holds(r) = Holds(h) \ {h[1]} /\ h[1] \in Holds(h)
<1> DEFINE n == Len(h)
           m == Front(<< Last(h) >> \o Tail(h))
           at(k) == IF k = 1 THEN n ELSE k
<1>1. n \in Nat \ {0}
  OBVIOUS
<1>2. h[1] \in Holds(h)
  BY <1>1 DEF Holds
<1>3. CASE n = 1
  <2>1. Pop(h, wt) = << >>
    BY <1>3 DEF Pop
  <2>2. Holds(h) = {h[1]}
    <3>1. 1 .. n = {1}
      BY <1>3
    <3> QED  BY <3>1 DEF Holds
  <2>3. Holds(<< >>) = {} /\ Distinct(<< >>)
    BY DEF Holds, Distinct
  <2> QED  BY <1>2, <1>3, <2>1, <2>2, <2>3
<1>4. CASE n # 1
  <2>1. m \in Seq(S) /\ Len(m) = n - 1 /\ \A k \in 1 .. n - 1 : m[k] = h[at(k)]
    <3>1. << Last(h) >> \in Seq(S) /\ Len(<< Last(h) >>) = 1 /\ << Last(h) >>[1] = h[n]
      BY <1>1 DEF Last
    <3>2. Tail(h) \in Seq(S) /\ Len(Tail(h)) = n - 1 /\ \A k \in 1 .. n - 1 : Tail(h)[k] = h[k + 1]
      BY <1>1
    <3> DEFINE j == << Last(h) >> \o Tail(h)
    <3>3. j \in Seq(S) /\ Len(j) = n
      BY <1>1, <3>1, <3>2, JoinedItems
    <3>4. j[1] = h[n]
      BY <3>1, <3>2, <3>3
    <3>5. ASSUME NEW k \in 2 .. n PROVE j[k] = h[k]
      <4>1. k - 1 \in 1 .. n - 1 /\ (k - 1) + 1 = k /\ 1 + (k - 1) = k
        BY <1>1
      <4>2. j[1 + (k - 1)] = Tail(h)[k - 1]
        BY <3>1, <3>2, <4>1, JoinedSecond
      <4> QED  BY <3>2, <4>1, <4>2
    <3> HIDE DEF j
    <3>6. m = SubSeq(j, 1, n - 1)
      BY <3>3 DEF Front, j
    <3>7. m \in Seq(S) /\ Len(m) = n - 1 /\ \A k \in 1 .. n - 1 : m[k] = j[k]
      BY <1>1, <3>3, <3>6
    <3>8. ASSUME NEW k \in 1 .. n - 1 PROVE j[k] = h[at(k)]
      <4>1. k = 1 \/ k \in 2 .. n
        BY <1>1
      <4> QED  BY <3>4, <3>5, <4>1
    <3> QED  BY <3>7, <3>8
  <2> HIDE DEF m
  <2>2. \A k \in 1 .. n - 1 : at(k) \in 2 .. n /\ at(k) \in 1 .. n
    BY <1>1, <1>4
  <2>3. \A k \in 1 .. n - 1 : \A l \in 1 .. n - 1 : at(k) = at(l) => k = l
    BY <1>1, <1>4
  <2>4. \A k \in 2 .. n : \E l \in 1 .. n - 1 : at(l) = k
    <3> SUFFICES ASSUME NEW k \in 2 .. n PROVE \E l \in 1 .. n - 1 : at(l) = k
      OBVIOUS
    <3>1. CASE k = n
      <4>1. 1 \in 1 .. n - 1 /\ at(1) = k
        BY <1>1, <1>4, <3>1
      <4> QED  BY <4>1
    <3>2. CASE k # n
      <4>1. k \in 1 .. n - 1 /\ at(k) = k
        BY <1>1, <3>2
      <4> QED  BY <4>1
    <3> QED  BY <3>1, <3>2
  <2> HIDE DEF at
  <2>5. Distinct(m)
    <3> SUFFICES ASSUME NEW k \in 1 .. n - 1, NEW l \in 1 .. n - 1, m[k] = m[l] PROVE k = l
      BY <2>1 DEF Distinct
    <3>1. h[at(k)] = h[at(l)]
      BY <2>1
    <3> QED  BY <2>2, <2>3, <3>1 DEF Distinct
  <2>6. Holds(m) = Holds(h) \ {h[1]}
    <3>1. ASSUME NEW k \in 1 .. n - 1 PROVE m[k] \in Holds(h) \ {h[1]}
      <4>1. at(k) # 1 /\ at(k) \in 1 .. n /\ 1 \in 1 .. n
        BY <1>1, <2>2
      <4>2. h[at(k)] # h[1]
        BY <4>1 DEF Distinct
      <4> QED  BY <2>1, <4>1, <4>2 DEF Holds
    <3>2. ASSUME NEW k \in 1 .. n, h[k] # h[1] PROVE h[k] \in Holds(m)
      <4>1. k \in 2 .. n
        BY <3>2
      <4>2. PICK l \in 1 .. n - 1 : at(l) = k
        BY <2>4, <4>1
      <4> QED  BY <2>1, <4>2 DEF Holds
    <3>3. Holds(m) = {m[k] : k \in 1 .. n - 1}
      BY <2>1 DEF Holds
    <3>4. Holds(h) = {h[k] : k \in 1 .. n}
      BY DEF Holds
    <3>5. Holds(m) \subseteq Holds(h) \ {h[1]}
      BY <3>1, <3>3
    <3>6. Holds(h) \ {h[1]} \subseteq Holds(m)
      BY <3>2, <3>4
    <3> QED  BY <3>5, <3>6
  <2>7. Pop(h, wt) = DownHeap(m, wt, 1)
    BY <1>4 DEF Pop, m
  <2>8. DownHeap(m, wt, 1) \in Rearranged(S, m)
    <3>1. 1 \in 1 .. Len(m)
      BY <1>1, <1>4, <2>1
    <3> QED  BY <2>1, <3>1, DownHeapRearranges
  <2> QED  BY <1>2, <2>1, <2>5, <2>6, <2>7, <2>8 DEF Rearranged
<1> QED  BY <1>3, <1>4

-----------------------------------------------------------------------------
(* Trees.                                                                  *)

\* Node i has two children.
TwoChildren(parent, i) ==
    \E c, d \in 1 .. i - 1 : c # d /\ \A k \in 1 .. Len(parent) : parent[k] = i <=> k \in {c, d}

\* The trees over size leaves, as far as they are joined: the heap holds the roots, a
\* node's parent comes behind it and behind the leaves.
Growing(size, s) ==
    /\ s.weight \in Seq(Nat) /\ Len(s.weight) \in size .. 2 * size - 1
    /\ s.parent \in Seq(Nat) /\ Len(s.parent) = Len(s.weight)
    /\ s.heap \in Seq(1 .. Len(s.weight)) /\ Distinct(s.heap)
    /\ Len(s.heap) = 2 * size - Len(s.weight)
    /\ Holds(s.heap) = {i \in 1 .. Len(s.weight) : s.parent[i] = 0}
    /\ \A i \in 1 .. Len(s.weight) :
          s.parent[i] # 0 => s.parent[i] > i /\ s.parent[i] > size
                             /\ s.parent[i] <= Len(s.weight)
    /\ \A i \in size + 1 .. Len(s.weight) : TwoChildren(s.parent, i)

LEMMA AddWeightsNat ==
    ASSUME NEW w1 \in Nat, NEW w2 \in Nat
    PROVE  AddWeights(w1, w2) \in Nat
<1> DEFINE S == {w1 % 256, w2 % 256}
<1>1. S \in SUBSET (0 .. 255) /\ S # {}
  OBVIOUS
<1>2. AddWeights(w1, w2) = (w1 \div 256 + w2 \div 256) * 256 + 1 + Max(S)
  BY DEF AddWeights
<1> HIDE DEF S
<1>3. Max(S) \in 0 .. 255
  BY <1>1, MaxIsGreatest, ZenonT(60)
<1>4. w1 \div 256 \in Nat /\ w2 \div 256 \in Nat
  OBVIOUS
<1> QED  BY <1>2, <1>3, <1>4

LEMMA JoinGrows ==
    ASSUME NEW size \in Nat \ {0}, NEW s, Growing(size, s), Len(s.weight) < 2 * size - 1
    PROVE  Growing(size, Join(s)) /\ Len(Join(s).weight) = Len(s.weight) + 1
<1> DEFINE m == Len(s.weight)
           heap == s.heap
           parent == s.parent
           n1 == heap[1]
           rest == Pop(heap, s.weight)
           n2 == rest[1]
           node == m + 1
           w == Append(s.weight, AddWeights(s.weight[n1], s.weight[n2]))
           bare == Pop(rest, s.weight)
           p == [Append(parent, 0) EXCEPT ![n1] = node, ![n2] = node]
           h == Push(bare, w, node)
<1>1. /\ m \in Nat /\ m < 2 * size - 1 /\ m >= size /\ m + 1 \in Nat
      /\ s.weight \in Seq(Nat)
      /\ parent \in Seq(Nat) /\ Len(parent) = m
      /\ heap \in Seq(1 .. m) /\ Distinct(heap) /\ Len(heap) = 2 * size - m
      /\ Holds(heap) = {i \in 1 .. m : parent[i] = 0}
      /\ \A i \in 1 .. m : parent[i] # 0 => parent[i] > i /\ parent[i] > size /\ parent[i] <= m
      /\ \A i \in size + 1 .. m : TwoChildren(parent, i)
  BY DEF Growing
<1>2. Join(s) = [heap |-> h, weight |-> w, parent |-> p]
  BY DEF Join
<1> HIDE DEF p, h, w, bare, rest, m, heap, parent
<1>3. /\ rest \in Seq(1 .. m) /\ Len(rest) = 2 * size - m - 1 /\ Distinct(rest)
      /\ Holds(rest) = Holds(heap) \ {n1} /\ n1 \in Holds(heap)
  <2>1. Len(heap) # 0 /\ Len(heap) - 1 = 2 * size - m - 1
    BY <1>1
  <2> QED  BY <1>1, <2>1, PopHolds DEF rest
<1>4. /\ bare \in Seq(1 .. m) /\ Len(bare) = 2 * size - m - 2 /\ Distinct(bare)
      /\ Holds(bare) = Holds(rest) \ {n2} /\ n2 \in Holds(rest)
  <2>1. Len(rest) # 0 /\ Len(rest) - 1 = 2 * size - m - 2
    BY <1>1, <1>3
  <2> QED  BY <1>3, <2>1, PopHolds DEF bare
<1>5. n1 \in 1 .. m /\ n2 \in 1 .. m /\ n1 # n2 /\ parent[n1] = 0 /\ parent[n2] = 0
  BY <1>1, <1>3, <1>4
<1> HIDE DEF n1, n2
<1>6. w \in Seq(Nat) /\ Len(w) = node
  <2>1. s.weight[n1] \in Nat /\ s.weight[n2] \in Nat
    <3>1. \A i \in 1 .. m : s.weight[i] \in Nat
      BY <1>1, ElementOfSeq DEF m
    <3> QED  BY <1>5, <3>1
  <2>2. AddWeights(s.weight[n1], s.weight[n2]) \in Nat
    BY <2>1, AddWeightsNat
  <2> QED  BY <1>1, <2>2 DEF w, m
<1>7. /\ h \in Seq(1 .. node) /\ Len(h) = 2 * size - node /\ Distinct(h)
      /\ Holds(h) = Holds(bare) \cup {node}
  <2>1. 1 .. m \subseteq 1 .. node /\ node \in 1 .. node /\ node \notin 1 .. m
    BY <1>1
  <2>2. bare \in Seq(1 .. node) /\ node \notin Holds(bare)
    BY <1>1, <1>3, <1>4, <2>1, SeqIn
  <2>3. /\ h \in Seq(1 .. node) /\ Len(h) = Len(bare) + 1 /\ Distinct(h)
        /\ Holds(h) = Holds(bare) \cup {node}
    <3> HIDE DEF node
    <3> QED  BY <1>4, <2>1, <2>2, PushHolds, SMTT(30) DEF h
  <2> QED  BY <1>1, <1>4, <2>3
<1>8. /\ p \in Seq(Nat) /\ Len(p) = node
      /\ \A i \in 1 .. m : p[i] = IF i \in {n1, n2} THEN node ELSE parent[i]
      /\ p[node] = 0
  <2> DEFINE a == Append(parent, 0)
  <2>1. a \in Seq(Nat) /\ Len(a) = node /\ a[node] = 0 /\ \A i \in 1 .. m : a[i] = parent[i]
    <3>1. 0 \in Nat
      OBVIOUS
    <3>2. a \in Seq(Nat) /\ Len(a) = Len(parent) + 1 /\ a[Len(parent) + 1] = 0
          /\ \A i \in 1 .. Len(parent) : a[i] = parent[i]
      <4>1. parent \in Seq(Nat)
        BY <1>1
      <4> QED  BY ONLY <3>1, <4>1, Appended
    <3> HIDE DEF a
    <3>3. node = Len(parent) + 1 /\ m = Len(parent)
      BY <1>1
    <3> QED  BY <3>2, <3>3
  <2> HIDE DEF a
  <2>2. p = [a EXCEPT ![n1] = node, ![n2] = node]
    BY DEF p, a
  <2>3. p \in Seq(Nat) /\ Len(p) = node
    <3>1. a \in [1 .. node -> Nat] /\ node \in Nat
      <4>1. node \in Nat
        BY <1>1
      <4> HIDE DEF node
      <4> QED  BY <2>1, <4>1
    <3>2. p \in [1 .. node -> Nat]
      BY <2>2, <3>1
    <3> HIDE DEF node
    <3> QED  BY <3>1, <3>2, SeqFrom
  <2>4. \A i \in 1 .. node : p[i] = IF i \in {n1, n2} THEN node ELSE a[i]
    BY <2>1, <2>2
  <2>5. node \notin {n1, n2} /\ node \in 1 .. node /\ \A i \in 1 .. m : i \in 1 .. node
    BY <1>1, <1>5
  <2> QED  BY <2>1, <2>3, <2>4, <2>5
<1>9. \A i \in 1 .. node : i \in 1 .. m \/ i = node
  BY <1>1
<1>10. Holds(h) = {i \in 1 .. node : p[i] = 0}
  <2>1. node # 0 /\ node \notin {n1, n2} /\ node \in 1 .. node /\ \A i \in 1 .. m : i \in 1 .. node
    BY <1>1, <1>5
  <2>2. Holds(bare) = {i \in 1 .. m : parent[i] = 0} \ {n1, n2}
    BY <1>1, <1>3, <1>4
  <2>3. {i \in 1 .. m : parent[i] = 0} \ {n1, n2} = {i \in 1 .. m : p[i] = 0}
    BY <1>8, <2>1
  <2>4. {i \in 1 .. node : p[i] = 0} = {i \in 1 .. m : p[i] = 0} \cup {node}
    BY <1>8, <1>9, <2>1
  <2> QED  BY <1>7, <2>2, <2>3, <2>4
<1>11. \A i \in 1 .. node : p[i] # 0 => p[i] > i /\ p[i] > size /\ p[i] <= node
  <2> SUFFICES ASSUME NEW i \in 1 .. m, p[i] # 0
               PROVE  p[i] > i /\ p[i] > size /\ p[i] <= node
    BY <1>8, <1>9
  <2>1. CASE i \in {n1, n2}
    <3>1. p[i] = node /\ m \in Nat /\ m >= size
      BY <1>1, <1>8, <2>1
    <3> QED  BY <3>1
  <2>2. CASE i \notin {n1, n2}
    <3>1. p[i] = parent[i]
      BY <1>8, <2>2
    <3>2. parent[i] \in Nat /\ m \in Nat
      BY <1>1, ElementOfSeq
    <3>3. parent[i] > i /\ parent[i] > size /\ parent[i] <= m
      BY <1>1, <3>1
    <3> QED  BY <3>1, <3>2, <3>3
  <2> QED  BY <2>1, <2>2
<1>12. \A i \in size + 1 .. node : TwoChildren(p, i)
  <2> SUFFICES ASSUME NEW i \in size + 1 .. node PROVE TwoChildren(p, i)
    OBVIOUS
  <2>1. CASE i = node
    <3>1. n1 \in 1 .. i - 1 /\ n2 \in 1 .. i - 1
      BY <1>1, <1>5, <2>1
    <3>2. ASSUME NEW k \in 1 .. Len(p) PROVE p[k] = i <=> k \in {n1, n2}
      <4>1. CASE k = node
        BY <1>1, <1>5, <1>8, <2>1, <4>1
      <4>2. CASE k \in 1 .. m
        <5>1. parent[k] # node
          <6>1. parent[k] = 0 \/ parent[k] <= m
            BY <1>1, <4>2
          <6> QED  BY <1>1, <6>1
        <5> QED  BY <1>8, <2>1, <4>2, <5>1
      <4> QED  BY <1>8, <1>9, <4>1, <4>2
    <3> QED  BY <1>5, <3>1, <3>2 DEF TwoChildren
  <2>2. CASE i # node
    <3>1. i \in size + 1 .. m
      BY <1>1, <2>2
    <3>2. PICK c \in 1 .. i - 1, d \in 1 .. i - 1 :
                 c # d /\ \A k \in 1 .. m : parent[k] = i <=> k \in {c, d}
      BY <1>1, <3>1 DEF TwoChildren
    <3>3. c \in 1 .. m /\ d \in 1 .. m
      BY <1>1, <3>1
    <3>4. parent[c] = i /\ parent[d] = i /\ i # 0
      BY <3>1, <3>2, <3>3
    <3>5. c \notin {n1, n2} /\ d \notin {n1, n2}
      BY <1>5, <3>4
    <3>6. ASSUME NEW k \in 1 .. Len(p) PROVE p[k] = i <=> k \in {c, d}
      <4>1. CASE k = node
        BY <1>1, <1>8, <3>3, <3>4, <4>1
      <4>2. CASE k \in 1 .. m
        BY <1>8, <2>2, <3>2, <3>5, <4>2, <1>5, <3>4
      <4> QED  BY <1>8, <1>9, <4>1, <4>2
    <3> QED  BY <3>2, <3>6 DEF TwoChildren
  <2> QED  BY <2>1, <2>2
<1>13. Growing(size, [heap |-> h, weight |-> w, parent |-> p])
  <2> DEFINE t == [heap |-> h, weight |-> w, parent |-> p]
  <2>1. t.heap = h /\ t.weight = w /\ t.parent = p
    OBVIOUS
  <2> HIDE DEF t
  <2>2. node \in size .. 2 * size - 1
    BY <1>1
  <2> HIDE DEF node
  <2>3. Len(t.weight) = node
    BY <1>6, <2>1
  <2>4. t.weight \in Seq(Nat) /\ t.parent \in Seq(Nat) /\ Len(t.parent) = node
    BY <1>6, <1>8, <2>1
  <2>5. /\ t.heap \in Seq(1 .. node) /\ Distinct(t.heap) /\ Len(t.heap) = 2 * size - node
        /\ Holds(t.heap) = {i \in 1 .. node : t.parent[i] = 0}
    BY <1>7, <1>10, <2>1
  <2>6. \A i \in 1 .. node :
            t.parent[i] # 0 => t.parent[i] > i /\ t.parent[i] > size /\ t.parent[i] <= node
    BY <1>11, <2>1
  <2>7. \A i \in size + 1 .. node : TwoChildren(t.parent, i)
    BY <1>12, <2>1
  <2>8. Growing(size, t)
    BY <2>2, <2>3, <2>4, <2>5, <2>6, <2>7 DEF Growing
  <2> QED  BY <2>8 DEF t
<1> QED  BY <1>2, <1>6, <1>13 DEF m

LEMMA PushType ==
    ASSUME NEW S, NEW h \in Seq(S), NEW wt, NEW node \in S
    PROVE  Push(h, wt, node) \in Seq(S)
<1> DEFINE a == Append(h, node)
<1>1. a \in Seq(S) /\ Len(a) = Len(h) + 1 /\ Len(h) \in Nat
  BY Appended
<1> HIDE DEF a
<1>2. Len(h) + 1 \in 1 .. Len(a)
  BY <1>1
<1>3. UpHeap(a, wt, Len(h) + 1) \in Rearranged(S, a)
  BY <1>1, <1>2, UpHeapRearranges
<1> QED  BY <1>3 DEF Push, a, Rearranged

\* Leaves alone, all of them in the heap.
LEMMA LeavesGrow ==
    ASSUME NEW wt \in Seq(Nat), Len(wt) # 0
    PROVE  Growing(Len(wt), Leaves(wt)) /\ Leaves(wt).weight = wt
<1> DEFINE n == Len(wt)
           S == 1 .. n
           St == Seq(S)
           F == [x \in St \X (1 .. n) |-> Push(x[1], wt, x[2])]
           Is(f) == f = [i \in 0 .. Len(wt) |-> IF i = 0 THEN << >>
                                                    ELSE Push(f[i - 1], wt, i)]
<1>1. n \in Nat \ {0} /\ << >> \in St
  OBVIOUS
<1>2. F \in [St \X (1 .. n) -> St]
  <2>1. \A h \in St : \A i \in 1 .. n : Push(h, wt, i) \in St
    BY PushType
  <2> HIDE DEF St, n
  <2> QED  BY <2>1
<1> DEFINE start == << >>
<1>3. StepsTaken(n, St, start, F)
  <2>1. start \in St
    BY <1>1
  <2> HIDE DEF F, St, start, n
  <2> QED  BY <1>1, <1>2, <2>1, RecursionExists
<1>4. PICK f \in [0 .. n -> St] : f[0] = start /\ \A k \in 1 .. n : f[k] = F[<< f[k - 1], k >>]
  <2> HIDE DEF F, start, St
  <2> QED  BY <1>3 DEF StepsTaken
<1>5. Is(f)
  <2>1. f = [k \in 0 .. n |-> f[k]] /\ \A k \in 0 .. n : k = 0 \/ k \in 1 .. n
    BY <1>1
  <2>2. ASSUME NEW k \in 1 .. n PROVE f[k] = Push(f[k - 1], wt, k)
    <3>1. k - 1 \in 0 .. n
      BY <1>1
    <3> HIDE DEF St
    <3>2. << f[k - 1], k >> \in St \X (1 .. n)
      BY <3>1
    <3> QED  BY <1>4, <3>2
  <2> QED  BY <1>4, <2>1, <2>2
<1> DEFINE heap == CHOOSE g : Is(g)
<1>6. Is(heap)
  <2> HIDE DEF Is
  <2> QED  BY <1>5
<1> DEFINE none == [i \in 1 .. n |-> 0]
<1>7. Leaves(wt) = [heap |-> heap[n], weight |-> wt, parent |-> none]
  BY DEF Leaves
<1> HIDE DEF heap
<1>8. heap[0] = start /\ \A k \in 1 .. n : heap[k] = Push(heap[k - 1], wt, k)
  <2>1. heap = [k \in 0 .. n |-> IF k = 0 THEN start ELSE Push(heap[k - 1], wt, k)]
    BY <1>6
  <2> HIDE DEF n, start
  <2> QED  BY <1>1, <2>1
<1> DEFINE Of(k) == {h \in Seq(S) : Len(h) = k /\ Distinct(h) /\ Holds(h) = 1 .. k}
<1>9. \A k \in 0 .. n : heap[k] \in Of(k)
  <2> DEFINE all == [k \in 0 .. n |-> Of(k)]
  <2>1. heap[0] \in all[0]
    <3>1. start \in Seq(S) /\ Len(start) = 0 /\ 1 .. 0 = {} /\ 0 \in 0 .. n
      BY <1>1
    <3>2. Distinct(start) /\ Holds(start) = {}
      BY <3>1 DEF Distinct, Holds
    <3> QED  BY <1>8, <3>1, <3>2
  <2>2. ASSUME NEW k \in 1 .. n, heap[k - 1] \in all[k - 1] PROVE heap[k] \in all[k]
    <3>1. k - 1 \in 0 .. n /\ k \in 0 .. n /\ k \in S /\ k \notin 1 .. k - 1
          /\ (k - 1) + 1 = k /\ (1 .. k - 1) \cup {k} = 1 .. k
      BY <1>1
    <3>2. heap[k - 1] \in Of(k - 1)
      BY <2>2, <3>1
    <3> HIDE DEF S
    <3>3. /\ heap[k] \in Seq(S) /\ Len(heap[k]) = Len(heap[k - 1]) + 1 /\ Distinct(heap[k])
          /\ Holds(heap[k]) = Holds(heap[k - 1]) \cup {k}
      BY <1>8, <3>1, <3>2, PushHolds
    <3>4. heap[k] \in Of(k)
      BY <3>1, <3>2, <3>3
    <3> QED  BY <3>1, <3>4
  <2>3. \A k \in 0 .. n : heap[k] \in all[k]
    <3> HIDE DEF all, n
    <3> QED  BY <1>1, <2>1, <2>2, RecursionInvariant
  <2> QED  BY <2>3
<1>10. heap[n] \in Of(n)
  <2>1. n \in 0 .. n
    BY <1>1
  <2> QED  BY <1>9, <2>1
<1>11. none \in Seq(Nat) /\ Len(none) = n
  <2>1. none \in [1 .. n -> Nat]
    OBVIOUS
  <2> HIDE DEF none, n
  <2> QED  BY <1>1, <2>1, SeqFrom
<1> DEFINE s == Leaves(wt)
           h == heap[n]
<1>12. s.heap = h /\ s.weight = wt /\ s.parent = none
  BY <1>7
<1>13. \A i \in 1 .. n : none[i] = 0
  OBVIOUS
<1> HIDE DEF s, none, h
<1>14. /\ n \in n .. 2 * n - 1 /\ 2 * n - n = n
       /\ \A i \in n + 1 .. n : FALSE
  BY <1>1
<1>15. h \in Seq(1 .. n) /\ Distinct(h) /\ Len(h) = n /\ Holds(h) = {i \in 1 .. n : none[i] = 0}
  BY <1>10, <1>13 DEF h
<1>16. Growing(n, s)
  BY <1>11, <1>12, <1>13, <1>14, <1>15 DEF Growing
<1> QED  BY <1>12, <1>16 DEF s

\* One tree over size leaves: the root is the last node, all others have a parent that
\* comes behind them and is no leaf, and each of those has two children.
FullTree(size, parent) ==
    /\ parent \in Seq(Nat) /\ Len(parent) = 2 * size - 1
    /\ parent[2 * size - 1] = 0
    /\ \A i \in 1 .. 2 * size - 2 : parent[i] \in i + 1 .. 2 * size - 1 /\ parent[i] > size
    /\ \A i \in size + 1 .. 2 * size - 1 : TwoChildren(parent, i)

LEMMA GrownUp ==
    ASSUME NEW size \in Nat \ {0}, NEW s, Growing(size, s), Len(s.weight) = 2 * size - 1
    PROVE  FullTree(size, s.parent)
<1> DEFINE m == 2 * size - 1
           heap == s.heap
           parent == s.parent
<1>1. /\ m \in Nat \ {0} /\ m - 1 = 2 * size - 2
      /\ parent \in Seq(Nat) /\ Len(parent) = m
      /\ heap \in Seq(1 .. m) /\ Len(heap) = 1
      /\ Holds(heap) = {i \in 1 .. m : parent[i] = 0}
      /\ \A i \in 1 .. m : parent[i] # 0 => parent[i] > i /\ parent[i] > size /\ parent[i] <= m
      /\ \A i \in size + 1 .. m : TwoChildren(parent, i)
  BY DEF Growing
<1> HIDE DEF heap, parent
<1>2. Holds(heap) = {heap[1]}
  <2>1. 1 .. Len(heap) = {1}
    BY <1>1
  <2> QED  BY <2>1 DEF Holds
<1>3. \A i \in 1 .. m : parent[i] \in Nat
  BY <1>1, ElementOfSeq
<1>4. m \in 1 .. m
  BY <1>1
<1>5. parent[m] = 0
  <2>1. parent[m] # 0 => parent[m] > m /\ parent[m] <= m
    BY <1>1, <1>4
  <2>2. parent[m] \in Nat
    BY <1>3, <1>4
  <2> QED  BY <1>1, <2>1, <2>2
<1>6. ASSUME NEW i \in 1 .. m - 1
      PROVE  parent[i] \in i + 1 .. m /\ parent[i] > size
  <2>1. i \in 1 .. m /\ i # m
    BY <1>1
  <2>2. parent[i] # 0
    <3>1. m \in Holds(heap) /\ (parent[i] = 0 => i \in Holds(heap))
      BY <1>1, <1>4, <1>5, <2>1
    <3> QED  BY <1>2, <2>1, <3>1
  <2>3. parent[i] > i /\ parent[i] > size /\ parent[i] <= m
    BY <1>1, <2>1, <2>2
  <2>4. parent[i] \in Nat
    BY <1>3, <2>1
  <2> HIDE DEF m
  <2> QED  BY <1>1, <2>3, <2>4
<1> QED  BY <1>1, <1>5, <1>6 DEF FullTree, parent

Forests == [heap : Seq(Nat), weight : Seq(Nat), parent : Seq(Nat)]

\* After as many joins as there are leaves but one, one tree is left.
LEMMA JoinedTree ==
    ASSUME NEW wt \in Seq(Nat), Len(wt) # 0
    PROVE  \E parent :
               /\ FullTree(Len(wt), parent)
               /\ CodeLengths(wt) =
                     LET depth[k \in DOMAIN parent] ==
                             IF parent[k] = 0 THEN 0 ELSE 1 + depth[parent[k]]
                     IN  [v \in 0 .. Len(wt) - 1 |-> depth[v + 1]]
<1> DEFINE n == Len(wt)
           most == 2 * n - 1
           St == {s \in Forests : Growing(n, s)}
           step(s) == IF Len(s.weight) < most THEN Join(s) ELSE s
           start == Leaves(wt)
           F == [x \in St \X (1 .. n - 1) |-> step(x[1])]
           Is(f) == f = [k \in 0 .. Len(wt) - 1 |->
                            IF k = 0 THEN Leaves(wt) ELSE Join(f[k - 1])]
<1>1. n \in Nat \ {0} /\ n - 1 \in Nat
  OBVIOUS
<1>2. ASSUME NEW s, Growing(n, s), s = [heap |-> s.heap, weight |-> s.weight, parent |-> s.parent]
      PROVE  s \in St
  <2>1. s.weight \in Seq(Nat) /\ s.parent \in Seq(Nat) /\ s.heap \in Seq(1 .. Len(s.weight))
    BY <1>2 DEF Growing
  <2>2. s.heap \in Seq(Nat)
    <3>1. 1 .. Len(s.weight) \subseteq Nat
      BY <2>1
    <3> QED  BY <2>1, <3>1, SeqIn
  <2>3. s \in Forests
    BY <1>2, <2>1, <2>2 DEF Forests
  <2> QED  BY <1>2, <2>3
<1>3. start \in St
  <2>1. Growing(n, start)
    BY LeavesGrow
  <2>2. start = [heap |-> start.heap, weight |-> start.weight, parent |-> start.parent]
    BY DEF Leaves
  <2> HIDE DEF start, St, n
  <2> QED  BY <1>2, <2>1, <2>2
<1>4. ASSUME NEW s \in St
      PROVE  step(s) \in St
  <2>1. CASE Len(s.weight) < most
    <3>1. Growing(n, Join(s))
      BY <1>1, <2>1, JoinGrows
    <3> DEFINE t == Join(s)
    <3>2. t = [heap |-> t.heap, weight |-> t.weight, parent |-> t.parent]
      BY DEF Join
    <3> HIDE DEF t, St, n
    <3>3. t \in St
      BY <1>2, <3>1, <3>2 DEF t
    <3> QED  BY <2>1, <3>3 DEF t
  <2>2. CASE ~(Len(s.weight) < most)
    BY <2>2
  <2> QED  BY <2>1, <2>2
<1>5. F \in [St \X (1 .. n - 1) -> St]
  <2> HIDE DEF St, step, n
  <2> QED  BY <1>4
<1>6. StepsTaken(n - 1, St, start, F)
  <2> DEFINE m == n - 1
  <2>1. m \in Nat /\ F \in [St \X (1 .. m) -> St]
    BY <1>1, <1>5
  <2> HIDE DEF F, St, start, n, m
  <2>2. StepsTaken(m, St, start, F)
    BY <1>3, <2>1, RecursionExists
  <2> QED  BY <2>2 DEF m
<1>7. PICK f \in [0 .. n - 1 -> St] :
           f[0] = start /\ \A k \in 1 .. n - 1 : f[k] = F[<< f[k - 1], k >>]
  <2> HIDE DEF F, start, St
  <2> QED  BY <1>6 DEF StepsTaken
<1>8. ASSUME NEW k \in 1 .. n - 1 PROVE f[k] = step(f[k - 1]) /\ f[k - 1] \in St
  <2>1. k - 1 \in 0 .. n - 1
    BY <1>1
  <2> HIDE DEF St, step, n
  <2>2. << f[k - 1], k >> \in St \X (1 .. n - 1) /\ f[k - 1] \in St
    BY <1>7, <2>1
  <2> QED  BY <1>7, <2>2
<1> DEFINE Sized(k) == {s \in St : Len(s.weight) = n + k}
<1>9. \A k \in 0 .. n - 1 : f[k] \in Sized(k)
  <2> DEFINE all == [k \in 0 .. n - 1 |-> Sized(k)]
  <2>1. f[0] \in all[0]
    <3>1. 0 \in 0 .. n - 1 /\ n + 0 = n
      BY <1>1
    <3>2. Len(start.weight) = n
      BY LeavesGrow
    <3> HIDE DEF St, n, start
    <3> QED  BY <1>3, <1>7, <3>1, <3>2
  <2>2. ASSUME NEW k \in 1 .. n - 1, f[k - 1] \in all[k - 1] PROVE f[k] \in all[k]
    <3>1. k - 1 \in 0 .. n - 1 /\ k \in 0 .. n - 1 /\ n + (k - 1) < most /\ n + (k - 1) + 1 = n + k
      BY <1>1
    <3> HIDE DEF St, n, step, most
    <3>2. f[k - 1] \in St /\ Len(f[k - 1].weight) = n + (k - 1)
      BY <2>2, <3>1
    <3>3. f[k] = Join(f[k - 1]) /\ f[k] \in St
      BY <1>4, <1>8, <3>1, <3>2 DEF step
    <3>4. Growing(n, f[k - 1])
      BY <3>2 DEF St
    <3>5. Len(f[k].weight) = Len(f[k - 1].weight) + 1
      BY <1>1, <3>1, <3>2, <3>3, <3>4, JoinGrows DEF most
    <3> QED  BY <3>1, <3>2, <3>3, <3>5
  <2> DEFINE m == n - 1
  <2>3. m \in Nat
    BY <1>1
  <2>4. \A k \in 0 .. m : f[k] \in all[k]
    <3> HIDE DEF all, m
    <3>1. f[0] \in all[0] /\ \A k \in 1 .. m : f[k - 1] \in all[k - 1] => f[k] \in all[k]
      BY <2>1, <2>2 DEF m
    <3> QED  BY <2>3, <3>1, RecursionInvariant
  <2> HIDE DEF St
  <2> QED  BY <2>4
<1>10. ASSUME NEW k \in 1 .. n - 1 PROVE f[k] = Join(f[k - 1])
  <2>1. k - 1 \in 0 .. n - 1 /\ n + (k - 1) < most
    BY <1>1
  <2>2. Len(f[k - 1].weight) = n + (k - 1)
    BY <1>9, <2>1
  <2> HIDE DEF n, St, most
  <2> QED  BY <1>8, <2>1, <2>2
<1>11. Is(f)
  <2>1. f = [k \in 0 .. n - 1 |-> f[k]] /\ \A k \in 0 .. n - 1 : k = 0 \/ k \in 1 .. n - 1
    BY <1>1
  <2> HIDE DEF St, step
  <2> QED  BY <1>7, <1>10, <2>1
<1> DEFINE joined == CHOOSE g : Is(g)
<1>12. Is(joined)
  <2> HIDE DEF Is
  <2> QED  BY <1>11
<1> DEFINE parent == joined[n - 1].parent
<1>13. CodeLengths(wt) =
           LET depth[k \in DOMAIN parent] ==
                   IF parent[k] = 0 THEN 0 ELSE 1 + depth[parent[k]]
           IN  [v \in 0 .. Len(wt) - 1 |-> depth[v + 1]]
  BY DEF CodeLengths
<1> HIDE DEF joined
<1>14. joined[n - 1] = f[n - 1]
  <2> DEFINE m == n - 1
  <2>1. joined = [k \in 0 .. m |-> IF k = 0 THEN start ELSE Join(joined[k - 1])]
    BY <1>12
  <2>2. m \in Nat
    BY <1>1
  <2> HIDE DEF m, n, start, St
  <2>3. joined[0] = start /\ \A k \in 1 .. m : joined[k] = Join(joined[k - 1])
    BY <2>1, <2>2
  <2>4. f[0] = start /\ \A k \in 1 .. m : f[k] = Join(f[k - 1])
    BY <1>7, <1>10 DEF m
  <2>5. StepAlike(m, joined, f)
    BY <2>3, <2>4 DEF StepAlike
  <2>6. \A k \in 0 .. m : joined[k] = f[k]
    BY <2>2, <2>5, RecursionSame
  <2>7. joined[m] = f[m]
    BY <2>2, <2>6
  <2> QED  BY <2>7 DEF m
<1>15. FullTree(n, parent)
  <2>1. n - 1 \in 0 .. n - 1 /\ n + (n - 1) = most
    BY <1>1
  <2>2. Len(f[n - 1].weight) = most /\ Growing(n, f[n - 1])
    BY <1>9, <2>1
  <2> HIDE DEF n, St
  <2> QED  BY <1>1, <1>14, <2>2, GrownUp
<1> HIDE DEF parent
<1> QED  BY <1>13, <1>15

\* The depths of a tree's nodes.
Depths(parent, depth) ==
    \A k \in 1 .. Len(parent) : depth[k] = IF parent[k] = 0 THEN 0 ELSE 1 + depth[parent[k]]

LEMMA CountedBack ==
    ASSUME NEW P, Backward(P)
    PROVE  \E f \in [Nat -> Nat] : f[0] = 0 /\ \A z \in Nat \ {0} : f[z] = 1 + f[P[z]]
<1> DEFINE St == Nat
           F == [x \in St \X (Nat \ {0}) |-> 1 + x[1]]
           start == 0
<1>1. start \in St
  OBVIOUS
<1>2. F \in [St \X (Nat \ {0}) -> St]
  OBVIOUS
<1>3. PICK f \in [Nat -> St] :
             f[0] = start /\ \A z \in Nat \ {0} : f[z] = F[<< f[P[z]], z >>]
  <2> HIDE DEF F, St, start
  <2> QED  BY <1>1, <1>2, BackExists
<1>4. ASSUME NEW z \in Nat \ {0} PROVE f[z] = 1 + f[P[z]]
  <2>1. P[z] \in Nat
    BY DEF Backward
  <2>2. << f[P[z]], z >> \in St \X (Nat \ {0})
    BY <2>1
  <2> QED  BY <1>3, <2>2
<1> QED  BY <1>3, <1>4

LEMMA DepthExists ==
    ASSUME NEW size \in Nat \ {0}, NEW parent, FullTree(size, parent)
    PROVE  \E d \in [1 .. 2 * size - 1 -> Nat] : Depths(parent, d)
<1> DEFINE m == 2 * size - 1
           P == [z \in Nat \ {0} |-> IF z < m THEN m - parent[m - z] ELSE 0]
<1>1. /\ m \in Nat \ {0} /\ parent \in Seq(Nat) /\ Len(parent) = m /\ parent[m] = 0
      /\ \A i \in 1 .. m - 1 : parent[i] \in i + 1 .. m
  <2>1. m - 1 = 2 * size - 2
    OBVIOUS
  <2> QED  BY <2>1 DEF FullTree
<1>2. Backward(P)
  <2> SUFFICES ASSUME NEW z \in Nat \ {0} PROVE P[z] \in Nat /\ P[z] < z
    BY DEF Backward
  <2> HIDE DEF m
  <2>1. CASE z < m
    <3>1. m - z \in 1 .. m - 1
      BY <1>1, <2>1
    <3>2. parent[m - z] \in (m - z) + 1 .. m
      BY <1>1, <3>1
    <3>3. m - parent[m - z] \in Nat /\ m - parent[m - z] < z
      BY <1>1, <3>1, <3>2
    <3> QED  BY <2>1, <3>3
  <2>2. CASE ~(z < m)
    BY <2>2
  <2> QED  BY <2>1, <2>2
<1>3. PICK f \in [Nat -> Nat] : f[0] = 0 /\ \A z \in Nat \ {0} : f[z] = 1 + f[P[z]]
  <2> HIDE DEF P
  <2> QED  BY <1>2, CountedBack
<1> DEFINE d == [i \in 1 .. m |-> f[m - i]]
<1> HIDE DEF m
<1>4. d \in [1 .. m -> Nat]
  BY <1>1, SMTT(30)
<1>5. ASSUME NEW i \in 1 .. m PROVE d[i] = IF parent[i] = 0 THEN 0 ELSE 1 + d[parent[i]]
  <2>1. CASE i = m
    BY <1>1, <1>3, <2>1
  <2>2. CASE i # m
    <3>1. i \in 1 .. m - 1 /\ m - i \in Nat \ {0} /\ m - i < m /\ m - (m - i) = i
      BY <1>1, <2>2
    <3>2. parent[i] \in i + 1 .. m
      BY <1>1, <3>1
    <3>3. parent[i] \in 1 .. m /\ parent[i] # 0
      BY <3>1, <3>2
    <3>4. P[m - i] = m - parent[i] /\ m - parent[i] \in Nat
      <4>1. P[m - i] = m - parent[m - (m - i)]
        BY <3>1
      <4>2. m - (m - i) = i
        BY <3>1
      <4>3. m - parent[i] \in Nat
        <5>1. m \in Nat
          BY <1>1
        <5> QED  BY <3>3, <5>1
      <4> HIDE DEF P
      <4> QED  BY <4>1, <4>2, <4>3
    <3> HIDE DEF P
    <3>5. f[m - i] = 1 + f[m - parent[i]]
      BY <1>3, <3>1, <3>4
    <3> QED  BY <3>3, <3>5
  <2> QED  BY <2>1, <2>2
<1> HIDE DEF d
<1>6. Depths(parent, d)
  BY <1>1, <1>5 DEF Depths
<1> QED  BY <1>4, <1>6 DEF m

\* Depths are below the number of nodes behind.
LEMMA DepthBound ==
    ASSUME NEW size \in Nat \ {0}, NEW parent, FullTree(size, parent), NEW d, Depths(parent, d)
    PROVE  \A i \in 1 .. 2 * size - 1 : d[i] \in 0 .. 2 * size - 1 - i
<1> DEFINE m == 2 * size - 1
           T == {z \in Nat : z < m => d[m - z] \in 0 .. z}
<1>1. /\ m \in Nat \ {0} /\ parent \in Seq(Nat) /\ Len(parent) = m /\ parent[m] = 0
      /\ \A i \in 1 .. m - 1 : parent[i] \in i + 1 .. m
  <2>1. m - 1 = 2 * size - 2
    OBVIOUS
  <2> QED  BY <2>1 DEF FullTree
<1> HIDE DEF m
<1>2. ASSUME NEW z \in Nat, \A j \in Nat : j < z => j \in T PROVE z \in T
  <2> SUFFICES ASSUME z < m PROVE d[m - z] \in 0 .. z
    OBVIOUS
  <2>1. m - z \in 1 .. Len(parent)
    BY <1>1
  <2>2. d[m - z] = IF parent[m - z] = 0 THEN 0 ELSE 1 + d[parent[m - z]]
    BY <2>1 DEF Depths
  <2>3. CASE z = 0
    BY <1>1, <2>2, <2>3
  <2>4. CASE z # 0
    <3> DEFINE up == parent[m - z]
               j == m - up
    <3>1. m - z \in 1 .. m - 1
      BY <1>1, <2>4
    <3>2. up \in (m - z) + 1 .. m
      BY <1>1, <3>1
    <3> HIDE DEF up
    <3>3. up # 0 /\ j \in Nat /\ j < z /\ j < m /\ m - j = up
      BY <1>1, <3>1, <3>2
    <3>4. d[up] \in 0 .. j
      BY <1>2, <3>3
    <3>5. d[m - z] = 1 + d[up]
      BY <2>2, <3>3 DEF up
    <3> QED  BY <3>3, <3>4, <3>5
  <2> QED  BY <2>3, <2>4
<1>3. \A z \in Nat : z \in T
  <2> HIDE DEF T
  <2> QED  BY <1>2, StrongInduction
<1>4. ASSUME NEW i \in 1 .. m PROVE d[i] \in 0 .. m - i
  <2>1. m - i \in Nat /\ m - i < m /\ m - (m - i) = i
    BY <1>1
  <2>2. m - i \in T
    BY <1>3, <2>1
  <2> QED  BY <2>1, <2>2
<1> QED  BY <1>4 DEF m

\* The sum of 2^-depth, as a multiple of 2^-D, over the nodes up to m whose parents come
\* behind m.
Frontier(N, parent, d, D, m) ==
    [i \in 1 .. N |-> IF i <= m /\ (parent[i] = 0 \/ parent[i] > m) THEN Pow2[D - d[i]] ELSE 0]

\* It is 1 for the root, and the two children of a node weigh as much as the node.
LEMMA FrontierStep ==
    ASSUME NEW size \in Nat \ {0}, NEW parent, FullTree(size, parent), NEW d, Depths(parent, d),
           NEW D \in Nat, D >= 2 * size, NEW m \in size + 1 .. 2 * size - 1
    PROVE  Total(2 * size - 1, Frontier(2 * size - 1, parent, d, D, m - 1))
           = Total(2 * size - 1, Frontier(2 * size - 1, parent, d, D, m))
<1> DEFINE N == 2 * size - 1
           new == Frontier(2 * size - 1, parent, d, D, m - 1)
           old == Frontier(2 * size - 1, parent, d, D, m)
<1>1. /\ N \in Nat \ {0} /\ m \in 1 .. N /\ m \in Nat /\ D >= N /\ N = 2 * size - 1
      /\ Len(parent) = N /\ \A i \in 1 .. N : parent[i] \in Nat
      /\ \A i \in 1 .. N - 1 : parent[i] \in i + 1 .. N
      /\ parent[N] = 0
  <2>1. N - 1 = 2 * size - 2
    OBVIOUS
  <2>2. parent \in Seq(Nat)
    BY DEF FullTree
  <2>3. \A i \in 1 .. Len(parent) : parent[i] \in Nat
    BY <2>2, ElementOfSeq
  <2> QED  BY <2>1, <2>3 DEF FullTree
<1>2. PICK c \in 1 .. m - 1, e \in 1 .. m - 1 :
           c # e /\ \A k \in 1 .. N : parent[k] = m <=> k \in {c, e}
  BY <1>1 DEF FullTree, TwoChildren
<1>3. \A i \in 1 .. N : d[i] \in 0 .. N - i
  BY DepthBound
<1>4. \A i \in 1 .. N : d[i] = IF parent[i] = 0 THEN 0 ELSE 1 + d[parent[i]]
  BY <1>1 DEF Depths
<1> HIDE DEF N
<1> DEFINE q == Pow2[D - d[m] - 1]
           p == Pow2[D - d[m]]
<1>5. /\ c \in 1 .. N /\ e \in 1 .. N /\ c # m /\ e # m /\ c <= m - 1 /\ e <= m - 1
      /\ parent[c] = m /\ parent[e] = m
  BY <1>1, <1>2
<1>6. d[c] = 1 + d[m] /\ d[e] = 1 + d[m] /\ d[m] \in Nat /\ d[m] + 1 <= D
  <2>1. d[c] = 1 + d[m] /\ d[e] = 1 + d[m]
    BY <1>1, <1>4, <1>5, SMTT(30)
  <2>2. d[c] \in 0 .. N - c /\ d[m] \in 0 .. N - m
    BY <1>1, <1>3, <1>5
  <2> QED  BY <1>1, <1>5, <2>1, <2>2
<1>7. p = 2 * q /\ q \in Nat /\ p \in Nat
  <2> DEFINE k == D - d[m] - 1
  <2>1. k \in Nat /\ k + 1 = D - d[m]
    BY <1>6
  <2> HIDE DEF k
  <2>2. Pow2[k] \in Nat /\ Pow2[k + 1] = 2 * Pow2[k]
    BY <2>1, Pow2Next
  <2> QED  BY <2>1, <2>2 DEF k
<1>8. Pow2[D - d[c]] = q /\ Pow2[D - d[e]] = q
  <2>1. D - d[c] = D - d[m] - 1 /\ D - d[e] = D - d[m] - 1
    BY <1>6
  <2> QED  BY <2>1
<1> HIDE DEF p, q
<1>9. \A i \in 1 .. N : /\ new[i] \in Int /\ old[i] \in Int
                        /\ new[i] = IF i <= m - 1 /\ (parent[i] = 0 \/ parent[i] > m - 1)
                                    THEN Pow2[D - d[i]] ELSE 0
                        /\ old[i] = IF i <= m /\ (parent[i] = 0 \/ parent[i] > m)
                                    THEN Pow2[D - d[i]] ELSE 0
  <2> SUFFICES ASSUME NEW i \in 1 .. N
               PROVE  /\ new[i] \in Int /\ old[i] \in Int
                      /\ new[i] = IF i <= m - 1 /\ (parent[i] = 0 \/ parent[i] > m - 1)
                                  THEN Pow2[D - d[i]] ELSE 0
                      /\ old[i] = IF i <= m /\ (parent[i] = 0 \/ parent[i] > m)
                                  THEN Pow2[D - d[i]] ELSE 0
    OBVIOUS
  <2>1. D - d[i] \in Nat
    <3>1. d[i] \in 0 .. N - i
      BY <1>3
    <3> QED  BY <1>1, <3>1
  <2>2. Pow2[D - d[i]] \in Int
    <3> DEFINE k == D - d[i]
    <3> HIDE DEF k
    <3>1. Pow2[k] \in Nat
      BY <2>1, Pow2Next DEF k
    <3> QED  BY <3>1 DEF k
  <2> QED  BY <1>1, <2>2 DEF Frontier
<1> HIDE DEF new, old
<1> DEFINE atM == [i \in 1 .. N |-> IF i = m THEN p ELSE 0]
           atC == [i \in 1 .. N |-> IF i = c THEN q ELSE 0]
           atE == [i \in 1 .. N |-> IF i = e THEN q ELSE 0]
           children == [i \in 1 .. N |-> atC[i] + atE[i]]
           sum == [i \in 1 .. N |-> new[i] + atM[i]]
<1>10. ASSUME NEW i \in 1 .. N PROVE sum[i] = old[i] + children[i]
  <2>1. parent[i] \in Nat
    BY <1>1
  <2>2. CASE i = m
    <3>1. new[i] = 0 /\ old[i] = p
      <4>1. parent[m] = 0 \/ parent[m] > m
        <5>1. m = N \/ m \in 1 .. N - 1
          BY <1>1
        <5> QED  BY <1>1, <5>1
      <4>2. ~(m <= m - 1)
        BY <1>1
      <4> QED  BY <1>1, <1>9, <2>2, <4>1, <4>2 DEF p
    <3> QED  BY <1>5, <1>7, <2>2, <3>1
  <2>3. CASE i \in {c, e}
    <3>1. new[i] = q /\ old[i] = 0
      <4>1. parent[i] = m /\ i <= m - 1 /\ m # 0 /\ m > m - 1 /\ ~(m > m)
        BY <1>1, <1>5, <2>3
      <4> QED  BY <1>8, <1>9, <2>3, <4>1
    <3> QED  BY <1>2, <1>5, <1>7, <2>3, <3>1
  <2>4. CASE i # m /\ i \notin {c, e}
    <3>1. parent[i] # m
      BY <1>2, <2>4
    <3>2. new[i] = old[i]
      <4>1. i <= m - 1 <=> i <= m
        BY <1>1, <2>4
      <4>2. parent[i] > m - 1 <=> parent[i] > m
        BY <1>1, <2>1, <3>1
      <4> QED  BY <1>9, <4>1, <4>2
    <3> QED  BY <1>9, <2>4, <3>2
  <2> QED  BY <2>2, <2>3, <2>4
<1>11. Integral(N, new) /\ Integral(N, old)
  BY <1>9 DEF Integral
<1>12. Integral(N, atM) /\ Integral(N, atC) /\ Integral(N, atE) /\ Integral(N, children)
  BY <1>7 DEF Integral
<1>13. /\ \A i \in 1 .. N : atM[i] = IF i = m THEN p ELSE 0
       /\ \A i \in 1 .. N : atC[i] = IF i = c THEN q ELSE 0
       /\ \A i \in 1 .. N : atE[i] = IF i = e THEN q ELSE 0
       /\ \A i \in 1 .. N : children[i] = atC[i] + atE[i]
       /\ \A i \in 1 .. N : sum[i] = new[i] + atM[i]
  OBVIOUS
<1> HIDE DEF atM, atC, atE, children, sum
<1>14. Total(N, sum) = Total(N, new) + Total(N, atM)
  BY <1>1, <1>11, <1>12, <1>13, TotalSum
<1>15. Total(N, sum) = Total(N, old) + Total(N, children)
  BY <1>1, <1>10, <1>11, <1>12, TotalSum
<1>16. Total(N, children) = Total(N, atC) + Total(N, atE)
  BY <1>1, <1>12, <1>13, TotalSum
<1>17. Total(N, atM) = p
  <2>1. N \in Nat /\ p \in Int
    BY <1>1, <1>7
  <2>2. PICK at \in 1 .. N : at = m
    BY <1>1
  <2>3. \A i \in 1 .. N : atM[i] = IF i = at THEN p ELSE 0
    BY <1>13, <2>2
  <2> HIDE <2>2
  <2> QED  BY ONLY <2>1, <2>3, TotalSingle, at \in 1 .. N
<1>18. Total(N, atC) = q /\ Total(N, atE) = q
  <2>1. N \in Nat /\ c \in 1 .. N /\ e \in 1 .. N /\ q \in Int
    BY <1>1, <1>5, <1>7
  <2>2. \A i \in 1 .. N : atC[i] = IF i = c THEN q ELSE 0
    BY <1>13
  <2>3. \A i \in 1 .. N : atE[i] = IF i = e THEN q ELSE 0
    BY <1>13
  <2>4. Total(N, atC) = q
    BY ONLY <2>1, <2>2, TotalSingle
  <2>5. Total(N, atE) = q
    BY ONLY <2>1, <2>3, TotalSingle
  <2> QED  BY <2>4, <2>5
<1>19. Total(N, new) \in Int /\ Total(N, old) \in Int
  <2>1. N \in 0 .. N
    BY <1>1
  <2> QED  BY <1>1, <1>11, <2>1, TotalSteps
<1>20. Total(N, new) = Total(N, old)
  <2>1. Total(N, children) = q + q
    BY <1>16, <1>18
  <2>2. Total(N, new) + p = Total(N, old) + (q + q)
    BY <1>14, <1>15, <1>17, <2>1
  <2> DEFINE x == Total(N, new)
             y == Total(N, old)
  <2>3. x \in Int /\ y \in Int /\ p = q + q /\ p \in Int /\ q \in Int /\ x + p = y + (q + q)
    BY <1>7, <1>19, <2>2
  <2> HIDE DEF x, y
  <2>4. x = y
    BY ONLY <2>3
  <2> QED  BY <2>4 DEF x, y
<1> QED  BY <1>20 DEF N, new, old

\* The leaves of a tree: the sum of 2^-depth is 1.
LEMMA LeavesWeigh ==
    ASSUME NEW size \in Nat \ {0}, NEW parent, FullTree(size, parent), NEW d, Depths(parent, d),
           NEW D \in Nat, D >= 2 * size
    PROVE  Total(size, [i \in 1 .. size |-> Pow2[D - d[i]]]) = Pow2[D]
<1> DEFINE N == 2 * size - 1
           front(m) == Frontier(2 * size - 1, parent, d, D, m)
           leaves == [i \in 1 .. size |-> Pow2[D - d[i]]]
           T == {j \in Nat : j <= size - 1 => Total(N, front(N - j)) = Pow2[D]}
<1>1. /\ N \in Nat \ {0} /\ D >= N /\ size <= N
      /\ Len(parent) = N /\ parent[N] = 0 /\ \A i \in 1 .. N : parent[i] \in Nat
      /\ \A i \in 1 .. N - 1 : parent[i] \in i + 1 .. N /\ parent[i] > size
  <2>1. N - 1 = 2 * size - 2
    OBVIOUS
  <2>2. parent \in Seq(Nat)
    BY DEF FullTree
  <2>3. \A i \in 1 .. Len(parent) : parent[i] \in Nat
    BY <2>2, ElementOfSeq
  <2> QED  BY <2>1, <2>3 DEF FullTree
<1>2. \A i \in 1 .. N : Pow2[D - d[i]] \in Nat
  <2> SUFFICES ASSUME NEW i \in 1 .. N PROVE Pow2[D - d[i]] \in Nat
    OBVIOUS
  <2>1. d[i] \in 0 .. N - i
    BY DepthBound
  <2> DEFINE k == D - d[i]
  <2>2. k \in Nat
    BY <1>1, <2>1
  <2> HIDE DEF k
  <2>3. Pow2[k] \in Nat
    BY <2>2, Pow2Next
  <2> QED  BY <2>3 DEF k
<1>3. \A m \in 1 .. N : \A i \in 1 .. N :
          front(m)[i] = IF i <= m /\ (parent[i] = 0 \/ parent[i] > m) THEN Pow2[D - d[i]] ELSE 0
  BY DEF Frontier
<1> HIDE DEF front
<1>4. 0 \in T
  <2>1. N - 0 = N /\ N \in 1 .. N
    BY <1>1
  <2>2. d[N] = 0
    BY <1>1, <2>1 DEF Depths
  <2>3. ASSUME NEW i \in 1 .. N PROVE front(N)[i] = IF i = N THEN Pow2[D] ELSE 0
    <3>1. CASE i = N
      <4>1. D - d[i] = D
        BY <2>2, <3>1
      <4> QED  BY <1>1, <1>3, <2>1, <3>1, <4>1
    <3>2. CASE i # N
      <4>1. i \in 1 .. N - 1
        BY <1>1, <3>2
      <4>2. parent[i] # 0 /\ ~(parent[i] > N)
        <5>1. parent[i] \in i + 1 .. N
          BY <1>1, <4>1
        <5> QED  BY <1>1, <4>1, <5>1
      <4> QED  BY <1>3, <2>1, <3>2, <4>2
    <3> QED  BY <3>1, <3>2
  <2>4. Pow2[D] \in Int
    BY Pow2Next
  <2> HIDE DEF N
  <2>5. Total(N, front(N)) = Pow2[D]
    <3>1. N \in Nat /\ N \in 1 .. N
      BY <1>1
    <3>2. \A i \in 1 .. N : front(N)[i] = IF i = N THEN Pow2[D] ELSE 0
      BY <2>3
    <3> QED  BY ONLY <2>4, <3>1, <3>2, TotalSingle
  <2> QED  BY <2>1, <2>5
<1>5. ASSUME NEW j \in T PROVE j + 1 \in T
  <2> SUFFICES ASSUME j + 1 <= size - 1 PROVE Total(N, front(N - (j + 1))) = Pow2[D]
    OBVIOUS
  <2>1. j \in Nat /\ j <= size - 1 /\ N - j \in size + 1 .. 2 * size - 1 /\ N - (j + 1) = (N - j) - 1
    OBVIOUS
  <2>2. Total(N, front(N - j)) = Pow2[D]
    BY <2>1
  <2> DEFINE m == N - j
  <2> HIDE DEF m
  <2>3. Total(N, front(m - 1)) = Total(N, front(m))
    BY <2>1, FrontierStep DEF front, m
  <2> QED  BY <2>1, <2>2, <2>3 DEF m
<1>6. T = Nat
  <2>1. T \subseteq Nat
    OBVIOUS
  <2> HIDE DEF T
  <2> QED  BY <1>4, <1>5, <2>1, Induction
<1>7. Total(N, front(size)) = Pow2[D]
  <2>1. size - 1 \in Nat /\ N - (size - 1) = size
    OBVIOUS
  <2>2. size - 1 \in T
    <3> HIDE DEF T
    <3> QED  BY <1>6, <2>1
  <2>3. Total(N, front(N - (size - 1))) = Pow2[D]
    <3>1. size - 1 <= size - 1
      OBVIOUS
    <3> QED  BY <2>2, <3>1
  <2> QED  BY <2>1, <2>3
<1>8. ASSUME NEW i \in 1 .. N PROVE front(size)[i] = IF i <= size THEN Pow2[D - d[i]] ELSE 0
  <2>1. size \in 1 .. N
    BY <1>1
  <2>2. i \in 1 .. N - 1 => parent[i] > size
    BY <1>1
  <2>3. i = N => parent[i] = 0
    BY <1>1
  <2>4. i = N \/ i \in 1 .. N - 1
    BY <1>1
  <2> QED  BY <1>3, <2>1, <2>2, <2>3, <2>4
<1>9. Integral(N, front(size)) /\ \A i \in size + 1 .. N : front(size)[i] = 0
  <2>1. \A i \in size + 1 .. N : i \in 1 .. N /\ ~(i <= size)
    BY <1>1
  <2> HIDE DEF N
  <2> QED  BY <1>2, <1>8, <2>1 DEF Integral
<1>10. Total(N, front(size)) = Total(size, front(size))
  <2> HIDE DEF N
  <2> QED  BY <1>1, <1>9, TotalPadded
<1>11. \A i \in 1 .. size : leaves[i] = Pow2[D - d[i]] /\ i \in 1 .. N /\ i <= size
  BY <1>1
<1> HIDE DEF leaves, N
<1>12. Total(size, leaves) = Total(size, front(size))
  <2>1. \A i \in 1 .. size : leaves[i] = front(size)[i]
    BY <1>8, <1>11
  <2>2. Integral(size, front(size))
    BY <1>9, <1>11 DEF Integral
  <2> QED  BY <2>1, <2>2, TotalSame
<1> QED  BY <1>7, <1>10, <1>12 DEF leaves, N

\* The number of symbols.
LEMMA SetOfSymbols ==
    ASSUME NEW size \in Nat
    PROVE  Cardinality(0 .. size - 1) = size
<1>1. Cardinality(0 .. size - 1) = IF 0 > size - 1 THEN 0 ELSE (size - 1) - 0 + 1
  BY FS_Interval
<1> QED  BY <1>1

-----------------------------------------------------------------------------
(* The codes of makeCodeLengths use up all bit patterns.                   *)

LEMMA Pow2Sum ==
    ASSUME NEW a \in Nat, NEW b \in Nat
    PROVE  Pow2[a + b] = Pow2[a] * Pow2[b]
<1> DEFINE T == {k \in Nat : Pow2[a + k] = Pow2[a] * Pow2[k]}
<1>1. Pow2[a] \in Nat
  BY Pow2Next
<1>2. 0 \in T
  <2>1. a + 0 = a
    OBVIOUS
  <2>2. Pow2[a] * 1 = Pow2[a]
    BY <1>1
  <2> QED  BY <2>1, <2>2, Pow2Steps
<1>3. ASSUME NEW k \in T PROVE k + 1 \in T
  <2>1. k \in Nat /\ Pow2[a + k] = Pow2[a] * Pow2[k]
    OBVIOUS
  <2>2. Pow2[k] \in Nat /\ Pow2[k + 1] = 2 * Pow2[k]
    BY <2>1, Pow2Next
  <2>3. a + k \in Nat /\ a + (k + 1) = (a + k) + 1
    BY <2>1
  <2>4. Pow2[a + (k + 1)] = 2 * Pow2[a + k]
    BY <2>3, Pow2Next
  <2> DEFINE x == Pow2[a]
             y == Pow2[k]
  <2>5. 2 * (x * y) = x * (2 * y)
    <3> HIDE DEF x, y
    <3>1. ASSUME NEW u \in Nat, NEW w \in Nat PROVE 2 * (u * w) = u * (2 * w)
      OBVIOUS
    <3> QED  BY <1>1, <2>2, <3>1 DEF x, y
  <2> QED  BY <2>1, <2>2, <2>4, <2>5
<1>4. T = Nat
  <2>1. T \subseteq Nat
    OBVIOUS
  <2> HIDE DEF T
  <2> QED  BY <1>2, <1>3, <2>1, Induction
<1>5. b \in T
  BY <1>4
<1> QED  BY <1>5

LEMMA KraftIs ==
    ASSUME NEW size \in Nat, NEW longest \in Nat, NEW lens \in [0 .. size - 1 -> 0 .. longest]
    PROVE  LET g == [i \in 1 .. size |-> Pow2[longest - lens[i - 1]]]
           IN  (\A i \in 1 .. size : g[i] \in Nat) /\ Kraft(lens, longest) = Total(size, g)
<1> DEFINE g == [i \in 1 .. size |-> Pow2[longest - lens[i - 1]]]
           Is(f) == f = [k \in 0 .. Cardinality(DOMAIN lens) |->
                            IF k = 0 THEN 0 ELSE f[k - 1] + Pow2[longest - lens[k - 1]]]
           sum == CHOOSE f : Is(f)
<1>1. Cardinality(DOMAIN lens) = size
  BY SetOfSymbols
<1>2. ASSUME NEW i \in 1 .. size PROVE g[i] = Pow2[longest - lens[i - 1]] /\ g[i] \in Nat
  <2>1. i - 1 \in 0 .. size - 1
    OBVIOUS
  <2>2. lens[i - 1] \in 0 .. longest
    BY <2>1
  <2> DEFINE k == longest - lens[i - 1]
  <2>3. k \in Nat
    BY <2>2
  <2> HIDE DEF k
  <2>4. Pow2[k] \in Nat
    BY <2>3, Pow2Next
  <2> QED  BY <2>4 DEF k
<1>3. Integral(size, g)
  BY <1>2 DEF Integral
<1> HIDE DEF g
<1>4. PICK f \in [0 .. size -> Int] : SumsUp(size, g, f)
  BY <1>3, SumExists
<1>5. Is(f)
  <2>1. f = [k \in 0 .. size |-> f[k]]
    BY <1>4
  <2>2. ASSUME NEW k \in 0 .. size
        PROVE  f[k] = IF k = 0 THEN 0 ELSE f[k - 1] + Pow2[longest - lens[k - 1]]
    <3>1. k = 0 \/ k \in 1 .. size
      OBVIOUS
    <3> QED  BY <1>2, <1>4, <3>1 DEF SumsUp
  <2> QED  BY <1>1, <2>1, <2>2
<1>6. Is(sum)
  <2> HIDE DEF Is
  <2> QED  BY <1>5
<1>7. Kraft(lens, longest) = sum[size]
  BY <1>1 DEF Kraft
<1> HIDE DEF sum
<1>8. SumsUp(size, g, sum)
  <2>1. sum = [k \in 0 .. size |-> IF k = 0 THEN 0 ELSE sum[k - 1] + Pow2[longest - lens[k - 1]]]
    BY <1>1, <1>6
  <2>2. 0 \in 0 .. size /\ \A k \in 1 .. size : k \in 0 .. size /\ k # 0
    OBVIOUS
  <2> HIDE <1>6
  <2>3. sum[0] = 0
    BY <2>1, <2>2
  <2>4. ASSUME NEW k \in 1 .. size PROVE sum[k] = sum[k - 1] + g[k]
    <3>1. sum[k] = sum[k - 1] + Pow2[longest - lens[k - 1]]
      BY <2>1, <2>2
    <3> QED  BY <1>2, <3>1
  <2> QED  BY <2>3, <2>4 DEF SumsUp
<1>9. Total(size, g) = sum[size]
  BY <1>3, <1>8, TotalIs
<1> QED  BY <1>2, <1>7, <1>9 DEF g

LEMMA DepthOf ==
    ASSUME NEW size \in Nat \ {0}, NEW parent, FullTree(size, parent)
    PROVE  LET depth[k \in DOMAIN parent] ==
                   IF parent[k] = 0 THEN 0 ELSE 1 + depth[parent[k]]
           IN  Depths(parent, depth)
<1> DEFINE Is(f) == f = [k \in DOMAIN parent |-> IF parent[k] = 0 THEN 0 ELSE 1 + f[parent[k]]]
           depth == CHOOSE f : Is(f)
<1>1. DOMAIN parent = 1 .. Len(parent) /\ Len(parent) = 2 * size - 1
  BY DEF FullTree
<1>2. PICK d \in [1 .. 2 * size - 1 -> Nat] : Depths(parent, d)
  BY DepthExists
<1>3. Is(d)
  <2>1. d = [k \in DOMAIN parent |-> d[k]]
    BY <1>1, <1>2
  <2> QED  BY <1>1, <1>2, <2>1 DEF Depths
<1>4. Is(depth)
  <2> HIDE DEF Is
  <2> QED  BY <1>3
<1>5. Depths(parent, depth)
  <2> HIDE DEF depth
  <2>1. \A k \in DOMAIN parent : depth[k] = IF parent[k] = 0 THEN 0 ELSE 1 + depth[parent[k]]
    BY <1>4
  <2> QED  BY <1>1, <2>1 DEF Depths
<1> QED  BY <1>5

\* The lengths of a tree: every one is at least 1, and 2^-length sums to 1.
LEMMA LengthsComplete ==
    ASSUME NEW wt \in Seq(Nat), Len(wt) >= 2, MaxLen \in Nat,
           ~TooLong(CodeLengths(wt))
    PROVE  /\ CodeLengths(wt) \in [0 .. Len(wt) - 1 -> 1 .. MaxLen]
           /\ Kraft(CodeLengths(wt), MaxLen) = Pow2[MaxLen]
<1> DEFINE size == Len(wt)
           lens == CodeLengths(wt)
<1>1. PICK parent :
           /\ FullTree(size, parent)
           /\ lens = LET depth[k \in DOMAIN parent] ==
                             IF parent[k] = 0 THEN 0 ELSE 1 + depth[parent[k]]
                     IN  [v \in 0 .. size - 1 |-> depth[v + 1]]
  <2>1. Len(wt) # 0
    OBVIOUS
  <2> QED  BY ONLY wt \in Seq(Nat), <2>1, JoinedTree
<1>2. PICK d : Depths(parent, d) /\ lens = [v \in 0 .. size - 1 |-> d[v + 1]]
  <2>1. size \in Nat \ {0}
    OBVIOUS
  <2> HIDE DEF size, lens
  <2> DEFINE depth[k \in DOMAIN parent] == IF parent[k] = 0 THEN 0 ELSE 1 + depth[parent[k]]
  <2>2. Depths(parent, depth)
    BY <1>1, <2>1, DepthOf
  <2>3. lens = [v \in 0 .. size - 1 |-> depth[v + 1]]
    BY <1>1
  <2> HIDE DEF depth
  <2> QED  BY <2>2, <2>3
<1>3. size \in Nat /\ size >= 2
  OBVIOUS
<1>4. ~TooLong(lens)
  OBVIOUS
<1> HIDE DEF size, lens
<1>5. \A i \in 1 .. 2 * size - 1 : d[i] \in 0 .. 2 * size - 1 - i
  BY <1>1, <1>2, <1>3, DepthBound
<1>6. ASSUME NEW i \in 1 .. size PROVE d[i] \in 1 .. 2 * size /\ d[i] <= MaxLen /\ lens[i - 1] = d[i]
  <2>1. i \in 1 .. 2 * size - 2 /\ i \in 1 .. 2 * size - 1 /\ i - 1 \in 0 .. size - 1 /\ (i - 1) + 1 = i
    BY <1>3
  <2>2. parent[i] \in i + 1 .. 2 * size - 1 /\ Len(parent) = 2 * size - 1
    BY <1>1, <2>1 DEF FullTree
  <2>3. parent[i] # 0 /\ parent[i] \in 1 .. 2 * size - 1
    BY <1>3, <2>1, <2>2
  <2>4. d[i] = 1 + d[parent[i]]
    BY <1>2, <2>1, <2>2, <2>3 DEF Depths
  <2>5. d[parent[i]] \in Nat /\ d[i] \in 0 .. 2 * size - 1 - i
    BY <1>5, <2>1, <2>3
  <2>6. lens[i - 1] = d[i]
    BY <1>2, <2>1
  <2>7. d[i] <= MaxLen
    <3>1. i - 1 \in DOMAIN lens
      BY <1>2, <2>1
    <3>2. ~(lens[i - 1] > MaxLen)
      BY <1>4, <3>1 DEF TooLong
    <3> QED  BY <2>5, <2>6, <3>2
  <2>8. d[i] \in 1 .. 2 * size
    BY <1>3, <2>4, <2>5
  <2> QED  BY <2>6, <2>7, <2>8
<1>7. lens \in [0 .. size - 1 -> 1 .. MaxLen]
  <2>1. ASSUME NEW v \in 0 .. size - 1 PROVE d[v + 1] \in 1 .. MaxLen
    <3>1. v + 1 \in 1 .. size
      BY <1>3
    <3> QED  BY <1>6, <3>1
  <2> QED  BY <1>2, <2>1
<1> DEFINE D == 2 * size + MaxLen
           p == Pow2[2 * size]
           g == [i \in 1 .. size |-> Pow2[MaxLen - lens[i - 1]]]
           far == [i \in 1 .. size |-> Pow2[D - d[i]]]
<1>8. (\A i \in 1 .. size : g[i] \in Nat) /\ Kraft(lens, MaxLen) = Total(size, g)
  <2>1. lens \in [0 .. size - 1 -> 0 .. MaxLen]
    BY <1>7
  <2> QED  BY <1>3, <2>1, KraftIs
<1>9. Total(size, far) = Pow2[D]
  <2>1. D \in Nat /\ D >= 2 * size
    BY <1>3
  <2>2. size \in Nat \ {0}
    BY <1>3
  <2> HIDE DEF D
  <2> QED  BY <1>1, <1>2, <2>1, <2>2, LeavesWeigh
<1>10. Pow2[D] = p * Pow2[MaxLen]
  BY <1>3, Pow2Sum
<1>11. ASSUME NEW i \in 1 .. size PROVE far[i] = p * g[i]
  <2> DEFINE k == MaxLen - d[i]
  <2>1. k \in Nat /\ D - d[i] = 2 * size + k /\ MaxLen - lens[i - 1] = k
    BY <1>3, <1>6
  <2> HIDE DEF k, D
  <2>2. Pow2[2 * size + k] = p * Pow2[k]
    BY <1>3, <2>1, Pow2Sum
  <2> QED  BY <2>1, <2>2
<1>12. p \in Nat /\ p >= 1 /\ Pow2[MaxLen] \in Nat
  <2> DEFINE k == 2 * size
  <2>1. k \in Nat
    BY <1>3
  <2> HIDE DEF k
  <2>2. Pow2[k] \in Nat /\ Pow2[k] >= 1
    BY <2>1, Pow2Next
  <2> QED  BY <2>2, Pow2Next DEF k
<1>13. Total(size, far) = p * Total(size, g)
  <2>1. Integral(size, g)
    BY <1>8 DEF Integral
  <2>2. \A i \in 1 .. size : far[i] = p * g[i]
    BY <1>11
  <2>3. p \in Int
    BY <1>12
  <2> HIDE DEF far, g, p
  <2> QED  BY ONLY <1>3, <2>1, <2>2, <2>3, TotalTimes
<1>14. Total(size, g) \in Nat
  <2> HIDE DEF g
  <2> QED  BY <1>3, <1>8, TotalNat
<1>15. Total(size, g) = Pow2[MaxLen]
  <2>1. ASSUME NEW x \in Nat, NEW y \in Nat, NEW z \in Nat, z >= 1, z * x = z * y PROVE x = y
    BY <2>1
  <2>2. p * Total(size, g) = p * Pow2[MaxLen]
    BY <1>9, <1>10, <1>13
  <2> HIDE DEF p, g
  <2> QED  BY ONLY <1>12, <1>14, <2>1, <2>2
<1> QED  BY <1>7, <1>8, <1>15 DEF size, lens

\* What is given out of the numbers of length l, weighed with 2^-l, is what codes of up to
\* that length weigh.
LEMMA GivenOut ==
    ASSUME ReaderAssumption, MaxLen \in Nat, MaxLen <= Longest,
           NEW size \in Nat \ {0}, NEW lens \in [0 .. size - 1 -> 1 .. MaxLen],
           NEW l \in 0 .. MaxLen
    PROVE  (Vec(lens, l) + Cardinality(OfLength(lens, l))) * Pow2[MaxLen - l]
           = Total(size, [i \in 1 .. size |-> IF lens[i - 1] <= l THEN Pow2[MaxLen - lens[i - 1]]
                                                                  ELSE 0])
<1> DEFINE Of(k) == Cardinality(OfLength(lens, k))
           W(k) == Vec(lens, k) + Of(k)
           p(k) == Pow2[MaxLen - k]
           upTo(k) == [i \in 1 .. size |-> IF lens[i - 1] <= k THEN p(lens[i - 1]) ELSE 0]
           at(k) == [i \in 1 .. size |-> IF lens[i - 1] = k THEN p(k) ELSE 0]
           T == {k \in Nat : k <= MaxLen => W(k) * p(k) = Total(size, upTo(k))}
<1>1. lens \in [0 .. size - 1 -> 1 .. Longest]
  BY DEF ReaderAssumption
<1>2. ASSUME NEW k \in 0 .. MaxLen PROVE p(k) \in Nat
  <2> DEFINE e == MaxLen - k
  <2>1. e \in Nat
    OBVIOUS
  <2> HIDE DEF e
  <2>2. Pow2[e] \in Nat
    BY <2>1, Pow2Next
  <2> QED  BY <2>2 DEF e
<1>3. ASSUME NEW k \in Nat PROVE Of(k) \in Nat /\ OfLength(lens, k) \in SUBSET (0 .. size - 1)
  <2>1. OfLength(lens, k) \in SUBSET (0 .. size - 1)
    BY DEF OfLength
  <2> QED  BY <2>1, SymbolsFinite
<1>4. MinLength(lens) \in 1 .. Longest
  BY <1>1, LengthRange
<1>5. ASSUME NEW k \in Nat PROVE k < MinLength(lens) => OfLength(lens, k) = {}
  <2>1. ASSUME NEW v \in 0 .. size - 1 PROVE lens[v] >= MinLength(lens)
    <3>1. lens[v] \in MinLength(lens) .. MaxLength(lens)
      BY <1>1, SomeLength
    <3> QED  BY <1>4, <3>1
  <2>2. \A v \in 0 .. size - 1 : lens[v] \in Nat
    OBVIOUS
  <2> QED  BY <1>4, <2>1, <2>2 DEF OfLength
<1>6. ASSUME NEW i \in 1 .. size PROVE i - 1 \in 0 .. size - 1 /\ lens[i - 1] \in 1 .. MaxLen
  <2>1. i - 1 \in 0 .. size - 1
    OBVIOUS
  <2> QED  BY <2>1
<1>7. \A k \in Nat : Vec(lens, k) \in Nat
  BY <1>1, VecSteps
<1>8. ASSUME NEW k \in Nat PROVE Vec(lens, k + 1) = 2 * W(k)
  <2>1. k + 1 > MinLength(lens) => Vec(lens, k + 1) = 2 * W(k)
    BY <1>1, VecSteps
  <2>2. CASE k + 1 <= MinLength(lens)
    <3>1. Vec(lens, k + 1) = 0 /\ Vec(lens, k) = 0
      <4>1. k + 1 \in Nat /\ k <= MinLength(lens)
        BY <1>4, <2>2
      <4> QED  BY <1>1, <2>2, <4>1, VecSteps
    <3>2. Of(k) = 0
      <4>1. k < MinLength(lens)
        BY <1>4, <2>2
      <4> QED  BY <1>5, <4>1, FS_EmptySet
    <3> QED  BY <3>1, <3>2
  <2> QED  BY <1>4, <2>1, <2>2
<1>9. ASSUME NEW k \in 0 .. MaxLen PROVE Integral(size, upTo(k)) /\ Integral(size, at(k))
  <2>1. \A i \in 1 .. size : p(lens[i - 1]) \in Nat
    BY <1>2, <1>6
  <2>2. p(k) \in Nat
    BY <1>2
  <2> HIDE DEF p
  <2> QED  BY <2>1, <2>2 DEF Integral
<1>10. ASSUME NEW k \in 0 .. MaxLen PROVE Total(size, at(k)) = p(k) * Of(k)
  <2>1. ASSUME NEW i \in 1 .. size PROVE at(k)[i] = IF i - 1 \in OfLength(lens, k) THEN p(k) ELSE 0
    <3>1. i - 1 \in OfLength(lens, k) <=> lens[i - 1] = k
      BY <1>6 DEF OfLength
    <3> QED  BY <3>1
  <2>2. OfLength(lens, k) \in SUBSET (0 .. size - 1) /\ p(k) \in Int /\ size \in Nat
    <3>1. k \in Nat
      OBVIOUS
    <3>2. OfLength(lens, k) \in SUBSET (0 .. size - 1)
      BY <1>3, <3>1
    <3> HIDE DEF p
    <3>3. p(k) \in Nat
      BY <1>2
    <3> QED  BY <3>2, <3>3
  <2> HIDE DEF at, p
  <2> QED  BY <2>1, <2>2, TotalCount
<1>11. 0 \in T
  <2>1. OfLength(lens, 0) = {} /\ Vec(lens, 0) = 0
    BY <1>1, <1>4, <1>5, VecSteps
  <2>2. W(0) * p(0) = 0
    <3>1. W(0) = 0
      <4>1. Cardinality(OfLength(lens, 0)) = 0
        BY ONLY <2>1, FS_EmptySet
      <4> QED  BY <2>1, <4>1
    <3>2. p(0) \in Nat
      <4>1. 0 \in 0 .. MaxLen
        OBVIOUS
      <4> HIDE DEF p
      <4> QED  BY <1>2, <4>1
    <3> HIDE DEF W, p
    <3> QED  BY <3>1, <3>2
  <2>3. \A i \in 1 .. size : upTo(0)[i] = 0
    BY <1>6
  <2>4. Total(size, upTo(0)) = 0
    <3> HIDE DEF upTo
    <3> QED  BY <2>3, TotalZero
  <2> QED  BY <2>2, <2>4
<1>12. ASSUME NEW k \in T PROVE k + 1 \in T
  <2> HIDE DEF W, p, upTo, at, Of
  <2> SUFFICES ASSUME k + 1 <= MaxLen PROVE W(k + 1) * p(k + 1) = Total(size, upTo(k + 1))
    OBVIOUS
  <2>1. k \in Nat /\ k \in 0 .. MaxLen /\ k + 1 \in 0 .. MaxLen
    OBVIOUS
  <2>2. W(k) * p(k) = Total(size, upTo(k))
    BY <2>1
  <2>2a. p(k) \in Nat /\ p(k + 1) \in Nat
    BY <1>2, <2>1
  <2>3. p(k) = 2 * p(k + 1)
    <3> DEFINE e == MaxLen - (k + 1)
    <3>1. e \in Nat /\ MaxLen - k = e + 1
      BY <2>1
    <3> HIDE DEF e
    <3>2. Pow2[e + 1] = 2 * Pow2[e]
      BY <3>1, Pow2Next
    <3> QED  BY <3>1, <3>2 DEF e, p
  <2>4. ASSUME NEW i \in 1 .. size PROVE upTo(k + 1)[i] = upTo(k)[i] + at(k + 1)[i]
    <3>1. lens[i - 1] \in 1 .. MaxLen
      BY <1>6
    <3>2. lens[i - 1] \in 0 .. MaxLen
      BY <3>1
    <3>3. p(lens[i - 1]) \in Nat
      BY <1>2, <3>2
    <3> QED  BY <2>1, <2>2a, <3>1, <3>3 DEF upTo, at
  <2>5. Total(size, upTo(k + 1)) = Total(size, upTo(k)) + Total(size, at(k + 1))
    <3>1. Integral(size, upTo(k)) /\ Integral(size, at(k + 1)) /\ size \in Nat
      BY <1>9, <2>1
    <3> QED  BY <2>4, <3>1, TotalSum
  <2>6. Total(size, at(k + 1)) = p(k + 1) * Of(k + 1)
    BY <1>10, <2>1
  <2>7. W(k + 1) = 2 * W(k) + Of(k + 1)
    <3>1. Vec(lens, k + 1) = 2 * W(k)
      BY <1>8, <2>1
    <3> QED  BY <3>1 DEF W
  <2>8. W(k) \in Nat /\ Of(k + 1) \in Nat
    <3>1. k + 1 \in Nat
      BY <2>1
    <3>2. Of(k) \in Nat /\ Of(k + 1) \in Nat
      BY <1>3, <2>1, <3>1
    <3>3. Vec(lens, k) \in Nat
      BY <1>7, <2>1
    <3> QED  BY <3>2, <3>3 DEF W
  <2>9. ASSUME NEW w \in Nat, NEW o \in Nat, NEW q \in Nat
        PROVE  (2 * w + o) * q = w * (2 * q) + q * o
    OBVIOUS
  <2>10. (2 * W(k) + Of(k + 1)) * p(k + 1) = W(k) * (2 * p(k + 1)) + p(k + 1) * Of(k + 1)
    BY <2>2a, <2>8, <2>9
  <2> QED  BY <2>2, <2>3, <2>5, <2>6, <2>7, <2>10
<1>13. T = Nat
  <2>1. T \subseteq Nat
    OBVIOUS
  <2> HIDE DEF T
  <2> QED  BY <1>11, <1>12, <2>1, Induction
<1>14. l \in T
  <2> HIDE DEF T
  <2> QED  BY <1>13
<1> QED  BY <1>14

\* Codes that use up all bit patterns fit in their lengths.
LEMMA CodesFit ==
    ASSUME ReaderAssumption, MaxLen \in Nat, MaxLen <= Longest,
           NEW size \in Nat \ {0}, NEW lens \in [0 .. size - 1 -> 1 .. MaxLen],
           Kraft(lens, MaxLen) = Pow2[MaxLen], NEW l \in 0 .. MaxLen
    PROVE  Vec(lens, l) + Cardinality(OfLength(lens, l)) <= Pow2[l]
<1> DEFINE W == Vec(lens, l) + Cardinality(OfLength(lens, l))
           p == Pow2[MaxLen - l]
           all == [i \in 1 .. size |-> Pow2[MaxLen - lens[i - 1]]]
           some == [i \in 1 .. size |-> IF lens[i - 1] <= l THEN Pow2[MaxLen - lens[i - 1]] ELSE 0]
           rest == [i \in 1 .. size |-> IF lens[i - 1] <= l THEN 0 ELSE Pow2[MaxLen - lens[i - 1]]]
<1>1. (\A i \in 1 .. size : all[i] \in Nat) /\ Pow2[MaxLen] = Total(size, all)
  <2>1. lens \in [0 .. size - 1 -> 0 .. MaxLen]
    OBVIOUS
  <2> QED  BY <2>1, KraftIs
<1>2. W * p = Total(size, some)
  BY GivenOut
<1>3. \A i \in 1 .. size : /\ some[i] \in Nat /\ rest[i] \in Nat /\ all[i] = some[i] + rest[i]
  BY <1>1
<1>4. Total(size, all) = Total(size, some) + Total(size, rest)
  <2>1. Integral(size, some) /\ Integral(size, rest) /\ size \in Nat
    BY <1>3 DEF Integral
  <2> HIDE DEF all, some, rest
  <2> QED  BY <1>3, <2>1, TotalSum
<1>5. Total(size, some) \in Nat /\ Total(size, rest) \in Nat
  <2> HIDE DEF all, some, rest
  <2> QED  BY <1>3, TotalNat
<1>6. Pow2[MaxLen] = p * Pow2[l]
  <2> DEFINE e == MaxLen - l
  <2>1. e \in Nat /\ e + l = MaxLen /\ l \in Nat
    OBVIOUS
  <2> HIDE DEF e
  <2>2. Pow2[e + l] = Pow2[e] * Pow2[l]
    BY <2>1, Pow2Sum
  <2> QED  BY <2>1, <2>2 DEF e
<1>7. p \in Nat /\ p >= 1 /\ Pow2[l] \in Nat
  <2> DEFINE e == MaxLen - l
  <2>1. e \in Nat /\ l \in Nat
    OBVIOUS
  <2> HIDE DEF e
  <2>2. Pow2[e] \in Nat /\ Pow2[e] >= 1 /\ Pow2[l] \in Nat
    BY <2>1, Pow2Next
  <2> QED  BY <2>2 DEF e
<1>8. W \in Nat
  <2>1. lens \in [0 .. size - 1 -> 1 .. Longest]
    BY DEF ReaderAssumption
  <2>2. Vec(lens, l) \in Nat
    BY <2>1, VecSteps
  <2>3. OfLength(lens, l) \in SUBSET (0 .. size - 1)
    BY DEF OfLength
  <2>4. Cardinality(OfLength(lens, l)) \in Nat
    BY <2>3, SymbolsFinite
  <2> QED  BY <2>2, <2>4
<1>9. W * p <= p * Pow2[l]
  <2>1. Total(size, some) <= Total(size, all)
    <3> DEFINE a == Total(size, all)
               b == Total(size, some)
               c == Total(size, rest)
    <3>1. a = b + c /\ b \in Nat /\ c \in Nat
      BY <1>4, <1>5
    <3> HIDE DEF a, b, c
    <3>2. b <= a
      BY <3>1
    <3> QED  BY <3>2 DEF a, b
  <2> QED  BY <1>1, <1>2, <1>6, <2>1
<1>10. ASSUME NEW w \in Nat, NEW q \in Nat, NEW e \in Nat, q >= 1, w * q <= q * e PROVE w <= e
  <2>1. CASE w >= e + 1
    <3>1. w * q >= (e + 1) * q
      BY <2>1
    <3>2. (e + 1) * q = q * e + q
      OBVIOUS
    <3>3. w * q \in Nat /\ q * e \in Nat
      OBVIOUS
    <3> QED  BY <1>10, <3>1, <3>2, <3>3
  <2> QED  BY <2>1
<1> HIDE DEF W, p
<1>11. W <= Pow2[l]
  BY <1>7, <1>8, <1>9, <1>10
<1> QED  BY <1>11 DEF W

\* Numbers that make up the beginning of longer ones: all those are given out.
LEMMA GivenOutBefore ==
    ASSUME ReaderAssumption,
           NEW size \in Nat \ {0}, NEW lens \in [0 .. size - 1 -> 1 .. Longest],
           NEW l \in Nat, MinLength(lens) <= l, NEW e \in Nat
    PROVE  Vec(lens, l + (e + 1))
           >= Pow2[e + 1] * (Vec(lens, l) + Cardinality(OfLength(lens, l)))
<1> DEFINE Of(k) == Cardinality(OfLength(lens, k))
           w == Vec(lens, l) + Of(l)
           T == {k \in Nat : Vec(lens, l + (k + 1)) >= Pow2[k + 1] * w}
<1>1. ASSUME NEW k \in Nat PROVE Of(k) \in Nat /\ Vec(lens, k) \in Nat
  <2>1. OfLength(lens, k) \in SUBSET (0 .. size - 1)
    BY DEF OfLength
  <2> QED  BY <2>1, SymbolsFinite, VecSteps
<1>2. MinLength(lens) \in Nat
  BY LengthRange
<1>3. ASSUME NEW k \in Nat PROVE Vec(lens, (l + k) + 1) = 2 * (Vec(lens, l + k) + Of(l + k))
  <2>1. l + k \in Nat /\ (l + k) + 1 > MinLength(lens)
    BY <1>2
  <2> QED  BY <2>1, VecSteps
<1>4. w \in Nat
  <2>1. Of(l) \in Nat /\ Vec(lens, l) \in Nat
    BY <1>1
  <2> HIDE DEF Of
  <2> QED  BY <2>1
<1> HIDE DEF w
<1>5. 0 \in T
  <2>1. l + (0 + 1) = (l + 0) + 1 /\ l + 0 = l /\ 0 + 1 = 1
    OBVIOUS
  <2>2. Vec(lens, l + (0 + 1)) = 2 * w
    BY <1>3, <2>1 DEF w
  <2>3. Pow2[1] = 2
    <3>1. Pow2[0 + 1] = 2 * Pow2[0] /\ Pow2[0] = 1
      BY Pow2Next, Pow2Steps
    <3> QED  BY <3>1
  <2>4. Pow2[0 + 1] * w = 2 * w
    BY <2>1, <2>3
  <2>5. 2 * w >= 2 * w
    BY <1>4
  <2> QED  BY <2>2, <2>4, <2>5
<1>6. ASSUME NEW k \in T PROVE k + 1 \in T
  <2> DEFINE m == l + (k + 1)
             q == Pow2[k + 1]
  <2>1. k \in Nat /\ k + 1 \in Nat /\ m \in Nat /\ l + ((k + 1) + 1) = m + 1 /\ m = l + (k + 1)
    OBVIOUS
  <2>2. Vec(lens, m) >= q * w
    OBVIOUS
  <2>3. Vec(lens, m + 1) = 2 * (Vec(lens, m) + Of(m))
    BY <1>3, <2>1
  <2>4. Vec(lens, m) \in Nat /\ Of(m) \in Nat
    BY <1>1, <2>1
  <2>5. Pow2[(k + 1) + 1] = 2 * q /\ q \in Nat
    BY <2>1, Pow2Next
  <2>6. ASSUME NEW a \in Nat, NEW o \in Nat, NEW b \in Nat, NEW c \in Nat, a >= b * c
        PROVE  2 * (a + o) >= (2 * b) * c
    <3>1. (2 * b) * c = 2 * (b * c) /\ b * c \in Nat
      OBVIOUS
    <3> QED  BY <2>6, <3>1
  <2> HIDE DEF q, Of, m
  <2>7. 2 * (Vec(lens, m) + Of(m)) >= (2 * q) * w
    BY <1>4, <2>2, <2>4, <2>5, <2>6
  <2>8. Vec(lens, l + ((k + 1) + 1)) >= Pow2[(k + 1) + 1] * w
    BY <2>1, <2>3, <2>5, <2>7
  <2> QED  BY <2>1, <2>8
<1>7. T = Nat
  <2>1. T \subseteq Nat
    OBVIOUS
  <2> HIDE DEF T
  <2> QED  BY <1>5, <1>6, <2>1, Induction
<1>8. e \in T
  <2> HIDE DEF T
  <2> QED  BY <1>7
<1> QED  BY <1>8 DEF w

LEMMA QuotientAtLeast ==
    ASSUME NEW p \in Nat \ {0}, NEW x \in Nat, NEW w \in Nat, x >= p * w
    PROVE  x \div p >= w
OBVIOUS

\* No code is the beginning of another.
LEMMA NoBeginnings ==
    ASSUME ReaderAssumption,
           NEW size \in Nat \ {0}, NEW lens \in [0 .. size - 1 -> 1 .. Longest],
           NEW u \in 0 .. size - 1, NEW v \in 0 .. size - 1, u # v
    PROVE  ~IsPrefixOf(lens, AssignCodes(lens), u, v)
<1> DEFINE L == lens[u]
           K == lens[v]
           cu == AssignCodes(lens)[u]
           cv == AssignCodes(lens)[v]
           Of(k) == Cardinality(OfLength(lens, k))
<1> SUFFICES ASSUME L <= K, cv \div Pow2[K - L] = cu PROVE FALSE
  BY DEF IsPrefixOf
<1>1. L \in Nat /\ K \in Nat /\ MinLength(lens) <= L
  <2>1. L \in MinLength(lens) .. MaxLength(lens) /\ MinLength(lens) \in 1 .. Longest
    BY SomeLength, LengthRange
  <2>2. L \in 1 .. Longest /\ K \in 1 .. Longest
    OBVIOUS
  <2> QED  BY <2>1, <2>2
<1>2. PICK ru \in Nat : /\ ru < Of(L) /\ cu = Vec(lens, L) + ru
                        /\ Cardinality(Before(lens, u)) = Cardinality(Shorter(lens, L)) + ru
  BY CodeRange
<1>3. PICK rv \in Nat : /\ cv = Vec(lens, K) + rv
                        /\ Cardinality(Before(lens, v)) = Cardinality(Shorter(lens, K)) + rv
  BY CodeRange
<1>4. Vec(lens, L) \in Nat /\ Vec(lens, K) \in Nat /\ Of(L) \in Nat
  <2>1. OfLength(lens, L) \in SUBSET (0 .. size - 1)
    BY DEF OfLength
  <2> QED  BY <1>1, <2>1, SymbolsFinite, VecSteps
<1>5. CASE L = K
  <2>1. Pow2[K - L] = 1
    <3>1. K - L = 0
      BY <1>1, <1>5
    <3> QED  BY <3>1, Pow2Steps
  <2>2. cv \div 1 = cv
    BY <1>3, <1>4
  <2>3. cu = cv
    BY <2>1, <2>2
  <2> HIDE DEF Of
  <2>4. ru = rv
    BY <1>2, <1>3, <1>4, <1>5, <2>3
  <2>5. Cardinality(Before(lens, u)) = Cardinality(Before(lens, v))
    BY <1>2, <1>3, <1>5, <2>4
  <2>6. ByLength(lens)[Cardinality(Before(lens, u))] = u
    BY ByLengthPlace
  <2>7. ByLength(lens)[Cardinality(Before(lens, v))] = v
    BY ByLengthPlace
  <2> QED  BY <2>5, <2>6, <2>7
<1>6. CASE L < K
  <2> DEFINE e == K - L - 1
  <2>1. e \in Nat /\ L + (e + 1) = K /\ K - L = e + 1
    <3> HIDE DEF L, K
    <3> QED  BY <1>1, <1>6
  <2> HIDE DEF e
  <2>2. Vec(lens, L + (e + 1)) >= Pow2[e + 1] * (Vec(lens, L) + Of(L))
    BY <1>1, <2>1, GivenOutBefore
  <2>3. Pow2[e + 1] \in Nat /\ Pow2[e + 1] >= 1
    <3>1. e + 1 \in Nat
      BY <2>1
    <3> HIDE <2>1
    <3> DEFINE m == e + 1
    <3>2. m \in Nat
      BY <3>1
    <3> HIDE DEF m
    <3>3. Pow2[m] \in Nat /\ Pow2[m] >= 1
      BY <3>2, Pow2Next
    <3> QED  BY <3>3 DEF m
  <2> DEFINE p == Pow2[e + 1]
             w == Vec(lens, L) + Of(L)
  <2>4. cv >= p * w /\ cv \in Nat /\ w \in Nat /\ cu < w /\ cu \in Nat
    <3>1. w \in Nat /\ cu < w /\ cu \in Nat
      <4> HIDE DEF Of, cu
      <4> QED  BY <1>2, <1>4, SMTT(30)
    <3>2. cv \in Nat /\ cv >= Vec(lens, K)
      <4> HIDE DEF cv
      <4> QED  BY <1>3, <1>4
    <3>3. Vec(lens, K) >= p * w
      BY <2>1, <2>2
    <3>4. p * w \in Nat
      <4> HIDE DEF p, w
      <4>1. p \in Nat
        BY <2>3 DEF p
      <4> QED  BY <3>1, <4>1
    <3> HIDE DEF p, w, cu, cv
    <3> QED  BY <1>4, <3>1, <3>2, <3>3, <3>4
  <2>5. cv \div p >= w
    <3>1. p \in Nat \ {0}
      BY <2>3
    <3> HIDE DEF p, w, cv
    <3> QED  BY ONLY <2>4, <3>1, QuotientAtLeast
  <2>6. cv \div p = cu
    BY <2>1
  <2> HIDE DEF p, w, cu, cv
  <2> QED  BY <2>4, <2>5, <2>6
<1> QED  BY <1>1, <1>5, <1>6

\* The codes that makeCodeLengths comes to fit in their lengths, none is the beginning of
\* another and no bit pattern is left over: for all weights (huffman.go:31-140).
UsableCodes(lens) ==
    /\ \A v \in DOMAIN lens : lens[v] \in 1 .. MaxLen /\ AssignCodes(lens)[v] < Pow2[lens[v]]
    /\ \A u, v \in DOMAIN lens : u # v => ~IsPrefixOf(lens, AssignCodes(lens), u, v)
    /\ Kraft(lens, MaxLen) = Pow2[MaxLen]

LEMMA LengthsUsable ==
    ASSUME ReaderAssumption, MaxLen \in Nat, MaxLen <= Longest,
           NEW wt \in Seq(Nat), Len(wt) >= 2, ~TooLong(CodeLengths(wt))
    PROVE  /\ CodeLengths(wt) \in [0 .. Len(wt) - 1 -> 1 .. MaxLen]
           /\ UsableCodes(CodeLengths(wt))
<1> DEFINE size == Len(wt)
           lens == CodeLengths(wt)
<1>1. size \in Nat \ {0} /\ lens \in [0 .. size - 1 -> 1 .. MaxLen]
      /\ Kraft(lens, MaxLen) = Pow2[MaxLen]
  BY LengthsComplete
<1> HIDE DEF size, lens
<1>2. lens \in [0 .. size - 1 -> 1 .. Longest]
  BY <1>1 DEF ReaderAssumption
<1>3. ASSUME NEW v \in 0 .. size - 1
      PROVE  lens[v] \in 1 .. MaxLen /\ AssignCodes(lens)[v] < Pow2[lens[v]]
  <2> DEFINE L == lens[v]
             Of == Cardinality(OfLength(lens, L))
  <2>1. L \in 1 .. MaxLen /\ L \in 0 .. MaxLen /\ L \in Nat
    BY <1>1
  <2>2. PICK r \in Nat : r < Of /\ AssignCodes(lens)[v] = Vec(lens, L) + r
    BY <1>1, <1>2, CodeRange, ZenonT(60)
  <2>3. Vec(lens, L) \in Nat
    BY <1>1, <1>2, <2>1, VecSteps
  <2>4. Of \in Nat
    <3>1. OfLength(lens, L) \in SUBSET (0 .. size - 1)
      BY <1>1 DEF OfLength
    <3> QED  BY <1>1, <3>1, SymbolsFinite
  <2>5. Pow2[L] \in Nat
    BY <2>1, Pow2Next
  <2>6. Vec(lens, L) + Of <= Pow2[L]
    BY <1>1, <2>1, CodesFit
  <2> HIDE DEF L, Of
  <2>7. AssignCodes(lens)[v] < Pow2[L]
    BY <2>2, <2>3, <2>4, <2>5, <2>6
  <2> QED  BY <2>1, <2>7 DEF L
<1>4. \A u, v \in 0 .. size - 1 : u # v => ~IsPrefixOf(lens, AssignCodes(lens), u, v)
  BY <1>1, <1>2, NoBeginnings
<1>5. DOMAIN lens = 0 .. size - 1
  BY <1>1
<1>6. UsableCodes(lens)
  BY <1>1, <1>3, <1>4, <1>5 DEF UsableCodes
<1> QED  BY <1>1, <1>6 DEF size, lens

-----------------------------------------------------------------------------
(* Bits that are written.                                                  *)

Bit01 == {0, 1}

\* A number's bits: its halves, one after the other.
Halved(width, value, h) ==
    /\ h \in [0 .. width -> Nat] /\ h[0] = value
    /\ \A k \in 1 .. width : h[k] = h[k - 1] \div 2

LEMMA BitsWritten ==
    ASSUME NEW width \in Nat, NEW value \in Nat
    PROVE  \E h : Halved(width, value, h) /\ Bits(width, value) = [i \in 1 .. width |-> h[width - i] % 2]
<1> DEFINE F == [x \in Nat \X (1 .. width) |-> x[1] \div 2]
           Is(f) == f = [k \in 0 .. width |-> IF k = 0 THEN value ELSE f[k - 1] \div 2]
           shifted == CHOOSE f : Is(f)
<1>1. F \in [Nat \X (1 .. width) -> Nat]
  OBVIOUS
<1>2. PICK h \in [0 .. width -> Nat] :
           h[0] = value /\ \A k \in 1 .. width : h[k] = F[<< h[k - 1], k >>]
  <2> DEFINE St == Nat
  <2>1. F \in [St \X (1 .. width) -> St] /\ value \in St
    BY <1>1
  <2> HIDE DEF F, St
  <2>2. StepsTaken(width, St, value, F)
    BY <2>1, RecursionExists
  <2> QED  BY <2>2 DEF StepsTaken, St
<1>3. ASSUME NEW k \in 1 .. width PROVE h[k] = h[k - 1] \div 2
  <2>1. h[k - 1] \in Nat /\ h[k] = F[<< h[k - 1], k >>]
    <3>1. k - 1 \in 0 .. width
      OBVIOUS
    <3> HIDE DEF F
    <3> QED  BY <1>2, <3>1
  <2> QED  BY <2>1
<1>4. Is(h)
  <2>1. h = [k \in 0 .. width |-> h[k]]
    BY <1>2
  <2>2. \A k \in 0 .. width : k = 0 \/ k \in 1 .. width
    OBVIOUS
  <2> QED  BY <1>2, <1>3, <2>1, <2>2
<1>5. Is(shifted)
  <2> HIDE DEF Is
  <2> QED  BY <1>4
<1>6. Bits(width, value) = [i \in 1 .. width |-> shifted[width - i] % 2]
  BY DEF Bits
<1> HIDE DEF shifted
<1>7. \A k \in 0 .. width : shifted[k] = h[k]
  <2>1. shifted[0] = value /\ \A k \in 1 .. width : shifted[k] = shifted[k - 1] \div 2
    <3>1. 0 \in 0 .. width /\ \A k \in 1 .. width : k \in 0 .. width /\ k # 0
      OBVIOUS
    <3> QED  BY <1>5, <3>1
  <2>2. StepAlike(width, shifted, h)
    BY <1>2, <1>3, <2>1 DEF StepAlike
  <2> QED  BY <2>2, RecursionSame
<1>8. \A i \in 1 .. width : shifted[width - i] = h[width - i]
  <2>1. \A i \in 1 .. width : width - i \in 0 .. width
    OBVIOUS
  <2> QED  BY <1>7, <2>1
<1>9. Bits(width, value) = [i \in 1 .. width |-> h[width - i] % 2]
  BY <1>6, <1>8
<1>10. Halved(width, value, h)
  BY <1>2, <1>3 DEF Halved
<1> QED  BY <1>9, <1>10

LEMMA BitsType ==
    ASSUME NEW width \in Nat, NEW value \in Nat
    PROVE  Bits(width, value) \in Seq(Bit01) /\ Len(Bits(width, value)) = width
<1>1. PICK h : Halved(width, value, h) /\ Bits(width, value) = [i \in 1 .. width |-> h[width - i] % 2]
  BY BitsWritten
<1>2. ASSUME NEW i \in 1 .. width PROVE h[width - i] % 2 \in Bit01
  <2>1. width - i \in 0 .. width
    OBVIOUS
  <2>2. h[width - i] \in Nat
    BY <1>1, <2>1 DEF Halved
  <2>3. \A x \in Nat : x % 2 \in {0, 1}
    OBVIOUS
  <2> QED  BY <2>2, <2>3 DEF Bit01
<1>3. Bits(width, value) \in [1 .. width -> Bit01]
  BY <1>1, <1>2
<1> QED  BY <1>3, SeqFrom

LEMMA BitType ==
    ASSUME NEW b \in BOOLEAN
    PROVE  Bit(b) \in Seq(Bit01) /\ Len(Bit(b)) = 1 /\ Bit(b)[1] = IF b THEN 1 ELSE 0
BY DEF Bit, Bit01

\* Pieces put together.
LEMMA PiecesType ==
    ASSUME NEW S, NEW n \in Nat, NEW f, \A i \in 1 .. n : f[i] \in Seq(S), f = [i \in 1 .. n |-> f[i]]
    PROVE  f \in Seq(Seq(S)) /\ Len(f) = n /\ FlattenSeq(f) \in Seq(S)
<1> DEFINE T == Seq(S)
<1>1. f \in [1 .. n -> T]
  OBVIOUS
<1>2. f \in Seq(T) /\ Len(f) = n
  <2> HIDE DEF T
  <2> QED  BY <1>1, SeqFrom
<1> QED  BY <1>2, FlattenType

LEMMA ConcatType ==
    ASSUME NEW n \in Nat, NEW f, f = [i \in 1 .. n |-> f[i]], \A i \in 1 .. n : f[i] \in Seq(Bit01)
    PROVE  FlattenSeq(f) \in Seq(Bit01)
BY PiecesType

LEMMA TimesType ==
    ASSUME NEW bits \in Seq(Bit01), NEW k \in Nat
    PROVE  Times(bits, k) \in Seq(Bit01)
<1> DEFINE f == [i \in 1 .. k |-> bits]
<1>1. \A i \in 1 .. k : f[i] \in Seq(Bit01)
  OBVIOUS
<1>2. f = [i \in 1 .. k |-> f[i]]
  OBVIOUS
<1>3. FlattenSeq(f) \in Seq(Bit01)
  <2> HIDE DEF f
  <2> QED  BY <1>1, <1>2, ConcatType
<1> QED  BY <1>3 DEF Times

LEMMA Then ==
    ASSUME NEW S, NEW a \in Seq(S), NEW b \in Seq(S)
    PROVE  a \o b \in Seq(S) /\ Len(a \o b) = Len(a) + Len(b)
OBVIOUS

LEMMA AppendType ==
    ASSUME NEW S, NEW a \in Seq(S), NEW x \in S
    PROVE  Append(a, x) \in Seq(S) /\ Len(Append(a, x)) = Len(a) + 1
OBVIOUS

LEMMA MapType ==
    ASSUME RowLen \in Nat
    PROVE  MapBits \in Seq(Bit01)
<1> DEFINE rows == [i \in 1 .. RowLen |-> Bit(RowUsed(i - 1))]
           cols(r) == [i \in 1 .. RowLen |-> Bit(r * RowLen + (i - 1) \in inUse)]
           maps == [i \in 1 .. RowLen |-> IF RowUsed(i - 1) THEN FlattenSeq(cols(i - 1)) ELSE << >>]
<1>1. FlattenSeq(rows) \in Seq(Bit01)
  <2>1. \A i \in 1 .. RowLen : rows[i] \in Seq(Bit01)
    <3>1. \A i \in 1 .. RowLen : RowUsed(i - 1) \in BOOLEAN
      BY DEF RowUsed
    <3> QED  BY <3>1, BitType
  <2>2. rows = [i \in 1 .. RowLen |-> rows[i]]
    OBVIOUS
  <2> HIDE DEF rows
  <2> QED  BY <2>1, <2>2, ConcatType
<1>2. ASSUME NEW r PROVE FlattenSeq(cols(r)) \in Seq(Bit01)
  <2>1. \A i \in 1 .. RowLen : cols(r)[i] \in Seq(Bit01)
    <3>1. \A i \in 1 .. RowLen : (r * RowLen + (i - 1) \in inUse) \in BOOLEAN
      OBVIOUS
    <3> QED  BY <3>1, BitType
  <2>2. cols(r) = [i \in 1 .. RowLen |-> cols(r)[i]]
    OBVIOUS
  <2> HIDE DEF cols
  <2> QED  BY <2>1, <2>2, ConcatType
<1>3. FlattenSeq(maps) \in Seq(Bit01)
  <2>1. << >> \in Seq(Bit01)
    OBVIOUS
  <2> HIDE DEF cols
  <2>2. \A i \in 1 .. RowLen : maps[i] \in Seq(Bit01)
    BY <1>2, <2>1
  <2>3. maps = [i \in 1 .. RowLen |-> maps[i]]
    OBVIOUS
  <2> HIDE DEF maps
  <2> QED  BY <2>2, <2>3, ConcatType
<1>4. MapBits = FlattenSeq(rows) \o FlattenSeq(maps)
  BY DEF MapBits, Concat
<1> QED  BY <1>1, <1>3, <1>4, Then

-----------------------------------------------------------------------------
(* The encoder's steps.                                                    *)

LEMMA TablesNumber ==
    ASSUME NEW nMTF \in Nat
    PROVE  NumGroups(nMTF) \in 2 .. NGroups /\ NGroups \in 2 .. 7
<1> DEFINE S == {s \in GroupSteps : nMTF >= s}
<1>1. IsFiniteSet(GroupSteps) /\ NGroups = 2 + Cardinality(GroupSteps) /\ NGroups \in 2 .. 7
  BY EncoderAssumption, FormatAssumption DEF EncoderAssumption, FormatAssumption
<1>2. S \in SUBSET GroupSteps
  OBVIOUS
<1>3. IsFiniteSet(S) /\ Cardinality(S) <= Cardinality(GroupSteps)
  <2> HIDE DEF S
  <2> QED  BY <1>1, <1>2, FS_Subset
<1>4. Cardinality(S) \in Nat /\ Cardinality(GroupSteps) \in Nat
  BY <1>1, <1>3, FS_CardinalityType
<1>5. NumGroups(nMTF) = 2 + Cardinality(S)
  BY DEF NumGroups
<1> HIDE DEF S
<1> QED  BY <1>1, <1>3, <1>4, <1>5

LEMMA SumIs ==
    ASSUME NEW n \in Nat, NEW g, Integral(n, g), NEW sum,
           sum = [k \in 0 .. n |-> IF k = 0 THEN 0 ELSE sum[k - 1] + g[k]]
    PROVE  sum[n] = Total(n, g)
<1>1. 0 \in 0 .. n /\ \A k \in 1 .. n : k \in 0 .. n /\ k # 0
  OBVIOUS
<1>2. SumsUp(n, g, sum)
  BY <1>1 DEF SumsUp
<1> QED  BY <1>2, TotalIs

\* What a group costs with a table.
Prices(t, k) == [i \in 1 .. Len(Group(k)) |-> codeLens[t][Group(k)[i]]]

LEMMA CostIs ==
    ASSUME NEW t, NEW k, Len(Group(k)) \in Nat,
           \A i \in 1 .. Len(Group(k)) : codeLens[t][Group(k)[i]] \in Nat
    PROVE  Cost(t, k) \in Nat
<1> DEFINE n == Len(Group(k))
           g == Prices(t, k)
           Is(f) == f = [i \in 0 .. Len(Group(k)) |->
                            IF i = 0 THEN 0 ELSE f[i - 1] + codeLens[t][Group(k)[i]]]
           sum == CHOOSE f : Is(f)
<1>1. n \in Nat /\ \A i \in 1 .. n : g[i] = codeLens[t][Group(k)[i]] /\ g[i] \in Nat
  BY DEF Prices
<1>2. Integral(n, g)
  BY <1>1 DEF Integral
<1>3. Cost(t, k) = sum[n]
  BY DEF Cost
<1>4. PICK f \in [0 .. n -> Int] : SumsUp(n, g, f)
  <2> HIDE DEF n, g
  <2> QED  BY <1>1, <1>2, SumExists
<1>5. Is(f)
  <2>1. f = [i \in 0 .. n |-> f[i]]
    BY <1>4
  <2>2. ASSUME NEW i \in 0 .. n PROVE f[i] = IF i = 0 THEN 0 ELSE f[i - 1] + codeLens[t][Group(k)[i]]
    <3>1. i = 0 \/ i \in 1 .. n
      BY <1>1
    <3> HIDE DEF g
    <3> QED  BY <1>1, <1>4, <3>1 DEF SumsUp
  <2> QED  BY <2>1, <2>2
<1>6. Is(sum)
  <2> HIDE DEF Is
  <2> QED  BY <1>5
<1>7. sum = [i \in 0 .. n |-> IF i = 0 THEN 0 ELSE sum[i - 1] + g[i]]
  <2> HIDE DEF sum
  <2>1. sum = [i \in 0 .. n |-> IF i = 0 THEN 0 ELSE sum[i - 1] + codeLens[t][Group(k)[i]]]
    BY <1>6
  <2>2. ASSUME NEW i \in 0 .. n
        PROVE  (IF i = 0 THEN 0 ELSE sum[i - 1] + codeLens[t][Group(k)[i]])
               = (IF i = 0 THEN 0 ELSE sum[i - 1] + g[i])
    <3>1. i = 0 \/ i \in 1 .. n
      BY <1>1
    <3> HIDE DEF g
    <3> QED  BY <1>1, <3>1
  <2> HIDE DEF g, n
  <2> QED  BY <2>1, <2>2
<1> HIDE DEF sum, g, n
<1>8. sum[n] = Total(n, g)
  BY <1>1, <1>2, <1>7, SumIs
<1>9. Total(n, g) \in Nat
  BY <1>1, TotalNat
<1> QED  BY <1>3, <1>8, <1>9

LengthsAllowed == 0 .. 15 \cup 1 .. MaxLen

LEMMA GroupPart ==
    ASSUME NEW S, mtfv \in Seq(S), NEW k \in Nat \ {0}, GroupSize \in Nat \ {0}
    PROVE  /\ Len(Group(k)) \in Nat
           /\ \A i \in 1 .. Len(Group(k)) : Group(k)[i] \in S
<1> DEFINE a == (k - 1) * GroupSize + 1
           b == Min({k * GroupSize, Len(mtfv)})
<1>1. a \in Nat \ {0} /\ k * GroupSize \in Nat /\ Len(mtfv) \in Nat
  <2>1. (k - 1) * GroupSize \in Nat
    <3>1. \A x, y \in Nat : x * y \in Nat
      OBVIOUS
    <3>2. k - 1 \in Nat
      OBVIOUS
    <3> QED  BY <3>1, <3>2
  <2>2. \A x, y \in Nat : x * y \in Nat
    OBVIOUS
  <2> QED  BY <2>1, <2>2
<1>2. b \in Nat /\ b <= Len(mtfv)
  BY <1>1, MinOfTwo
<1>3. Group(k) = SubSeq(mtfv, a, b)
  BY DEF Group
<1> HIDE DEF a, b
<1>4. SubSeq(mtfv, a, b) \in Seq(S)
  BY <1>1, <1>2
<1>5. \A i \in 1 .. Len(SubSeq(mtfv, a, b)) : SubSeq(mtfv, a, b)[i] \in S
  BY <1>4, ElementOfSeq
<1> QED  BY <1>3, <1>4, <1>5

\* Among the tables there is a cheapest one.
LEMMA CheapestTable ==
    ASSUME NEW S, mtfv \in Seq(S), NEW k \in Nat \ {0},
           codeLens \in [Tables -> [S -> LengthsAllowed]]
    PROVE  Cheapest(k) \in Tables
<1> DEFINE costs == {Cost(t, k) : t \in Tables}
           best == {t \in Tables : \A u \in Tables : Cost(t, k) <= Cost(u, k)}
<1>1. Tables \in SUBSET Nat /\ Tables # {}
  <2>1. Len(mtfv) \in Nat
    OBVIOUS
  <2>2. NumGroups(Len(mtfv)) \in 2 .. NGroups /\ NGroups \in 2 .. 7
    BY <2>1, TablesNumber
  <2>3. 0 \in 0 .. NumGroups(Len(mtfv)) - 1
    BY <2>2
  <2> QED  BY <2>3 DEF Tables
<1>2. LengthsAllowed \in SUBSET Nat
  BY EncoderAssumption DEF LengthsAllowed, EncoderAssumption
<1>3. ASSUME NEW t \in Tables PROVE Cost(t, k) \in Nat
  <2>1. GroupSize \in Nat \ {0}
    BY FormatAssumption DEF FormatAssumption
  <2>2. Len(Group(k)) \in Nat /\ \A i \in 1 .. Len(Group(k)) : Group(k)[i] \in S
    BY <2>1, GroupPart
  <2>3. \A s \in S : codeLens[t][s] \in Nat
    BY <1>2
  <2> QED  BY <2>2, <2>3, CostIs
<1>4. costs \in SUBSET Nat /\ costs # {}
  BY <1>1, <1>3
<1>5. Min(costs) \in costs /\ \A y \in costs : Min(costs) <= y
  <2> HIDE DEF costs
  <2> QED  BY <1>4, MinIsLeast
<1>6. PICK t \in Tables : Min(costs) = Cost(t, k)
  BY <1>5
<1>7. t \in best
  <2>1. \A u \in Tables : Cost(u, k) \in costs
    OBVIOUS
  <2> HIDE DEF costs
  <2> QED  BY <1>5, <1>6, <2>1
<1>8. best \in SUBSET Nat /\ best # {} /\ best \in SUBSET Tables
  BY <1>1, <1>7
<1>9. Min(best) \in best
  <2> HIDE DEF best
  <2> QED  BY <1>8, MinIsLeast
<1>10. Cheapest(k) = Min(best)
  BY DEF Cheapest
<1> QED  BY <1>8, <1>9, <1>10

LEMMA QuotientType ==
    ASSUME NEW p \in Nat \ {0}, NEW x \in Nat
    PROVE  x \div p \in Nat /\ x % p \in 0 .. p - 1
OBVIOUS
LEMMA QuotientBelow ==
    ASSUME NEW p \in Nat \ {0}, NEW x \in Nat, NEW w \in Nat, x < w * p
    PROVE  x \div p < w
OBVIOUS
LEMMA QuotientPart ==
    ASSUME NEW p \in Nat \ {0}, NEW x \in Nat
    PROVE  p * (x \div p) <= x
OBVIOUS

LEMMA GroupsFew ==
    ASSUME Len(mtfv) \in 1 .. MaxBlock + 1
    PROVE  /\ (Len(mtfv) + GroupSize - 1) \div GroupSize \in 1 .. MaxSelectors
           /\ MaxSelectors \in Nat /\ MaxSelectors < Pow2[SelBits]
           /\ \A i \in 1 .. Len(mtfv) : (i - 1) \div GroupSize + 1 \in Groups
<1> DEFINE m == Len(mtfv)
<1>1. /\ GroupSize \in Nat \ {0} /\ MaxSelectors \in Nat \ {0} /\ MaxBlock \in Nat
      /\ MaxBlock < GroupSize * MaxSelectors /\ MaxSelectors < Pow2[SelBits]
  BY FormatAssumption, ReaderAssumption, RoundTripAssumption
     DEF FormatAssumption, ReaderAssumption, RoundTripAssumption
<1>2. ASSUME NEW g \in Nat \ {0}, NEW x \in Nat \ {0}, NEW y \in Nat, x <= g * y
      PROVE  (x + g - 1) \div g \in 1 .. y
  <2>1. x + g - 1 < (y + 1) * g
    <3>1. (y + 1) * g = g * y + g /\ g * y \in Nat
      OBVIOUS
    <3> QED  BY <1>2, <3>1
  <2>2. x + g - 1 >= g * 1
    OBVIOUS
  <2>3. x + g - 1 \in Nat
    OBVIOUS
  <2> DEFINE a == x + g - 1
  <2> HIDE DEF a
  <2>4. a \in Nat /\ a < (y + 1) * g /\ a >= g * 1 /\ y + 1 \in Nat /\ 1 \in Nat
    BY <2>1, <2>2, <2>3 DEF a
  <2>5. a \div g < y + 1
    BY <2>4, QuotientBelow
  <2>6. a \div g >= 1
    BY <2>4, QuotientAtLeast
  <2>7. a \div g \in Nat
    BY <2>4, QuotientType
  <2>8. a \div g \in 1 .. y
    BY <2>5, <2>6, <2>7
  <2> QED  BY <2>8 DEF a
<1>3. m \in Nat \ {0} /\ m <= GroupSize * MaxSelectors
  BY <1>1
<1> HIDE DEF m
<1>4. (m + GroupSize - 1) \div GroupSize \in 1 .. MaxSelectors
  BY <1>1, <1>2, <1>3
<1>5. ASSUME NEW i \in 1 .. m
      PROVE (i - 1) \div GroupSize + 1 \in 1 .. (m + GroupSize - 1) \div GroupSize
  <2> DEFINE q == (i - 1) \div GroupSize
             c == (m + GroupSize - 1) \div GroupSize
  <2>1. i - 1 \in Nat /\ m + GroupSize - 1 \in Nat
    BY <1>1, <1>3
  <2>2. q \in Nat /\ c \in Nat
    <3> HIDE <1>2, <1>4
    <3> DEFINE a == i - 1
               b == m + GroupSize - 1
    <3>1. a \in Nat /\ b \in Nat
      BY <2>1
    <3> HIDE DEF a, b
    <3>2. a \div GroupSize \in Nat /\ b \div GroupSize \in Nat
      BY ONLY <1>1, <3>1, QuotientType
    <3> QED  BY <3>2 DEF a, b
  <2>3. GroupSize * q <= i - 1
    <3> DEFINE a == i - 1
    <3>1. a \in Nat
      BY <2>1
    <3> HIDE DEF a
    <3>2. GroupSize * (a \div GroupSize) <= a
      BY ONLY <1>1, <3>1, QuotientPart
    <3> QED  BY <3>2 DEF a
  <2>4. c >= q + 1
    <3>1. GroupSize * (q + 1) = GroupSize * q + GroupSize
      <4>1. \A x, y \in Nat : x * (y + 1) = x * y + x
        OBVIOUS
      <4> HIDE DEF q
      <4> QED  BY <1>1, <2>2, <4>1
    <3>2. GroupSize * q \in Nat
      <4>1. \A x, y \in Nat : x * y \in Nat
        OBVIOUS
      <4> HIDE DEF q
      <4> QED  BY <1>1, <2>2, <4>1
    <3>3. m + GroupSize - 1 >= GroupSize * (q + 1)
      <4> HIDE DEF q
      <4> QED  BY <1>1, <1>3, <2>3, <3>1, <3>2
    <3> DEFINE b == m + GroupSize - 1
               w == q + 1
    <3>4. b \in Nat /\ w \in Nat /\ b >= GroupSize * w
      BY <2>1, <2>2, <3>3
    <3> HIDE DEF b, w
    <3>5. b \div GroupSize >= w
      BY ONLY <1>1, <3>4, QuotientAtLeast
    <3> QED  BY <3>5 DEF b, w
  <2> HIDE DEF q, c
  <2>5. q + 1 \in 1 .. c
    BY <2>2, <2>4
  <2> QED  BY <2>5 DEF q, c
<1> QED  BY <1>1, <1>4, <1>5 DEF m, Groups

Weights == {w \in Seq(Nat) : Len(w) = alphaSize}
UsableLengths == {lens \in [Symbols -> 1 .. MaxLen] : UsableCodes(lens)}
NumberOfGroups == (Len(mtfv) + GroupSize - 1) \div GroupSize
BlockBits ==
    Bits(PtrBits, OrigPtr) \o MapBits \o SelectorBits
    \o Concat(LAMBDA t : TableBits(codeLens[t]), Cardinality(Tables)) \o DataBits

\* A block is coded in rounds, beginning from the sorted block.
Rounds ==
    /\ coder \in {"sort", "select", "lengths", "write", "written"}
    /\ halvings \in Nat /\ iter \in 0 .. NIters
    /\ coder \in {"select", "lengths"} => iter < NIters
    /\ coder = "sort" => mtfv = << >> /\ selector = << >> /\ todo = {} /\ iter = 0
\* The symbols are those of the sorted block.
SymbolsKept ==
    coder # "sort" => /\ sorter = "sorted"
                      /\ mtfv = GenerateMTFValues(Fed, nInUse)
\* Every group has its table.
Chosen ==
    /\ selector \in Seq(Tables) /\ Len(selector) <= MaxSelectors
    /\ coder \in {"lengths", "write", "written"} => Len(selector) = NumberOfGroups
\* The tables that were made in this round can be used.
TablesUsable ==
    /\ todo \subseteq Tables
    /\ coder # "sort" => codeLens \in [Tables -> [Symbols -> LengthsAllowed]]
    /\ coder = "lengths" => weight \in [Tables -> Weights]
    /\ coder = "lengths" => \A t \in Tables \ todo : codeLens[t] \in UsableLengths
    /\ coder \in {"write", "written"} => \A t \in Tables : codeLens[t] \in UsableLengths
\* The block is written as these fields.
FieldsWritten ==
    /\ stream \in Seq(Bit01)
    /\ coder # "written" => stream = << >>
    /\ coder = "written" => stream = BlockBits

EncoderInv == SortKept /\ Rounds /\ SymbolsKept /\ Chosen /\ TablesUsable /\ FieldsWritten

-----------------------------------------------------------------------------
\* What stays while the sorted block does.
LEMMA SortedStays ==
    ASSUME UNCHANGED sortedVars
    PROVE  /\ nblock' = nblock /\ nInUse' = nInUse /\ alphaSize' = alphaSize /\ Symbols' = Symbols
           /\ Fed' = Fed /\ inUse' = inUse /\ OrigPtr' = OrigPtr /\ Weights' = Weights
           /\ UsableLengths' = UsableLengths /\ (SortKept => SortKept')
           /\ sorter' = sorter
<1>1. input' = input /\ block' = block /\ sorter' = sorter /\ ptr' = ptr
  BY DEF sortedVars
<1>2. nblock' = nblock /\ inUse' = inUse
  BY <1>1 DEF nblock, inUse
<1>3. nInUse' = nInUse /\ Positions' = Positions
  BY <1>2 DEF nInUse, Positions
<1>4. alphaSize' = alphaSize
  BY <1>3 DEF alphaSize
<1>5. Symbols' = Symbols /\ Weights' = Weights
  BY <1>4 DEF Symbols, Weights
<1>6. UsableLengths' = UsableLengths
  BY <1>5 DEF UsableLengths
<1>7. Fed' = Fed
  BY <1>1, <1>2 DEF Fed, unseqToSeq, Rotate
<1>8. OrigPtr' = OrigPtr
  BY <1>1, <1>3 DEF OrigPtr
<1>9. SortKept => SortKept'
  BY <1>1, <1>2, <1>3 DEF SortKept
<1> QED  BY <1>1, <1>2, <1>3, <1>4, <1>5, <1>6, <1>7, <1>8, <1>9

LEMMA SymbolsStay ==
    ASSUME mtfv' = mtfv
    PROVE  Tables' = Tables /\ Groups' = Groups /\ NumberOfGroups' = NumberOfGroups
BY DEF Tables, Groups, NumberOfGroups

\* The symbols of a sorted block.
LEMMA BlockSymbols ==
    ASSUME SortKept, sorter = "sorted"
    PROVE  /\ GenerateMTFValues(Fed, nInUse) \in Seq(Symbols)
           /\ Len(GenerateMTFValues(Fed, nInUse)) \in 1 .. nblock + 1
           /\ GenerateMTFValues(Fed, nInUse)[Len(GenerateMTFValues(Fed, nInUse))] = nInUse + 1
           /\ nblock \in 1 .. MaxBlock /\ MaxBlock \in Nat /\ nInUse \in 1 .. A
           /\ Symbols = 0 .. nInUse + 1 /\ alphaSize = nInUse + 2
           /\ Len(GenerateMTFValues(Fed, nInUse)) \in 1 .. MaxBlock + 1
<1>1. Fed \in Seq(0 .. nInUse - 1) /\ Len(Fed) = nblock
  BY FormatAssumption, ReaderAssumption, FedType
<1>2. nblock \in 1 .. MaxBlock /\ nInUse \in 1 .. A /\ A \in Nat
  BY FormatAssumption, ReaderAssumption, BlockSizes DEF SortKept
<1>3. MaxBlock \in Nat
  BY ReaderAssumption DEF ReaderAssumption
<1>4. nInUse \in Nat \ {0}
  BY <1>2
<1>5. Symbols = 0 .. nInUse + 1 /\ alphaSize = nInUse + 2
  BY <1>4 DEF Symbols, alphaSize
<1> DEFINE coded == GenerateMTFValues(Fed, nInUse)
<1>6. /\ coded \in Seq(0 .. nInUse + 1) /\ Len(coded) \in 1 .. nblock + 1
      /\ coded[Len(coded)] = nInUse + 1
  BY <1>1, <1>4, SymbolsMade
<1>7. Len(coded) \in 1 .. MaxBlock + 1
  <2> DEFINE c == Len(coded)
  <2>1. c \in 1 .. nblock + 1
    BY <1>6
  <2> HIDE DEF c
  <2>2. c \in 1 .. MaxBlock + 1
    BY <1>2, <1>3, <2>1
  <2> QED  BY <2>2 DEF c
<1> HIDE DEF coded
<1> QED  BY <1>2, <1>3, <1>5, <1>6, <1>7 DEF coded

LEMMA SymbolsStart ==
    ASSUME EncoderInv, MakeSymbols, UNCHANGED sortedVars
    PROVE  EncoderInv'
<1>1. /\ coder = "sort" /\ sorter = "sorted" /\ coder' = "select" /\ mtfv' = GenerateMTFValues(Fed, nInUse)
      /\ UNCHANGED << selector, weight, todo, halvings, iter, stream >>
  BY DEF MakeSymbols, Fed
<1>2. codeLens' \in [Tables' -> [Symbols -> LengthsAllowed]]
  <2>1. Tables' = 0 .. NumGroups(Len(mtfv')) - 1
    BY DEF Tables
  <2>2. PICK fav : codeLens' = [t \in 0 .. NumGroups(Len(mtfv')) - 1 |->
                                  [v \in Symbols |-> IF v \in fav[t + 1] THEN 0 ELSE 15]]
    BY <1>1 DEF MakeSymbols, Fed
  <2>3. 0 \in LengthsAllowed /\ 15 \in LengthsAllowed
    BY DEF LengthsAllowed
  <2> QED  BY <2>1, <2>2, <2>3
<1>3. /\ SortKept' /\ Symbols' = Symbols /\ Fed' = Fed /\ nInUse' = nInUse /\ sorter' = "sorted"
  BY <1>1, SortedStays DEF EncoderInv
<1>4. /\ mtfv = << >> /\ selector = << >> /\ todo = {} /\ iter = 0 /\ halvings \in Nat
      /\ stream \in Seq(Bit01) /\ stream = << >>
  BY <1>1 DEF EncoderInv, Rounds, FieldsWritten
<1>5. NIters \in Nat \ {0} /\ MaxSelectors \in Nat
  BY EncoderAssumption, FormatAssumption DEF EncoderAssumption, FormatAssumption
<1>6. Rounds'
  BY <1>1, <1>4, <1>5 DEF Rounds
<1>7. SymbolsKept'
  BY <1>1, <1>3 DEF SymbolsKept
<1>8. Chosen'
  <2>1. << >> \in Seq(Tables') /\ Len(<< >>) = 0
    OBVIOUS
  <2> QED  BY <1>1, <1>4, <1>5, <2>1 DEF Chosen
<1>9. TablesUsable'
  BY <1>1, <1>2, <1>3, <1>4 DEF TablesUsable
<1>10. FieldsWritten'
  BY <1>1, <1>4 DEF FieldsWritten
<1> QED  BY <1>3, <1>6, <1>7, <1>8, <1>9, <1>10 DEF EncoderInv

LEMMA InitialWeightsType ==
    ASSUME NEW n \in Nat, NEW freq \in [0 .. n - 1 -> Nat]
    PROVE  InitialWeights(freq) \in Seq(Nat) /\ Len(InitialWeights(freq)) = n
<1>1. Cardinality(DOMAIN freq) = n
  <2>1. Cardinality(0 .. n - 1) = IF 0 > n - 1 THEN 0 ELSE (n - 1) - 0 + 1
    BY FS_Interval
  <2> QED  BY <2>1
<1>2. ASSUME NEW i \in 1 .. n PROVE 256 * Max({freq[i - 1], 1}) \in Nat
  <2>1. i - 1 \in 0 .. n - 1
    OBVIOUS
  <2>2. freq[i - 1] \in Nat
    BY <2>1
  <2> DEFINE S == {freq[i - 1], 1}
             b == freq[i - 1] + 1
  <2>3. S \in SUBSET (0 .. b) /\ S # {} /\ b \in Nat
    BY <2>2
  <2> HIDE DEF S, b
  <2>4. Max(S) \in S
    BY <2>3, MaxIsGreatest
  <2>5. Max(S) \in Nat
    BY <2>2, <2>4 DEF S
  <2> QED  BY <2>5 DEF S
<1>3. InitialWeights(freq) \in [1 .. n -> Nat]
  BY <1>1, <1>2 DEF InitialWeights
<1> QED  BY <1>3, SeqFrom

LEMMA TablesSelected ==
    ASSUME EncoderInv, SelectTables, UNCHANGED sortedVars
    PROVE  EncoderInv'
<1>1. /\ coder = "select" /\ coder' = "lengths" /\ todo' = Tables
      /\ selector' = [k \in Groups |-> Cheapest(k)]
      /\ UNCHANGED << mtfv, codeLens, halvings, iter, stream >>
  BY DEF SelectTables
<1>2. /\ SortKept' /\ Symbols' = Symbols /\ Fed' = Fed /\ nInUse' = nInUse /\ sorter' = sorter
      /\ Weights' = Weights /\ UsableLengths' = UsableLengths
  BY SortedStays DEF EncoderInv
<1>3. Tables' = Tables /\ Groups' = Groups /\ NumberOfGroups' = NumberOfGroups
  BY <1>1, SymbolsStay
<1>4. /\ SortKept /\ sorter = "sorted" /\ mtfv = GenerateMTFValues(Fed, nInUse)
      /\ codeLens \in [Tables -> [Symbols -> LengthsAllowed]]
      /\ iter \in 0 .. NIters /\ iter < NIters /\ halvings \in Nat /\ stream = << >>
  BY <1>1 DEF EncoderInv, Rounds, SymbolsKept, TablesUsable, FieldsWritten
<1>5. mtfv \in Seq(Symbols) /\ Len(mtfv) \in 1 .. MaxBlock + 1
  BY <1>4, BlockSymbols
<1>6. NumberOfGroups \in 1 .. MaxSelectors /\ MaxSelectors \in Nat
      /\ \A i \in 1 .. Len(mtfv) : (i - 1) \div GroupSize + 1 \in Groups
  BY <1>5, GroupsFew DEF NumberOfGroups
<1>7. Groups = 1 .. NumberOfGroups
  BY DEF Groups, NumberOfGroups
<1>8. ASSUME NEW k \in Groups PROVE Cheapest(k) \in Tables
  <2>1. k \in Nat \ {0}
    BY <1>6, <1>7
  <2> QED  BY <1>4, <1>5, <2>1, CheapestTable
<1>9. selector' \in Seq(Tables) /\ Len(selector') = NumberOfGroups
  <2>1. selector' \in [1 .. NumberOfGroups -> Tables] /\ NumberOfGroups \in Nat
    BY <1>1, <1>6, <1>7, <1>8
  <2> HIDE <1>1
  <2> QED  BY <2>1, SeqFrom
<1>10. weight' \in [Tables -> Weights]
  <2> DEFINE used(t, v) == {i \in DOMAIN mtfv :
                              mtfv[i] = v /\ Cheapest((i - 1) \div GroupSize + 1) = t}
             freq(t) == [v \in Symbols |-> Cardinality(used(t, v))]
  <2>1. weight' = [t \in Tables |-> InitialWeights(freq(t))]
    BY DEF SelectTables
  <2>2. ASSUME NEW t \in Tables, NEW v PROVE Cardinality(used(t, v)) \in Nat
    <3>1. IsFiniteSet(1 .. Len(mtfv)) /\ DOMAIN mtfv = 1 .. Len(mtfv)
      BY <1>5, FS_Interval
    <3>2. used(t, v) \in SUBSET (1 .. Len(mtfv))
      BY <3>1
    <3> HIDE DEF used
    <3> QED  BY <3>1, <3>2, FS_Subset, FS_CardinalityType
  <2>3. ASSUME NEW t \in Tables PROVE InitialWeights(freq(t)) \in Weights
    <3>1. Symbols = 0 .. alphaSize - 1 /\ alphaSize \in Nat
      <4>1. alphaSize = nInUse + 2 /\ nInUse \in 1 .. A
        BY <1>4, BlockSymbols
      <4> QED  BY <4>1 DEF Symbols
    <3>2. freq(t) \in [0 .. alphaSize - 1 -> Nat]
      <4> HIDE DEF used
      <4> QED  BY <2>2, <3>1
    <3> HIDE DEF freq
    <3> QED  BY <3>1, <3>2, InitialWeightsType DEF Weights
  <2> HIDE DEF freq
  <2> QED  BY <2>1, <2>3
<1>11. Rounds'
  BY <1>1, <1>4 DEF Rounds
<1>12. SymbolsKept'
  BY <1>1, <1>2, <1>4 DEF SymbolsKept
<1>13. Chosen'
  <2>1. Len(selector') <= MaxSelectors
    BY <1>6, <1>9
  <2> QED  BY <1>3, <1>9, <2>1 DEF Chosen
<1>14. TablesUsable'
  BY <1>1, <1>2, <1>3, <1>4, <1>10 DEF TablesUsable
<1>15. FieldsWritten'
  BY <1>1, <1>4 DEF FieldsWritten, EncoderInv
<1> QED  BY <1>2, <1>11, <1>12, <1>13, <1>14, <1>15 DEF EncoderInv

LEMMA ScaleDownType ==
    ASSUME NEW w \in Seq(Nat)
    PROVE  ScaleDown(w) \in Seq(Nat) /\ Len(ScaleDown(w)) = Len(w)
<1>1. ASSUME NEW i \in 1 .. Len(w) PROVE 256 * (1 + (w[i] \div 256) \div 2) \in Nat
  <2>1. w[i] \in Nat
    BY ElementOfSeq
  <2>2. \A x \in Nat : 256 * (1 + (x \div 256) \div 2) \in Nat
    OBVIOUS
  <2> QED  BY <2>1, <2>2
<1>2. Len(w) \in Nat /\ DOMAIN w = 1 .. Len(w)
  OBVIOUS
<1>3. ScaleDown(w) \in [1 .. Len(w) -> Nat]
  BY <1>1, <1>2 DEF ScaleDown
<1> QED  BY <1>2, <1>3, SeqFrom

LEMMA TablesAre ==
    ASSUME mtfv \in Seq(Symbols)
    PROVE  /\ Tables \in SUBSET Nat /\ Tables = 0 .. Cardinality(Tables) - 1
           /\ Cardinality(Tables) = NumGroups(Len(mtfv)) /\ Cardinality(Tables) \in 2 .. NGroups
           /\ NGroups \in 2 .. 7
<1>1. Len(mtfv) \in Nat
  OBVIOUS
<1>2. NumGroups(Len(mtfv)) \in 2 .. NGroups /\ NGroups \in 2 .. 7
  BY <1>1, TablesNumber
<1> DEFINE n == NumGroups(Len(mtfv))
<1>3. Tables = 0 .. n - 1 /\ n \in Nat
  BY <1>2 DEF Tables
<1> HIDE DEF n
<1>4. Cardinality(0 .. n - 1) = n
  <2>1. Cardinality(0 .. n - 1) = IF 0 > n - 1 THEN 0 ELSE (n - 1) - 0 + 1
    BY <1>3, FS_Interval
  <2> QED  BY <1>3, <2>1
<1> QED  BY <1>2, <1>3, <1>4 DEF n

LEMMA LengthsStep ==
    ASSUME EncoderInv, MakeCodeLengths, UNCHANGED sortedVars
    PROVE  EncoderInv'
<1> DEFINE t == Min(todo)
           lens == CodeLengths(weight[t])
<1>1. /\ coder = "lengths" /\ todo # {} /\ coder' = "lengths"
      /\ UNCHANGED << coder, mtfv, selector, iter, stream >>
      /\ IF TooLong(lens)
         THEN /\ weight' = [weight EXCEPT ![t] = ScaleDown(@)]
              /\ halvings' = halvings + 1
              /\ UNCHANGED << codeLens, todo >>
         ELSE /\ codeLens' = [codeLens EXCEPT ![t] = lens]
              /\ todo' = todo \ {t}
              /\ halvings' = 0
              /\ UNCHANGED weight
  BY DEF MakeCodeLengths
<1>2. /\ SortKept' /\ Symbols' = Symbols /\ Fed' = Fed /\ nInUse' = nInUse /\ sorter' = sorter
      /\ Weights' = Weights /\ UsableLengths' = UsableLengths
  BY SortedStays DEF EncoderInv
<1>3. Tables' = Tables /\ Groups' = Groups /\ NumberOfGroups' = NumberOfGroups
  BY <1>1, SymbolsStay
<1>4. /\ SortKept /\ sorter = "sorted" /\ mtfv = GenerateMTFValues(Fed, nInUse)
      /\ todo \subseteq Tables
      /\ codeLens \in [Tables -> [Symbols -> LengthsAllowed]]
      /\ iter \in 0 .. NIters /\ iter < NIters /\ halvings \in Nat /\ stream = << >>
      /\ weight \in [Tables -> Weights]
      /\ \A u \in Tables \ todo : codeLens[u] \in UsableLengths
      /\ selector \in Seq(Tables) /\ Len(selector) <= MaxSelectors /\ Len(selector) = NumberOfGroups
  BY <1>1 DEF EncoderInv, Rounds, SymbolsKept, TablesUsable, FieldsWritten, Chosen
<1>5. mtfv \in Seq(Symbols) /\ Len(mtfv) \in 1 .. MaxBlock + 1 /\ Symbols = 0 .. alphaSize - 1
      /\ alphaSize \in Nat /\ alphaSize >= 2
  <2>1. alphaSize = nInUse + 2 /\ nInUse \in 1 .. A
    BY <1>4, BlockSymbols
  <2>2. mtfv \in Seq(Symbols) /\ Len(mtfv) \in 1 .. MaxBlock + 1
    BY <1>4, BlockSymbols
  <2> QED  BY <2>1, <2>2 DEF Symbols
<1>6. t \in todo /\ t \in Tables
  <2>1. todo \in SUBSET Nat
    BY <1>4, <1>5, TablesAre
  <2> QED  BY <1>1, <1>4, <2>1, MinIsLeast
<1>7. weight[t] \in Seq(Nat) /\ Len(weight[t]) = alphaSize
  <2> HIDE DEF t
  <2>1. weight[t] \in Weights
    BY <1>4, <1>6
  <2> QED  BY <2>1 DEF Weights
<1> HIDE DEF t
<1>8. Rounds'
  <2>1. halvings' \in Nat
    BY <1>1, <1>4
  <2> QED  BY <1>1, <1>4, <2>1 DEF Rounds
<1>9. SymbolsKept'
  BY <1>1, <1>2, <1>4 DEF SymbolsKept
<1>10. Chosen'
  BY <1>1, <1>3, <1>4 DEF Chosen
<1>11. FieldsWritten'
  BY <1>1, <1>4 DEF FieldsWritten, EncoderInv
<1>12. CASE TooLong(lens)
  <2>1. weight' = [weight EXCEPT ![t] = ScaleDown(@)] /\ UNCHANGED << codeLens, todo >>
    BY <1>1, <1>12
  <2>2. ScaleDown(weight[t]) \in Weights
    BY <1>7, ScaleDownType DEF Weights
  <2>3. weight' \in [Tables -> Weights]
    BY <1>4, <1>6, <2>1, <2>2
  <2>4. TablesUsable'
    BY <1>1, <1>2, <1>3, <1>4, <2>1, <2>3 DEF TablesUsable
  <2> QED  BY <1>2, <1>8, <1>9, <1>10, <1>11, <2>4 DEF EncoderInv
<1>13. CASE ~TooLong(lens)
  <2>1. codeLens' = [codeLens EXCEPT ![t] = lens] /\ todo' = todo \ {t} /\ UNCHANGED weight
    BY <1>1, <1>13
  <2>2. lens \in UsableLengths
    <3>1. MaxLen \in Nat \ {0} /\ MaxLen <= Longest
      BY EncoderAssumption, RoundTripAssumption DEF EncoderAssumption, RoundTripAssumption
    <3>2. /\ lens \in [0 .. Len(weight[t]) - 1 -> 1 .. MaxLen]
          /\ UsableCodes(lens)
      BY ReaderAssumption, <1>5, <1>7, <1>13, <3>1, LengthsUsable
    <3> HIDE DEF lens
    <3> QED  BY <1>5, <1>7, <3>2 DEF UsableLengths
  <2> HIDE DEF lens
  <2>3. lens \in [Symbols -> LengthsAllowed]
    BY <2>2 DEF UsableLengths, LengthsAllowed
  <2>4. codeLens' \in [Tables -> [Symbols -> LengthsAllowed]]
    BY <1>4, <1>6, <2>1, <2>3
  <2>5. \A u \in Tables \ todo' : codeLens'[u] \in UsableLengths
    BY <1>4, <1>6, <2>1, <2>2
  <2>6. todo' \subseteq Tables
    BY <1>4, <2>1
  <2>7. TablesUsable'
    BY <1>1, <1>2, <1>3, <1>4, <2>1, <2>4, <2>5, <2>6 DEF TablesUsable
  <2> QED  BY <1>2, <1>8, <1>9, <1>10, <1>11, <2>7 DEF EncoderInv
<1> QED  BY <1>12, <1>13

LEMMA IterateStep ==
    ASSUME EncoderInv, Iterate, UNCHANGED sortedVars
    PROVE  EncoderInv'
<1>1. /\ coder = "lengths" /\ todo = {} /\ iter' = iter + 1
      /\ coder' = IF iter' = NIters THEN "write" ELSE "select"
      /\ UNCHANGED << mtfv, codeLens, selector, weight, todo, halvings, stream >>
  BY DEF Iterate
<1>2. /\ SortKept' /\ Symbols' = Symbols /\ Fed' = Fed /\ nInUse' = nInUse /\ sorter' = sorter
      /\ Weights' = Weights /\ UsableLengths' = UsableLengths
  BY SortedStays DEF EncoderInv
<1>3. Tables' = Tables /\ Groups' = Groups /\ NumberOfGroups' = NumberOfGroups
  BY <1>1, SymbolsStay
<1>4. /\ iter \in 0 .. NIters /\ iter < NIters /\ NIters \in Nat
      /\ \A u \in Tables : codeLens[u] \in UsableLengths
  BY <1>1, EncoderAssumption DEF EncoderInv, Rounds, TablesUsable, EncoderAssumption
<1>5. iter' \in 0 .. NIters /\ coder' \in {"write", "select"} /\ (coder' = "select" => iter' < NIters)
  BY <1>1, <1>4
<1>6. Rounds'
  BY <1>1, <1>5 DEF Rounds, EncoderInv
<1>7. SymbolsKept'
  BY <1>1, <1>2, <1>5 DEF SymbolsKept, EncoderInv
<1>8. Chosen'
  BY <1>1, <1>3, <1>5 DEF Chosen, EncoderInv
<1>9. TablesUsable'
  BY <1>1, <1>2, <1>3, <1>4, <1>5 DEF TablesUsable, EncoderInv
<1>10. FieldsWritten'
  BY <1>1, <1>5 DEF FieldsWritten, EncoderInv
<1> QED  BY <1>2, <1>6, <1>7, <1>8, <1>9, <1>10 DEF EncoderInv

-----------------------------------------------------------------------------
(* The block as bits.                                                      *)

\* The block itself is one of its rotations.
LEMMA OrigPtrFound ==
    ASSUME SortKept, sorter = "sorted"
    PROVE  OrigPtr \in Positions /\ ptr[OrigPtr] = 0 /\ Positions = 0 .. nblock - 1
           /\ nblock \in 1 .. MaxBlock /\ OrigPtr \in Nat /\ OrigPtr < nblock
<1>1. nblock \in 1 .. MaxBlock
  BY FormatAssumption, ReaderAssumption, BlockSizes DEF SortKept
<1>2. {ptr[i] : i \in 0 .. nblock - 1} = 0 .. nblock - 1
  BY DEF SortKept, ListsRotations
<1>3. 0 \in 0 .. nblock - 1
  BY <1>1
<1>4. \E i \in Positions : ptr[i] = 0
  BY <1>2, <1>3 DEF Positions
<1>5. OrigPtr \in Positions /\ ptr[OrigPtr] = 0
  BY <1>4 DEF OrigPtr
<1> QED  BY <1>1, <1>5 DEF Positions

LEMMA SelectorsBits ==
    ASSUME mtfv \in Seq(Symbols), selector \in Seq(Tables)
    PROVE  SelectorBits \in Seq(Bit01)
<1> DEFINE positions == MTFEncode(selector, Cardinality(Tables))
           f == [i \in 1 .. Len(selector) |->
                    Append(Times(<< 1 >>, positions[i - 1 + 1]), 0)]
           size == Cardinality(Tables)
<1>1. size \in Nat \ {0} /\ Tables = 0 .. size - 1
  BY TablesAre
<1>2. positions \in Seq(0 .. size - 1) /\ Len(positions) = Len(selector)
  <2> HIDE DEF size
  <2>1. positions \in Seq(0 .. size - 1) /\ MTFDecode(positions, size) = selector
    BY <1>1, SelectorsDecode DEF size
  <2>2. Len(MTFDecode(positions, size)) = Len(positions)
    BY <1>1, <2>1, MTFDecodeType
  <2> QED  BY <2>1, <2>2
<1>3. ASSUME NEW i \in 1 .. Len(selector) PROVE f[i] \in Seq(Bit01)
  <2>1. i - 1 + 1 = i
    OBVIOUS
  <2>2. positions[i] \in 0 .. size - 1
    <3> HIDE DEF positions, size
    <3> QED  BY <1>2, ElementOfSeq
  <2>3. positions[i] \in Nat
    <3> HIDE DEF positions, size
    <3> QED  BY <1>1, <2>2
  <2>4. << 1 >> \in Seq(Bit01) /\ 0 \in Bit01
    BY DEF Bit01
  <2> HIDE DEF positions
  <2>5. Times(<< 1 >>, positions[i]) \in Seq(Bit01)
    BY <2>3, <2>4, TimesType
  <2> QED  BY <2>1, <2>4, <2>5, AppendType
<1>4. FlattenSeq(f) \in Seq(Bit01)
  <2>1. f = [i \in 1 .. Len(selector) |-> f[i]] /\ Len(selector) \in Nat
    OBVIOUS
  <2> HIDE DEF f
  <2> QED  BY <1>3, <2>1, ConcatType
<1>5. Bits(3, size) \in Seq(Bit01) /\ Bits(SelBits, Len(selector)) \in Seq(Bit01)
  <2>1. 3 \in Nat /\ SelBits \in Nat /\ Len(selector) \in Nat
    BY FormatAssumption DEF FormatAssumption
  <2> HIDE DEF size
  <2> QED  BY <1>1, <2>1, BitsType
<1>6. SelectorBits = Bits(3, size) \o Bits(SelBits, Len(selector)) \o FlattenSeq(f)
  BY DEF SelectorBits, Concat
<1> HIDE DEF f, size
<1>7. Bits(3, size) \o Bits(SelBits, Len(selector)) \in Seq(Bit01)
  BY <1>5, Then
<1> QED  BY <1>4, <1>6, <1>7, Then

LEMMA LengthBitsType ==
    ASSUME NEW from \in Nat, NEW to \in Nat
    PROVE  LengthBits(from, to) \in Seq(Bit01)
<1>1. << 1, 0 >> \in Seq(Bit01) /\ << 1, 1 >> \in Seq(Bit01) /\ 0 \in Bit01
  BY DEF Bit01
<1>2. CASE from < to
  <2>1. to - from \in Nat
    BY <1>2
  <2>2. Times(<< 1, 0 >>, to - from) \in Seq(Bit01)
    BY <1>1, <2>1, TimesType
  <2> QED  BY <1>1, <1>2, <2>2, AppendType DEF LengthBits
<1>3. CASE ~(from < to)
  <2>1. from - to \in Nat
    BY <1>3
  <2>2. Times(<< 1, 1 >>, from - to) \in Seq(Bit01)
    BY <1>1, <2>1, TimesType
  <2> QED  BY <1>1, <1>3, <2>2, AppendType DEF LengthBits
<1> QED  BY <1>2, <1>3

LEMMA TableBitsType ==
    ASSUME alphaSize \in Nat \ {0}, NEW lens \in [0 .. alphaSize - 1 -> Nat]
    PROVE  TableBits(lens) \in Seq(Bit01)
<1> DEFINE f == [i \in 1 .. alphaSize |->
                    LengthBits(lens[IF i - 1 = 0 THEN 0 ELSE i - 1 - 1], lens[i - 1])]
<1>1. ASSUME NEW i \in 1 .. alphaSize PROVE f[i] \in Seq(Bit01)
  <2>1. i - 1 \in 0 .. alphaSize - 1 /\ (IF i - 1 = 0 THEN 0 ELSE i - 1 - 1) \in 0 .. alphaSize - 1
    OBVIOUS
  <2>2. lens[i - 1] \in Nat /\ lens[IF i - 1 = 0 THEN 0 ELSE i - 1 - 1] \in Nat
    BY <2>1
  <2> QED  BY <2>2, LengthBitsType
<1>2. FlattenSeq(f) \in Seq(Bit01)
  <2>1. f = [i \in 1 .. alphaSize |-> f[i]] /\ alphaSize \in Nat
    OBVIOUS
  <2> HIDE DEF f
  <2> QED  BY <1>1, <2>1, ConcatType
<1>3. Bits(5, lens[0]) \in Seq(Bit01)
  <2>1. 0 \in 0 .. alphaSize - 1 /\ 5 \in Nat
    OBVIOUS
  <2>2. lens[0] \in Nat
    BY <2>1
  <2> QED  BY <2>1, <2>2, BitsType
<1>4. TableBits(lens) = Bits(5, lens[0]) \o FlattenSeq(f)
  BY DEF TableBits, Concat
<1> HIDE DEF f
<1> QED  BY <1>2, <1>3, <1>4, Then

\* The code of a symbol is a number of as many bits as its length says.
LEMMA CodeType ==
    ASSUME alphaSize \in Nat \ {0}, Symbols = 0 .. alphaSize - 1, NEW lens \in UsableLengths, NEW v \in Symbols
    PROVE  /\ lens[v] \in 1 .. MaxLen /\ lens[v] \in Nat /\ AssignCodes(lens)[v] \in Nat
           /\ AssignCodes(lens)[v] < Pow2[lens[v]]
           /\ lens \in [0 .. alphaSize - 1 -> 1 .. Longest]
<1>1. MaxLen \in Nat \ {0} /\ MaxLen <= Longest /\ Longest \in Nat
  BY EncoderAssumption, RoundTripAssumption, ReaderAssumption
     DEF EncoderAssumption, RoundTripAssumption, ReaderAssumption
<1>2. lens \in [0 .. alphaSize - 1 -> 1 .. MaxLen] /\ UsableCodes(lens)
  BY DEF UsableLengths
<1>3. lens \in [0 .. alphaSize - 1 -> 1 .. Longest]
  BY <1>1, <1>2
<1>4. lens[v] \in 1 .. MaxLen /\ AssignCodes(lens)[v] < Pow2[lens[v]]
  BY <1>2 DEF UsableCodes
<1>5. PICK r \in Nat : AssignCodes(lens)[v] = Vec(lens, lens[v]) + r
  BY ReaderAssumption, <1>3, CodeRange
<1>6. Vec(lens, lens[v]) \in Nat
  BY ReaderAssumption, <1>1, <1>3, <1>4, VecSteps
<1> QED  BY <1>1, <1>3, <1>4, <1>5, <1>6

\* The table with which symbol i is written.
TableOf(i) == selector[(i - 1) \div GroupSize + 1]

LEMMA TableOfType ==
    ASSUME mtfv \in Seq(Symbols), Len(mtfv) \in 1 .. MaxBlock + 1,
           selector \in Seq(Tables), Len(selector) = NumberOfGroups
    PROVE  \A i \in 1 .. Len(mtfv) :
               /\ TableOf(i) \in Tables
               /\ (i - 1) \div GroupSize + 1 \in 1 .. Len(selector)
               /\ mtfv[i] \in Symbols
<1> SUFFICES ASSUME NEW i \in 1 .. Len(mtfv)
             PROVE  /\ TableOf(i) \in Tables
                    /\ (i - 1) \div GroupSize + 1 \in 1 .. Len(selector)
                    /\ mtfv[i] \in Symbols
  OBVIOUS
<1>1. (i - 1) \div GroupSize + 1 \in Groups
  BY GroupsFew
<1>2. (i - 1) \div GroupSize + 1 \in 1 .. Len(selector)
  BY <1>1 DEF Groups, NumberOfGroups
<1>3. selector[(i - 1) \div GroupSize + 1] \in Tables
  <2> DEFINE j == (i - 1) \div GroupSize + 1
  <2>1. j \in 1 .. Len(selector)
    BY <1>2
  <2> HIDE DEF j
  <2>2. selector[j] \in Tables
    BY <2>1, ElementOfSeq
  <2> QED  BY <2>2 DEF j
<1>4. mtfv[i] \in Symbols
  BY ElementOfSeq
<1> QED  BY <1>2, <1>3, <1>4 DEF TableOf

\* A symbol's code.
CodeBits(i) == Bits(codeLens[TableOf(i)][mtfv[i]], AssignCodes(codeLens[TableOf(i)])[mtfv[i]])

LEMMA DataBitsAre ==
    ASSUME mtfv \in Seq(Symbols), Len(mtfv) \in 1 .. MaxBlock + 1,
           selector \in Seq(Tables), Len(selector) = NumberOfGroups
    PROVE  DataBits = FlattenSeq([i \in 1 .. Len(mtfv) |-> CodeBits(i)])
<1> DEFINE code == [t \in Tables |-> AssignCodes(codeLens[t])]
           table(i) == selector[i \div GroupSize + 1]
           f == [i \in 1 .. Len(mtfv) |->
                    Bits(codeLens[table(i - 1)][mtfv[i - 1 + 1]], code[table(i - 1)][mtfv[i - 1 + 1]])]
<1>1. DataBits = FlattenSeq(f)
  BY DEF DataBits, Concat
<1>2. ASSUME NEW i \in 1 .. Len(mtfv) PROVE f[i] = CodeBits(i)
  <2>1. i - 1 + 1 = i
    OBVIOUS
  <2>2. table(i - 1) = TableOf(i)
    BY DEF TableOf
  <2>3. TableOf(i) \in Tables
    BY TableOfType
  <2>4. code[TableOf(i)] = AssignCodes(codeLens[TableOf(i)])
    BY <2>3
  <2> HIDE DEF code, table
  <2> QED  BY <2>1, <2>2, <2>4 DEF CodeBits
<1>3. f = [i \in 1 .. Len(mtfv) |-> f[i]]
  OBVIOUS
<1> HIDE DEF f
<1>4. f = [i \in 1 .. Len(mtfv) |-> CodeBits(i)]
  BY <1>2, <1>3
<1> QED  BY <1>1, <1>4

\* What is written when the tables are made.
ReadyToWrite ==
    /\ SortKept /\ sorter = "sorted" /\ mtfv = GenerateMTFValues(Fed, nInUse)
    /\ selector \in Seq(Tables) /\ Len(selector) = NumberOfGroups
    /\ codeLens \in [Tables -> [Symbols -> LengthsAllowed]]
    /\ \A t \in Tables : codeLens[t] \in UsableLengths

LEMMA ReadySizes ==
    ASSUME ReadyToWrite
    PROVE  /\ mtfv \in Seq(Symbols) /\ Len(mtfv) \in 1 .. MaxBlock + 1 /\ Len(mtfv) \in Nat
           /\ alphaSize \in Nat \ {0} /\ alphaSize = nInUse + 2 /\ Symbols = 0 .. alphaSize - 1
           /\ nInUse \in 1 .. A
<1>1. alphaSize = nInUse + 2 /\ nInUse \in 1 .. A
  BY BlockSymbols DEF ReadyToWrite
<1>2. mtfv \in Seq(Symbols) /\ Len(mtfv) \in 1 .. MaxBlock + 1
  BY BlockSymbols DEF ReadyToWrite
<1> QED  BY <1>1, <1>2 DEF Symbols

LEMMA DataBitsType ==
    ASSUME ReadyToWrite
    PROVE  DataBits \in Seq(Bit01) /\ \A i \in 1 .. Len(mtfv) : CodeBits(i) \in Seq(Bit01)
<1>1. /\ mtfv \in Seq(Symbols) /\ Len(mtfv) \in 1 .. MaxBlock + 1 /\ Len(mtfv) \in Nat
      /\ alphaSize \in Nat \ {0} /\ Symbols = 0 .. alphaSize - 1
  BY ReadySizes
<1>2. ASSUME NEW i \in 1 .. Len(mtfv) PROVE CodeBits(i) \in Seq(Bit01)
  <2>1. TableOf(i) \in Tables /\ mtfv[i] \in Symbols
    BY <1>1, TableOfType DEF ReadyToWrite
  <2>2. codeLens[TableOf(i)] \in UsableLengths
    BY <2>1 DEF ReadyToWrite
  <2>3. codeLens[TableOf(i)][mtfv[i]] \in Nat /\ AssignCodes(codeLens[TableOf(i)])[mtfv[i]] \in Nat
    BY <1>1, <2>1, <2>2, CodeType
  <2> QED  BY <2>3, BitsType DEF CodeBits
<1>3. DataBits = FlattenSeq([i \in 1 .. Len(mtfv) |-> CodeBits(i)])
  BY <1>1, DataBitsAre DEF ReadyToWrite
<1> DEFINE f == [i \in 1 .. Len(mtfv) |-> CodeBits(i)]
<1>4. (\A i \in 1 .. Len(mtfv) : f[i] \in Seq(Bit01)) /\ f = [i \in 1 .. Len(mtfv) |-> f[i]]
  BY <1>2
<1> HIDE DEF f
<1>5. FlattenSeq(f) \in Seq(Bit01)
  BY <1>1, <1>4, ConcatType
<1> QED  BY <1>2, <1>3, <1>5 DEF f

\* The tables' lengths, one table after the other.
TablesBits == FlattenSeq([i \in 1 .. Cardinality(Tables) |-> TableBits(codeLens[i - 1])])

LEMMA TablesBitsType ==
    ASSUME ReadyToWrite
    PROVE  /\ TablesBits \in Seq(Bit01)
           /\ \A i \in 1 .. Cardinality(Tables) : TableBits(codeLens[i - 1]) \in Seq(Bit01)
<1>1. mtfv \in Seq(Symbols) /\ alphaSize \in Nat \ {0} /\ Symbols = 0 .. alphaSize - 1
  BY ReadySizes
<1> DEFINE size == Cardinality(Tables)
           f == [i \in 1 .. size |-> TableBits(codeLens[i - 1])]
<1>2. size \in Nat \ {0} /\ Tables = 0 .. size - 1
  BY <1>1, TablesAre
<1>3. ASSUME NEW i \in 1 .. size PROVE TableBits(codeLens[i - 1]) \in Seq(Bit01)
  <2> HIDE DEF size
  <2>1. i - 1 \in Tables
    BY <1>2
  <2>2. codeLens[i - 1] \in UsableLengths
    BY <2>1 DEF ReadyToWrite
  <2>3. codeLens[i - 1] \in [0 .. alphaSize - 1 -> Nat]
    <3>1. MaxLen \in Nat
      BY EncoderAssumption DEF EncoderAssumption
    <3> QED  BY <1>1, <2>2, <3>1 DEF UsableLengths
  <2> QED  BY <1>1, <2>3, TableBitsType
<1>4. (\A i \in 1 .. size : f[i] \in Seq(Bit01)) /\ f = [i \in 1 .. size |-> f[i]]
  BY <1>3
<1>5. FlattenSeq(f) \in Seq(Bit01)
  <2> HIDE DEF f, size
  <2> QED  BY <1>2, <1>4, ConcatType
<1> QED  BY <1>3, <1>5 DEF TablesBits

LEMMA BlockBitsType ==
    ASSUME ReadyToWrite
    PROVE  /\ BlockBits \in Seq(Bit01)
           /\ BlockBits = Bits(PtrBits, OrigPtr) \o MapBits \o SelectorBits \o TablesBits \o DataBits
<1>1. mtfv \in Seq(Symbols)
  BY ReadySizes
<1>2. Bits(PtrBits, OrigPtr) \in Seq(Bit01)
  <2>1. OrigPtr \in Nat
    BY OrigPtrFound DEF ReadyToWrite
  <2>2. PtrBits \in Nat
    BY FormatAssumption DEF FormatAssumption
  <2> QED  BY <2>1, <2>2, BitsType
<1>3. MapBits \in Seq(Bit01)
  <2>1. RowLen \in Nat
    BY FormatAssumption DEF FormatAssumption
  <2> QED  BY <2>1, MapType
<1>4. SelectorBits \in Seq(Bit01)
  BY <1>1, SelectorsBits DEF ReadyToWrite
<1>5. TablesBits \in Seq(Bit01) /\ DataBits \in Seq(Bit01)
  BY TablesBitsType, DataBitsType
<1>6. BlockBits = Bits(PtrBits, OrigPtr) \o MapBits \o SelectorBits \o TablesBits \o DataBits
  BY DEF BlockBits, TablesBits, Concat
<1>7. Bits(PtrBits, OrigPtr) \o MapBits \in Seq(Bit01)
  BY <1>2, <1>3, Then
<1>8. Bits(PtrBits, OrigPtr) \o MapBits \o SelectorBits \in Seq(Bit01)
  BY <1>4, <1>7, Then
<1>9. Bits(PtrBits, OrigPtr) \o MapBits \o SelectorBits \o TablesBits \in Seq(Bit01)
  BY <1>5, <1>8, Then
<1>10. Bits(PtrBits, OrigPtr) \o MapBits \o SelectorBits \o TablesBits \o DataBits \in Seq(Bit01)
  BY <1>5, <1>9, Then
<1> QED  BY <1>6, <1>10

LEMMA BlockWritten ==
    ASSUME EncoderInv, WriteBlockData, UNCHANGED sortedVars
    PROVE  EncoderInv'
<1>1. /\ coder = "write" /\ coder' = "written" /\ stream' = BlockBits
      /\ UNCHANGED << mtfv, codeLens, selector, weight, todo, halvings, iter >>
  BY DEF WriteBlockData, BlockBits
<1>2. /\ SortKept' /\ Symbols' = Symbols /\ Fed' = Fed /\ nInUse' = nInUse /\ sorter' = sorter
      /\ Weights' = Weights /\ UsableLengths' = UsableLengths /\ OrigPtr' = OrigPtr
      /\ inUse' = inUse /\ alphaSize' = alphaSize
  BY SortedStays DEF EncoderInv
<1>3. Tables' = Tables /\ Groups' = Groups /\ NumberOfGroups' = NumberOfGroups
  BY <1>1, SymbolsStay
<1>4. ReadyToWrite
  BY <1>1 DEF EncoderInv, ReadyToWrite, SymbolsKept, Chosen, TablesUsable
<1>5. BlockBits' = BlockBits
  <2>1. MapBits' = MapBits
    BY <1>2 DEF MapBits, Concat, RowUsed
  <2>2. SelectorBits' = SelectorBits
    BY <1>1, <1>3 DEF SelectorBits, Concat
  <2>3. DataBits' = DataBits
    BY <1>1, <1>3 DEF DataBits, Concat
  <2>4. TablesBits' = TablesBits
    BY <1>1, <1>2, <1>3 DEF TablesBits, TableBits, Concat
  <2>5. BlockBits = Bits(PtrBits, OrigPtr) \o MapBits \o SelectorBits \o TablesBits \o DataBits
    BY <1>4, BlockBitsType
  <2>6. BlockBits' = Bits(PtrBits, OrigPtr') \o MapBits' \o SelectorBits' \o TablesBits' \o DataBits'
    BY DEF BlockBits, TablesBits, Concat
  <2> QED  BY <1>2, <2>1, <2>2, <2>3, <2>4, <2>5, <2>6
<1>6. stream' \in Seq(Bit01)
  BY <1>1, <1>4, BlockBitsType
<1>7. Rounds'
  BY <1>1 DEF Rounds, EncoderInv
<1>8. SymbolsKept'
  BY <1>1, <1>2 DEF SymbolsKept, EncoderInv
<1>9. Chosen'
  BY <1>1, <1>3 DEF Chosen, EncoderInv
<1>10. TablesUsable'
  BY <1>1, <1>2, <1>3 DEF TablesUsable, EncoderInv
<1>11. FieldsWritten'
  BY <1>1, <1>5, <1>6 DEF FieldsWritten
<1> QED  BY <1>2, <1>7, <1>8, <1>9, <1>10, <1>11 DEF EncoderInv

-----------------------------------------------------------------------------
(* The block on its way.                                                   *)

SysInv ==
    /\ EncoderInv /\ IInv
    /\ sent \in BOOLEAN
    /\ ~sent => StateInit /\ arrived = << >>
    /\ sent => coder = "written"

LEMMA EncoderStarted ==
    ASSUME Init
    PROVE  SysInv
<1>1. /\ input \in Blocks(Bytes, MaxBlock) /\ block = input /\ sorter = "start" /\ EncoderInit
      /\ sent = FALSE /\ arrived = << >> /\ StateInit
  BY DEF Init, SortedInit, CodedInit
<1>2. SortKept
  BY <1>1 DEF SortKept
<1>3. NIters \in Nat \ {0} /\ MaxSelectors \in Nat
  BY EncoderAssumption, FormatAssumption DEF EncoderAssumption, FormatAssumption
<1>4. Rounds /\ SymbolsKept /\ TablesUsable
  BY <1>1, <1>3 DEF EncoderInit, Rounds, SymbolsKept, TablesUsable
<1>5. Chosen
  <2>1. << >> \in Seq(Tables) /\ Len(<< >>) = 0
    OBVIOUS
  <2> QED  BY <1>1, <1>3, <2>1 DEF EncoderInit, Chosen
<1>6. FieldsWritten
  <2>1. << >> \in Seq(Bit01)
    OBVIOUS
  <2> QED  BY <1>1, <2>1 DEF EncoderInit, FieldsWritten
<1>7. IInv
  <2>1. << >> \in Seq({0, 1})
    OBVIOUS
  <2> QED  BY <1>1, <2>1, FormatAssumption, ReaderAssumption, Started DEF ReaderInit
<1> QED  BY <1>1, <1>2, <1>4, <1>5, <1>6, <1>7 DEF SysInv, EncoderInv

LEMMA SortStepKeeps ==
    ASSUME EncoderInv, Sort, UNCHANGED coderVars
    PROVE  EncoderInv'
<1>1. /\ sorter = "start" /\ sorter' = "sorted" /\ UNCHANGED << input, block >>
      /\ ptr' \in [Positions -> Positions] /\ ListsRotations(ptr', input, nblock)
  BY DEF Sort
<1>2. coder = "sort"
  BY <1>1 DEF EncoderInv, SymbolsKept
<1>3. UNCHANGED << coder, mtfv, codeLens, selector, weight, todo, halvings, iter, stream >>
  BY DEF coderVars
<1>4. nblock' = nblock /\ Positions' = Positions
  BY <1>1 DEF nblock, Positions
<1>5. SortKept'
  BY <1>1, <1>4 DEF SortKept, EncoderInv
<1>6. Tables' = Tables
  BY <1>3 DEF Tables
<1>7. Rounds' /\ SymbolsKept' /\ Chosen' /\ TablesUsable' /\ FieldsWritten'
  BY <1>2, <1>3, <1>6 DEF EncoderInv, Rounds, SymbolsKept, Chosen, TablesUsable, FieldsWritten
<1> QED  BY <1>5, <1>7 DEF EncoderInv

LEMMA EncoderStepKeeps ==
    ASSUME EncoderInv, EncoderStep
    PROVE  EncoderInv'
<1>1. UNCHANGED sortedVars
  BY DEF EncoderStep
<1>2. CASE MakeSymbols
  BY <1>1, <1>2, SymbolsStart
<1>3. CASE SelectTables
  BY <1>1, <1>3, TablesSelected
<1>4. CASE MakeCodeLengths
  BY <1>1, <1>4, LengthsStep
<1>5. CASE Iterate
  BY <1>1, <1>5, IterateStep
<1>6. CASE WriteBlockData
  BY <1>1, <1>6, BlockWritten
<1> QED  BY <1>2, <1>3, <1>4, <1>5, <1>6 DEF EncoderStep

LEMMA EncoderRests ==
    ASSUME EncoderInv, UNCHANGED << sortedVars, coderVars >>
    PROVE  EncoderInv'
<1>1. UNCHANGED sortedVars
      /\ UNCHANGED << coder, mtfv, codeLens, selector, weight, todo, halvings, iter, stream >>
  BY DEF coderVars
<1>2. /\ SortKept' /\ Symbols' = Symbols /\ Fed' = Fed /\ nInUse' = nInUse /\ sorter' = sorter
      /\ Weights' = Weights /\ UsableLengths' = UsableLengths /\ OrigPtr' = OrigPtr
      /\ inUse' = inUse /\ alphaSize' = alphaSize
  BY <1>1, SortedStays DEF EncoderInv
<1>3. Tables' = Tables /\ Groups' = Groups /\ NumberOfGroups' = NumberOfGroups
  BY <1>1, SymbolsStay
<1>4. Rounds' /\ SymbolsKept' /\ Chosen' /\ TablesUsable'
  BY <1>1, <1>2, <1>3 DEF EncoderInv, Rounds, SymbolsKept, Chosen, TablesUsable
<1>5. BlockBits' = BlockBits
  <2>1. MapBits' = MapBits
    BY <1>2 DEF MapBits, Concat, RowUsed
  <2>2. SelectorBits' = SelectorBits
    BY <1>1, <1>3 DEF SelectorBits, Concat
  <2>3. DataBits' = DataBits
    BY <1>1, <1>3 DEF DataBits, Concat
  <2> QED  BY <1>1, <1>2, <1>3, <2>1, <2>2, <2>3 DEF BlockBits, TableBits, Concat
<1>6. FieldsWritten'
  BY <1>1, <1>5 DEF EncoderInv, FieldsWritten
<1> QED  BY <1>2, <1>4, <1>6 DEF EncoderInv

LEMMA DamageIsBits ==
    ASSUME NEW bits \in Seq(Bit01), NEW b \in Damaged(bits)
    PROVE  b \in Seq(Bit01)
<1>1. DOMAIN bits = 1 .. Len(bits) /\ Len(bits) \in Nat
  OBVIOUS
<1>2. \A i \in 1 .. Len(bits) : bits[i] \in Bit01 /\ 1 - bits[i] \in Bit01
  <2> SUFFICES ASSUME NEW i \in 1 .. Len(bits) PROVE bits[i] \in Bit01 /\ 1 - bits[i] \in Bit01
    OBVIOUS
  <2>1. bits[i] \in Bit01
    BY ElementOfSeq
  <2> QED  BY <2>1 DEF Bit01
<1>3. CASE \E i \in 1 .. Len(bits) : b = [bits EXCEPT ![i] = 1 - @]
  <2>1. PICK i \in 1 .. Len(bits) : b = [bits EXCEPT ![i] = 1 - bits[i]]
    BY <1>3
  <2>2. b \in [1 .. Len(bits) -> Bit01]
    <3>1. bits \in [1 .. Len(bits) -> Bit01]
      BY <1>1, <1>2
    <3> QED  BY <1>2, <2>1, <3>1
  <2> QED  BY <1>1, <2>2, SeqFrom
<1>4. CASE \E i \in 1 .. Len(bits) : b = SubSeq(bits, 1, i - 1)
  <2>1. PICK i \in 1 .. Len(bits) : b = SubSeq(bits, 1, i - 1)
    BY <1>4
  <2>2. i - 1 \in 0 .. Len(bits)
    OBVIOUS
  <2>3. SubSeq(bits, 1, i - 1) \in Seq(Bit01)
    BY <1>1, <2>2
  <2> QED  BY <2>1, <2>3
<1> QED  BY <1>1, <1>3, <1>4 DEF Damaged

LEMMA SysStep ==
    ASSUME SysInv, [Next]_vars
    PROVE  SysInv'
<1> USE FormatAssumption, ReaderAssumption
<1>1. CASE Sort /\ UNCHANGED codedVars
  <2>1. UNCHANGED << coderVars, sent, readerVars >>
    BY <1>1 DEF codedVars
  <2>2. EncoderInv'
    BY <1>1, <2>1, SortStepKeeps DEF SysInv
  <2>3. IInv'
    BY <2>1 DEF SysInv, readerVars, stateVars, IInv, ReaderTypeOK, NeverPanics, HeaderRead,
                TablesMade, GroupWithin
  <2> QED  BY <2>1, <2>2, <2>3 DEF SysInv, coderVars, readerVars, stateVars, StateInit
<1>2. CASE EncoderStep /\ UNCHANGED << sent, readerVars >>
  <2>1. EncoderInv'
    BY <1>2, EncoderStepKeeps DEF SysInv
  <2>2. IInv'
    BY <1>2 DEF SysInv, readerVars, stateVars, IInv, ReaderTypeOK, NeverPanics, HeaderRead,
                TablesMade, GroupWithin
  <2>3. ~sent
    <3>1. coder # "written"
      BY <1>2 DEF EncoderStep, MakeSymbols, SelectTables, MakeCodeLengths, Iterate, WriteBlockData
    <3> QED  BY <3>1 DEF SysInv
  <2> QED  BY <1>2, <2>1, <2>2, <2>3 DEF SysInv, readerVars, stateVars, StateInit
<1>3. CASE Transmit
  <2>1. /\ coder = "written" /\ ~sent /\ sent' = TRUE
        /\ UNCHANGED << sortedVars, coderVars, stateVars >>
        /\ arrived' = stream \/ arrived' \in Damaged(stream)
    BY <1>3 DEF Transmit
  <2>2. EncoderInv'
    BY <2>1, EncoderRests DEF SysInv
  <2>3. arrived' \in Seq({0, 1})
    <3>1. stream \in Seq(Bit01)
      BY DEF SysInv, EncoderInv, FieldsWritten
    <3> QED  BY <2>1, <3>1, DamageIsBits DEF Bit01
  <2>4. StateInit'
    BY <2>1 DEF SysInv, StateInit, stateVars
  <2>5. IInv'
    <3>1. IInv /\ StateInit
      BY <2>1 DEF SysInv
    <3> QED  BY <2>1, <2>3, <2>4, <3>1 DEF stateVars, StateInit, IInv, ReaderTypeOK, NeverPanics, HeaderRead,
                                     TablesMade, GroupWithin
  <2>6. coder' = "written"
    BY <2>1 DEF coderVars
  <2> QED  BY <2>1, <2>2, <2>5, <2>6 DEF SysInv
<1>4. CASE sent /\ ReaderStep /\ UNCHANGED << sortedVars, coderVars, sent >>
  <2>1. EncoderInv'
    BY <1>4, EncoderRests DEF SysInv
  <2>2. IInv
    BY DEF SysInv
  <2>3. IInv'
    BY <1>4, <2>2, HeaderStep, TableStep, SymbolStep, InverseStep DEF ReaderStep
  <2> QED  BY <1>4, <2>1, <2>3 DEF SysInv, coderVars
<1>5. CASE UNCHANGED vars
  <2>1. UNCHANGED << sortedVars, coderVars, sent, readerVars >>
    BY <1>5 DEF vars, codedVars
  <2>2. EncoderInv'
    BY <2>1, EncoderRests DEF SysInv
  <2>3. IInv'
    BY <2>1 DEF SysInv, readerVars, stateVars, IInv, ReaderTypeOK, NeverPanics, HeaderRead,
                TablesMade, GroupWithin
  <2> QED  BY <2>1, <2>2, <2>3 DEF SysInv, coderVars, readerVars, stateVars, StateInit
<1> QED  BY <1>1, <1>2, <1>3, <1>4, <1>5 DEF Next, CodedStep, Finished

\* From the sorted block to its last bit and through the reader, whatever the block,
\* the alphabet and the limits: the symbols are those of the block, every symbol
\* belongs to a group with a selector, every table has usable lengths whose codes were
\* given out, and readBlock is where it can be (writer.go:483-724, reader.go:183-465).
THEOREM Coding == Spec => []SysInv
<1>1. Init => SysInv
  BY EncoderStarted
<1>2. SysInv /\ [Next]_vars => SysInv'
  BY SysStep
<1> QED  BY <1>1, <1>2, PTL DEF Spec

\* The types of everything behind the sort: symbols, selectors, weights, lengths and
\* bits (writer.go:483-724) and the fields of readBlock.
THEOREM CodedTypeCorrect == Spec => []CodedTypeOK
<1>1. SysInv => CodedTypeOK
  <2> SUFFICES ASSUME SysInv PROVE CodedTypeOK
    OBVIOUS
  <2>1. ReaderTypeOK /\ sent \in BOOLEAN
    BY DEF SysInv, IInv
  <2>2. mtfv \in Seq(Symbols)
    <3>1. CASE coder = "sort"
      <4>1. mtfv = << >>
        BY <3>1 DEF SysInv, EncoderInv, Rounds
      <4> QED  BY <4>1
    <3>2. CASE coder # "sort"
      BY <3>2, BlockSymbols DEF SysInv, EncoderInv, SymbolsKept
    <3> QED  BY <3>1, <3>2
  <2>3. EncoderTypeOK
    BY <2>2 DEF SysInv, EncoderInv, Rounds, Chosen, TablesUsable, FieldsWritten, EncoderTypeOK,
                LengthsAllowed, Bit01
  <2> QED  BY <2>1, <2>3 DEF CodedTypeOK
<1> QED  BY <1>1, Coding, PTL

\* Whatever the symbols of a block and their frequencies, the codes written for a table
\* fit their lengths, none begins another and together they leave no bits without a
\* meaning (huffman.go:20-168).
THEOREM CodesAreUsable == Spec => []CodesUsable
<1>1. SysInv => CodesUsable
  <2> SUFFICES ASSUME SysInv, coder = "write", NEW t \in Tables
               PROVE  LET lens == codeLens[t]
                          code == AssignCodes(lens)
                      IN  /\ \A v \in Symbols : lens[v] \in 1 .. MaxLen /\ code[v] < Pow2[lens[v]]
                          /\ \A u, v \in Symbols : u # v => ~IsPrefixOf(lens, code, u, v)
                          /\ Kraft(lens, MaxLen) = Pow2[MaxLen]
    BY DEF CodesUsable
  <2> DEFINE lens == codeLens[t]
  <2>1. lens \in UsableLengths
    BY DEF SysInv, EncoderInv, TablesUsable
  <2> HIDE DEF lens
  <2>2. DOMAIN lens = Symbols /\ UsableCodes(lens)
    BY <2>1 DEF UsableLengths
  <2>3. /\ \A v \in Symbols : lens[v] \in 1 .. MaxLen /\ AssignCodes(lens)[v] < Pow2[lens[v]]
        /\ \A u, v \in Symbols : u # v => ~IsPrefixOf(lens, AssignCodes(lens), u, v)
        /\ Kraft(lens, MaxLen) = Pow2[MaxLen]
    BY <2>2 DEF UsableCodes
  <2> QED  BY <2>3 DEF lens
<1> QED  BY <1>1, Coding, PTL

\* No block outgrows what it is written to: its symbols fit mtfv, its selectors their
\* array and the field that counts them, and the pointer its own (writer.go:517,
\* writer.go:569-604, writer.go:684-685).
THEOREM RoomEnough == Spec => []ArraysLargeEnough
<1>1. SysInv => ArraysLargeEnough
  <2> SUFFICES ASSUME SysInv PROVE ArraysLargeEnough
    OBVIOUS
  <2>1. nblock \in 1 .. MaxBlock /\ MaxBlock \in Nat /\ MaxBlock <= Pow2[PtrBits]
        /\ MaxSelectors \in Nat /\ MaxSelectors < Pow2[SelBits]
    BY FormatAssumption, ReaderAssumption, RoundTripAssumption, BlockSizes
       DEF SysInv, EncoderInv, SortKept, ReaderAssumption, RoundTripAssumption, FormatAssumption
  <2>2. Len(mtfv) <= nblock + 1
    <3>1. CASE coder = "sort"
      <4>1. Len(mtfv) = 0
        BY <3>1 DEF SysInv, EncoderInv, Rounds
      <4> QED  BY <2>1, <4>1
    <3>2. CASE coder # "sort"
      <4>1. Len(mtfv) \in 1 .. nblock + 1
        BY <3>2, BlockSymbols DEF SysInv, EncoderInv, SymbolsKept
      <4> QED  BY <2>1, <4>1
    <3> QED  BY <3>1, <3>2
  <2>3. Len(selector) <= MaxSelectors /\ Len(selector) < Pow2[SelBits]
    <3>1. Len(selector) \in Nat /\ Len(selector) <= MaxSelectors
      BY DEF SysInv, EncoderInv, Chosen
    <3>2. Pow2[SelBits] \in Nat
      <4>1. SelBits \in Nat
        BY FormatAssumption DEF FormatAssumption
      <4> QED  BY <4>1, Pow2Next
    <3> QED  BY <2>1, <3>1, <3>2
  <2>4. sorter = "sorted" => OrigPtr < Pow2[PtrBits]
    <3> SUFFICES ASSUME sorter = "sorted" PROVE OrigPtr < Pow2[PtrBits]
      OBVIOUS
    <3>1. OrigPtr \in Nat /\ OrigPtr < nblock
      BY OrigPtrFound DEF SysInv, EncoderInv
    <3>2. Pow2[PtrBits] \in Nat
      <4>1. PtrBits \in Nat
        BY FormatAssumption DEF FormatAssumption
      <4> QED  BY <4>1, Pow2Next
    <3> QED  BY <2>1, <3>1, <3>2
  <2> QED  BY <2>2, <2>3, <2>4 DEF ArraysLargeEnough
<1> QED  BY <1>1, Coding, PTL

\* No block the encoder makes, whole or damaged on its way, makes readBlock use an index
\* that is out of range (reader.go:183-465).
THEOREM NoBlockPanics == Spec => []NeverPanics
<1>1. SysInv => NeverPanics
  BY DEF SysInv, IInv
<1> QED  BY <1>1, Coding, PTL

-----------------------------------------------------------------------------
(* The first tables share the symbols out.                                 *)

From(syms, g) == {i \in DOMAIN syms : syms[i] >= g}

\* The first g symbols are with one table each, the others with none, and the
\* occurrences of these are counted.
SharedOut(syms, s) ==
    /\ s.gs \in 0 .. alphaSize
    /\ s.remF = Cardinality(From(syms, s.gs))
    /\ s.favoured \in Seq(SUBSET Symbols)
    /\ \A v \in Symbols : v < s.gs =>
          \E i \in DOMAIN s.favoured :
             v \in s.favoured[i] /\ \A j \in DOMAIN s.favoured : v \in s.favoured[j] => j = i
    /\ \A v \in Symbols : \A i \in DOMAIN s.favoured : v \in s.favoured[i] => v < s.gs

\* What is not in gs .. last is still to be shared out.
LEMMA RestCounted ==
    ASSUME NEW size \in Nat, NEW syms \in Seq(0 .. size - 1),
           NEW g \in Nat, NEW last \in Int, last >= g - 1, last <= size - 1
    PROVE  Cardinality(From(syms, g)) - Cardinality({i \in DOMAIN syms : syms[i] \in g .. last})
           = Cardinality(From(syms, last + 1))
<1> DEFINE all == From(syms, g)
           now == {i \in DOMAIN syms : syms[i] \in g .. last}
           rest == From(syms, last + 1)
<1>1. IsFiniteSet(now) /\ IsFiniteSet(rest)
  <2>1. IsFiniteSet(1 .. Len(syms)) /\ DOMAIN syms = 1 .. Len(syms)
    <3>1. Len(syms) \in Nat /\ 1 \in Int
      OBVIOUS
    <3> QED  BY <3>1, FS_Interval
  <2>2. now \subseteq 1 .. Len(syms) /\ rest \subseteq 1 .. Len(syms)
    BY <2>1 DEF From
  <2> QED  BY <2>1, <2>2, FS_Subset
<1>2. \A i \in DOMAIN syms : syms[i] \in Nat
  OBVIOUS
<1>3. now \cup rest = all /\ now \cap rest = {}
  BY <1>2 DEF From
<1>4. Cardinality(now \cup rest) = Cardinality(now) + Cardinality(rest) - Cardinality(now \cap rest)
  BY <1>1, FS_Union
<1>5. Cardinality({}) = 0
  BY FS_EmptySet
<1>6. Cardinality(now) \in Nat /\ Cardinality(rest) \in Nat
  BY <1>1, FS_CardinalityType
<1> HIDE DEF all, now, rest
<1>7. Cardinality(all) = Cardinality(now) + Cardinality(rest)
  <2>1. Cardinality(now \cup rest) = Cardinality(all) /\ Cardinality(now \cap rest) = 0
    BY <1>3, <1>5
  <2> QED  BY <1>4, <1>6, <2>1
<1>8. Cardinality(all) - Cardinality(now) = Cardinality(rest)
  BY <1>6, <1>7
<1> QED  BY <1>8 DEF all, now, rest

\* The last symbol that is left gets a table, too: it occurs.
LEMMA LastShare ==
    ASSUME NEW size \in Nat, NEW syms \in Seq(0 .. size - 1),
           NEW g \in 0 .. size - 1, NEW ge \in Int, ge < size - 1,
           NEW e \in DOMAIN syms, syms[e] = size - 1
    PROVE  Cardinality({i \in DOMAIN syms : syms[i] \in g .. ge}) < Cardinality(From(syms, g))
<1> DEFINE all == From(syms, g)
           now == {i \in DOMAIN syms : syms[i] \in g .. ge}
<1>1. IsFiniteSet(all)
  <2>1. IsFiniteSet(1 .. Len(syms)) /\ DOMAIN syms = 1 .. Len(syms)
    <3>1. Len(syms) \in Nat /\ 1 \in Int
      OBVIOUS
    <3> QED  BY <3>1, FS_Interval
  <2>2. all \subseteq 1 .. Len(syms)
    BY <2>1 DEF From
  <2> QED  BY <2>1, <2>2, FS_Subset
<1>2. now \subseteq all
  BY DEF From
<1>3. e \in all /\ e \notin now
  BY DEF From
<1> HIDE DEF all, now
<1>4. Cardinality(now) <= Cardinality(all) /\ (Cardinality(now) = Cardinality(all) => now = all)
  BY <1>1, <1>2, FS_Subset
<1>5. IsFiniteSet(now)
  BY <1>1, <1>2, FS_Subset
<1>6. Cardinality(now) \in Nat /\ Cardinality(all) \in Nat /\ now # all
  BY <1>1, <1>3, <1>5, FS_CardinalityType
<1> QED  BY <1>4, <1>6 DEF all, now

\* A table's share goes from gs to a symbol before which it may be empty, and for the
\* last table to the end.
LEMMA ShareEnds ==
    ASSUME alphaSize \in Nat, Symbols = 0 .. alphaSize - 1, NEW syms \in Seq(Symbols), NEW numGroups \in Nat,
           NEW s, SharedOut(syms, s), Len(s.favoured) < numGroups,
           NEW e \in DOMAIN syms, syms[e] = alphaSize - 1
    PROVE  \E last \in s.gs - 1 .. alphaSize - 1 :
              /\ Favour(syms, numGroups, s) =
                    [gs |-> last + 1,
                     remF |-> s.remF - Cardinality({i \in DOMAIN syms : syms[i] \in s.gs .. last}),
                     favoured |-> << s.gs .. last >> \o s.favoured]
              /\ Len(s.favoured) = numGroups - 1 => last = alphaSize - 1
<1> DEFINE nPart == numGroups - Len(s.favoured)
           share == s.remF \div nPart
           upTo(g) == Cardinality({i \in DOMAIN syms : syms[i] \in s.gs .. g})
           ends == {g \in s.gs - 1 .. alphaSize - 1 : upTo(g) >= share \/ g = alphaSize - 1}
           ge == Min(ends)
           back == /\ ge > s.gs /\ nPart \notin {1, numGroups}
                   /\ (numGroups - nPart) % 2 = 1
           last == IF back THEN ge - 1 ELSE ge
<1>1. s.gs \in 0 .. alphaSize /\ s.gs \in Nat /\ Len(s.favoured) \in Nat
  BY DEF SharedOut
<1>2. ends \in SUBSET Int /\ ends # {} /\ \A x \in ends : x >= s.gs - 1
  <2>1. alphaSize - 1 \in s.gs - 1 .. alphaSize - 1
    BY <1>1
  <2>2. alphaSize - 1 \in ends
    BY <2>1
  <2>3. ends \subseteq s.gs - 1 .. alphaSize - 1
    OBVIOUS
  <2> HIDE DEF ends
  <2>4. s.gs - 1 \in Int /\ alphaSize - 1 \in Int
    BY <1>1
  <2>5. \A x \in ends : x \in Int /\ x >= s.gs - 1
    <3>1. \A x \in s.gs - 1 .. alphaSize - 1 : x \in Int /\ x >= s.gs - 1
      BY <2>4
    <3> QED  BY <2>3, <3>1
  <2> QED  BY <2>2, <2>5
<1>3. ge \in ends /\ \A y \in ends : ge <= y
  <2> HIDE DEF ends
  <2>1. s.gs - 1 \in Int
    BY <1>1
  <2> QED  BY <1>2, <2>1, MinFrom
<1>4. ge \in s.gs - 1 .. alphaSize - 1 /\ (upTo(ge) >= share \/ ge = alphaSize - 1)
  BY <1>3
<1>5. ASSUME Len(s.favoured) = numGroups - 1
      PROVE  last = alphaSize - 1
  <2>1. nPart = 1 /\ ~back
    BY <1>1, <1>5
  <2>2. CASE s.gs = alphaSize
    <3>1. last = ge
      BY <2>1
    <3>2. ge \in s.gs - 1 .. alphaSize - 1
      BY <1>4
    <3> HIDE DEF ge, last
    <3>3. ge = alphaSize - 1
      BY <2>2, <3>2
    <3> QED  BY <3>1, <3>3
  <2>3. CASE s.gs # alphaSize
    <3>1. s.gs \in 0 .. alphaSize - 1
      BY <1>1, <2>3
    <3>2. s.remF \in Nat /\ s.remF = Cardinality(From(syms, s.gs))
      <4>1. IsFiniteSet(From(syms, s.gs))
        <5>1. IsFiniteSet(1 .. Len(syms)) /\ DOMAIN syms = 1 .. Len(syms)
          <6>1. Len(syms) \in Nat /\ 1 \in Int
            OBVIOUS
          <6> QED  BY <6>1, FS_Interval
        <5>2. From(syms, s.gs) \subseteq 1 .. Len(syms)
          BY <5>1 DEF From
        <5> QED  BY <5>1, <5>2, FS_Subset
      <4> QED  BY <4>1, FS_CardinalityType DEF SharedOut
    <3>3. share = s.remF
      <4>1. \A x \in Nat : x \div 1 = x
        OBVIOUS
      <4> QED  BY <2>1, <3>2, <4>1
    <3>4. ge < alphaSize - 1 => upTo(ge) < s.remF
      <4> HIDE DEF ge
      <4> QED  BY <1>4, <3>1, <3>2, LastShare
    <3>5. upTo(ge) \in Nat
      <4>1. {i \in DOMAIN syms : syms[i] \in s.gs .. ge} \subseteq 1 .. Len(syms)
        OBVIOUS
      <4>2. IsFiniteSet(1 .. Len(syms))
        <5>1. Len(syms) \in Nat /\ 1 \in Int
          OBVIOUS
        <5> QED  BY <5>1, FS_Interval
      <4> QED  BY <4>1, <4>2, FS_Subset, FS_CardinalityType
    <3> HIDE DEF ge, upTo, share
    <3>6. ge = alphaSize - 1
      BY <1>1, <1>4, <3>2, <3>3, <3>4, <3>5
    <3> QED  BY <2>1, <3>6
  <2> QED  BY <2>2, <2>3
<1>6. last \in s.gs - 1 .. alphaSize - 1
  <2> HIDE DEF ge, upTo, share, nPart
  <2> QED  BY <1>1, <1>4
<1>7. Favour(syms, numGroups, s) =
         [gs |-> last + 1,
          remF |-> s.remF - Cardinality({i \in DOMAIN syms : syms[i] \in s.gs .. last}),
          favoured |-> << s.gs .. last >> \o s.favoured]
  BY DEF Favour
<1> HIDE DEF last
<1> QED  BY <1>5, <1>6, <1>7

\* A share more.
LEMMA FavourShares ==
    ASSUME alphaSize \in Nat, Symbols = 0 .. alphaSize - 1, NEW syms \in Seq(Symbols), NEW numGroups \in Nat,
           NEW s, SharedOut(syms, s), Len(s.favoured) < numGroups,
           NEW e \in DOMAIN syms, syms[e] = alphaSize - 1
    PROVE  LET r == Favour(syms, numGroups, s)
           IN  /\ SharedOut(syms, r) /\ Len(r.favoured) = Len(s.favoured) + 1
               /\ Len(s.favoured) = numGroups - 1 => r.gs = alphaSize
<1> DEFINE r == Favour(syms, numGroups, s)
           f == s.favoured
           h == r.favoured
           n == Len(f)
<1>1. PICK last \in s.gs - 1 .. alphaSize - 1 :
         /\ r = [gs |-> last + 1,
                 remF |-> s.remF - Cardinality({i \in DOMAIN syms : syms[i] \in s.gs .. last}),
                 favoured |-> << s.gs .. last >> \o s.favoured]
         /\ Len(s.favoured) = numGroups - 1 => last = alphaSize - 1
  BY ShareEnds
<1>2. /\ s.gs \in 0 .. alphaSize /\ s.gs \in Nat /\ f \in Seq(SUBSET Symbols) /\ n \in Nat
      /\ s.remF = Cardinality(From(syms, s.gs)) /\ DOMAIN f = 1 .. n
      /\ \A v \in Symbols : v < s.gs =>
            \E i \in 1 .. n : v \in f[i] /\ \A j \in 1 .. n : v \in f[j] => j = i
      /\ \A v \in Symbols : \A i \in 1 .. n : v \in f[i] => v < s.gs
  <2>1. f \in Seq(SUBSET Symbols)
    BY DEF SharedOut
  <2>2. n \in Nat /\ DOMAIN f = 1 .. n
    BY <2>1
  <2>3. /\ s.gs \in 0 .. alphaSize /\ s.remF = Cardinality(From(syms, s.gs))
        /\ \A v \in Symbols : v < s.gs =>
              \E i \in DOMAIN f : v \in f[i] /\ \A j \in DOMAIN f : v \in f[j] => j = i
        /\ \A v \in Symbols : \A i \in DOMAIN f : v \in f[i] => v < s.gs
    BY DEF SharedOut
  <2>4. s.gs \in Nat
    BY <2>3
  <2> HIDE DEF f, n
  <2> QED  BY <2>1, <2>2, <2>3, <2>4
<1>3. last \in Int /\ last >= s.gs - 1 /\ last <= alphaSize - 1 /\ last + 1 \in 0 .. alphaSize
  BY <1>2
<1>4. /\ r.gs = last + 1 /\ h = << s.gs .. last >> \o f
      /\ r.remF = s.remF - Cardinality({i \in DOMAIN syms : syms[i] \in s.gs .. last})
  BY <1>1, SMTT(30)
<1> HIDE DEF r
<1>5. r.remF = Cardinality(From(syms, r.gs))
  <2>1. Cardinality(From(syms, s.gs)) - Cardinality({i \in DOMAIN syms : syms[i] \in s.gs .. last})
        = Cardinality(From(syms, last + 1))
    BY <1>2, <1>3, RestCounted, SMTT(30)
  <2> QED  BY <1>2, <1>4, <2>1
<1>6. s.gs .. last \in SUBSET Symbols
  BY <1>2, <1>3
<1>7. /\ h \in Seq(SUBSET Symbols) /\ Len(h) = n + 1 /\ h[1] = s.gs .. last
      /\ \A i \in 1 .. n : h[i + 1] = f[i]
  <2> DEFINE S == SUBSET Symbols
             one == << s.gs .. last >>
  <2>1. one \in Seq(S) /\ Len(one) = 1 /\ one[1] = s.gs .. last
    BY <1>6
  <2>2. f \in Seq(S)
    BY <1>2
  <2> HIDE DEF S, one, f, h
  <2>3. /\ Len(one \o f) = Len(one) + Len(f) /\ one \o f \in Seq(S)
        /\ \A k \in 1 .. Len(one) : (one \o f)[k] = one[k]
        /\ \A k \in 1 .. Len(f) : (one \o f)[Len(one) + k] = f[k]
    <3>1. one \in Seq(S) /\ f \in Seq(S)
      BY <2>1, <2>2
    <3> QED  BY ONLY <3>1, JoinedItems
  <2>4. h = one \o f
    BY <1>4 DEF one, f, h
  <2>5. 1 \in 1 .. Len(one)
    BY <2>1
  <2>6. h \in Seq(S) /\ Len(h) = 1 + n /\ h[1] = s.gs .. last /\ \A k \in 1 .. n : h[1 + k] = f[k]
    BY <2>1, <2>3, <2>4, <2>5 DEF n
  <2>7. \A i \in 1 .. n : h[i + 1] = f[i]
    BY <1>2, <2>6
  <2> QED  BY <1>2, <2>6, <2>7 DEF S
<1>8. DOMAIN h = 1 .. n + 1
  BY <1>7
<1> HIDE DEF f, h, n
<1>9. ASSUME NEW v \in Symbols, NEW i \in 1 .. n + 1
      PROVE  v \in h[i] <=> IF i = 1 THEN v >= s.gs /\ v <= last ELSE v \in f[i - 1]
  <2>1. v \in Nat
    OBVIOUS
  <2>2. CASE i = 1
    BY <1>2, <1>3, <1>7, <2>1, <2>2
  <2>3. CASE i # 1
    <3>1. i - 1 \in 1 .. n /\ (i - 1) + 1 = i
      BY <1>2, <2>3
    <3> QED  BY <1>7, <2>3, <3>1
  <2> QED  BY <2>2, <2>3
<1>10. ASSUME NEW v \in Symbols, v < last + 1
       PROVE  \E i \in 1 .. n + 1 : v \in h[i] /\ \A j \in 1 .. n + 1 : v \in h[j] => j = i
  <2>1. v \in Nat
    OBVIOUS
  <2>2. CASE v >= s.gs
    <3>1. 1 \in 1 .. n + 1
      BY <1>2
    <3>2. v \in h[1]
      <4>1. v \in h[1] <=> v >= s.gs /\ v <= last
        BY <1>9, <3>1
      <4>2. v <= last
        BY <1>3, <1>10, <2>1
      <4> QED  BY <2>2, <4>1, <4>2
    <3>3. ASSUME NEW j \in 1 .. n + 1, v \in h[j] PROVE j = 1
      <4> SUFFICES ASSUME j # 1 PROVE FALSE
        OBVIOUS
      <4>1. j - 1 \in 1 .. n /\ v \in f[j - 1]
        BY <1>2, <1>9, <3>3
      <4>2. v < s.gs
        BY <1>2, <4>1
      <4> QED  BY <1>2, <2>1, <2>2, <4>2
    <3> QED  BY <3>1, <3>2, <3>3
  <2>3. CASE v < s.gs
    <3>1. PICK i \in 1 .. n : v \in f[i] /\ \A j \in 1 .. n : v \in f[j] => j = i
      BY <1>2, <2>3
    <3>2. i + 1 \in 1 .. n + 1 /\ v \in h[i + 1]
      BY <1>2, <1>7, <3>1
    <3>3. ASSUME NEW j \in 1 .. n + 1, v \in h[j] PROVE j = i + 1
      <4>1. j # 1
        BY <1>2, <1>9, <2>1, <2>3, <3>3
      <4>2. j - 1 \in 1 .. n /\ v \in f[j - 1]
        BY <1>2, <1>9, <3>3, <4>1
      <4>3. j - 1 = i
        BY <3>1, <4>2
      <4> QED  BY <4>3
    <3> QED  BY <3>2, <3>3
  <2> QED  BY <1>2, <2>1, <2>2, <2>3
<1>11. ASSUME NEW v \in Symbols, NEW i \in 1 .. n + 1, v \in h[i]
       PROVE  v < last + 1
  <2>1. v \in Nat
    OBVIOUS
  <2>2. CASE i = 1
    BY <1>3, <1>9, <1>11, <2>1, <2>2
  <2>3. CASE i # 1
    <3>1. i - 1 \in 1 .. n /\ v \in f[i - 1]
      BY <1>2, <1>9, <1>11, <2>3
    <3>2. v < s.gs
      BY <1>2, <3>1
    <3> QED  BY <1>2, <1>3, <2>1, <3>2
  <2> QED  BY <2>2, <2>3
<1>12. SharedOut(syms, r)
  <2>1. r.favoured = h
    BY DEF h
  <2>2. /\ \A v \in Symbols : v < r.gs =>
              \E i \in DOMAIN h : v \in h[i] /\ \A j \in DOMAIN h : v \in h[j] => j = i
        /\ \A v \in Symbols : \A i \in DOMAIN h : v \in h[i] => v < r.gs
    <3>1. \A v \in Symbols : v < last + 1 =>
             \E i \in 1 .. n + 1 : v \in h[i] /\ \A j \in 1 .. n + 1 : v \in h[j] => j = i
      BY <1>10
    <3>2. \A v \in Symbols : \A i \in 1 .. n + 1 : v \in h[i] => v < last + 1
      BY <1>11
    <3>3. r.gs = last + 1 /\ DOMAIN h = 1 .. n + 1
      BY <1>4, <1>8
    <3> QED  BY ONLY <3>1, <3>2, <3>3
  <2>3. r.gs \in 0 .. alphaSize /\ h \in Seq(SUBSET Symbols)
    BY <1>3, <1>4, <1>7
  <2> QED  BY <1>5, <2>1, <2>2, <2>3 DEF SharedOut
<1>13. Len(s.favoured) = numGroups - 1 => r.gs = alphaSize
  BY <1>1, <1>4
<1> QED  BY <1>7, <1>12, <1>13 DEF r, h, n, f

\* All symbols are shared out.
LEMMA AllShared ==
    ASSUME alphaSize \in Nat, Symbols = 0 .. alphaSize - 1, NEW syms \in Seq(Symbols),
           NEW numGroups \in Nat \ {0}, NEW e \in DOMAIN syms, syms[e] = alphaSize - 1
    PROVE  /\ Len(Favoured(syms, numGroups)) = numGroups
           /\ \A v \in Symbols : \E i \in 1 .. numGroups :
                 \A j \in 1 .. numGroups : v \in Favoured(syms, numGroups)[j] <=> j = i
<1> DEFINE n == numGroups
           St == {s \in [gs : Int, remF : Int, favoured : Seq(SUBSET Symbols)] : SharedOut(syms, s)}
           step(s) == IF Len(s.favoured) < n THEN Favour(syms, n, s) ELSE s
           start == [gs |-> 0, remF |-> Len(syms), favoured |-> << >>]
           F == [x \in St \X (1 .. n) |-> step(x[1])]
           Is(f) == f = [k \in 0 .. n |-> IF k = 0 THEN start ELSE Favour(syms, n, f[k - 1])]
           Of(k) == {s \in St : Len(s.favoured) = k /\ (k = n => s.gs = alphaSize)}
<1>1. n \in Nat \ {0}
  OBVIOUS
<1>2. start \in Of(0) /\ start \in St
  <2>1. << >> \in Seq(SUBSET Symbols) /\ Len(<< >>) = 0 /\ DOMAIN << >> = {}
    OBVIOUS
  <2>2. Cardinality(From(syms, 0)) = Len(syms) /\ Len(syms) \in Nat
    <3>1. DOMAIN syms = 1 .. Len(syms) /\ Len(syms) \in Nat /\ \A i \in 1 .. Len(syms) : syms[i] \in Nat
      OBVIOUS
    <3>2. From(syms, 0) = 1 .. Len(syms)
      BY <3>1 DEF From
    <3>3. Cardinality(1 .. Len(syms)) = IF 1 > Len(syms) THEN 0 ELSE Len(syms) - 1 + 1
      BY <3>1, FS_Interval
    <3> QED  BY <3>1, <3>2, <3>3
  <2>3. start.gs = 0 /\ start.remF = Len(syms) /\ start.favoured = << >>
    OBVIOUS
  <2>4. 0 \in 0 .. alphaSize /\ \A v \in Symbols : ~(v < 0)
    OBVIOUS
  <2>5. start \in [gs : Int, remF : Int, favoured : Seq(SUBSET Symbols)]
    BY <2>1, <2>2
  <2> HIDE DEF start
  <2>6. SharedOut(syms, start)
    BY <2>1, <2>2, <2>3, <2>4 DEF SharedOut
  <2> QED  BY <1>1, <2>1, <2>3, <2>5, <2>6
<1>3. ASSUME NEW s \in St, Len(s.favoured) < n
      PROVE  LET r == Favour(syms, n, s)
             IN  r \in Of(Len(s.favoured) + 1) /\ r \in St
  <2> DEFINE r == Favour(syms, n, s)
  <2>1. /\ SharedOut(syms, r) /\ Len(r.favoured) = Len(s.favoured) + 1
        /\ Len(s.favoured) = n - 1 => r.gs = alphaSize
    BY <1>3, FavourShares
  <2>2. r \in [gs : Int, remF : Int, favoured : Seq(SUBSET Symbols)]
    <3>1. PICK gs, remF, favoured : r = [gs |-> gs, remF |-> remF, favoured |-> favoured]
      BY DEF Favour
    <3>2. r.gs \in 0 .. alphaSize /\ r.favoured \in Seq(SUBSET Symbols) /\ r.remF = Cardinality(From(syms, r.gs))
      BY <2>1 DEF SharedOut
    <3>3. r.remF \in Int
      <4>1. From(syms, r.gs) \subseteq 1 .. Len(syms)
        BY DEF From
      <4>2. IsFiniteSet(1 .. Len(syms))
        <5>1. Len(syms) \in Nat /\ 1 \in Int
          OBVIOUS
        <5> QED  BY <5>1, FS_Interval
      <4> HIDE DEF r
      <4>3. Cardinality(From(syms, r.gs)) \in Nat
        BY <4>1, <4>2, FS_Subset, FS_CardinalityType
      <4> QED  BY <3>2, <4>3
    <3> HIDE DEF r
    <3>4. r.gs = gs /\ r.remF = remF /\ r.favoured = favoured
      BY <3>1
    <3>5. gs \in Int /\ remF \in Int /\ favoured \in Seq(SUBSET Symbols)
      BY <3>2, <3>3, <3>4
    <3> QED  BY <3>1, <3>5
  <2>3. Len(s.favoured) \in Nat
    OBVIOUS
  <2> HIDE DEF r
  <2>4. r \in St
    BY <2>1, <2>2
  <2>5. Len(s.favoured) + 1 = n => r.gs = alphaSize
    BY <1>1, <2>1, <2>3
  <2> QED  BY <2>1, <2>4, <2>5 DEF r
<1>4. F \in [St \X (1 .. n) -> St]
  <2>1. \A s \in St : step(s) \in St
    BY <1>3
  <2> HIDE DEF St, step
  <2> QED  BY <2>1
<1> HIDE DEF St, start
<1>5. StepsTaken(n, St, start, F)
  <2> HIDE DEF F
  <2> QED  BY <1>1, <1>2, <1>4, RecursionExists
<1>6. PICK f \in [0 .. n -> St] : f[0] = start /\ \A k \in 1 .. n : f[k] = F[<< f[k - 1], k >>]
  <2> HIDE DEF F
  <2> QED  BY <1>5 DEF StepsTaken
<1>7. ASSUME NEW k \in 1 .. n PROVE f[k] = step(f[k - 1]) /\ f[k - 1] \in St
  <2>1. k - 1 \in 0 .. n
    BY <1>1
  <2> HIDE DEF step
  <2>2. << f[k - 1], k >> \in St \X (1 .. n) /\ f[k - 1] \in St
    BY <1>6, <2>1
  <2> QED  BY <1>6, <2>2
<1>8. \A k \in 0 .. n : f[k] \in Of(k)
  <2> DEFINE all == [k \in 0 .. n |-> Of(k)]
  <2>1. f[0] \in all[0]
    <3>1. 0 \in 0 .. n
      BY <1>1
    <3> QED  BY <1>2, <1>6, <3>1
  <2>2. ASSUME NEW k \in 1 .. n, f[k - 1] \in all[k - 1] PROVE f[k] \in all[k]
    <3>1. k - 1 \in 0 .. n /\ k \in 0 .. n /\ k - 1 < n /\ (k - 1) + 1 = k
      BY <1>1
    <3>2. f[k - 1] \in St /\ Len(f[k - 1].favoured) = k - 1
      BY <2>2, <3>1
    <3>3. f[k] = Favour(syms, n, f[k - 1])
      BY <1>7, <3>1, <3>2
    <3> HIDE DEF Of
    <3>4. Favour(syms, n, f[k - 1]) \in Of((k - 1) + 1)
      BY <1>3, <3>1, <3>2
    <3> QED  BY <3>1, <3>3, <3>4
  <2>3. \A k \in 0 .. n : f[k] \in all[k]
    <3> HIDE DEF all
    <3> QED  BY <1>1, <2>1, <2>2, RecursionInvariant
  <2> HIDE DEF Of
  <2> QED  BY <2>3
<1>9. f[0] = start /\ \A k \in 1 .. n : f[k] = Favour(syms, n, f[k - 1])
  <2> SUFFICES ASSUME NEW k \in 1 .. n PROVE f[k] = Favour(syms, n, f[k - 1])
    BY <1>6
  <2>1. k - 1 \in 0 .. n /\ k - 1 < n
    BY <1>1
  <2>2. Len(f[k - 1].favoured) = k - 1
    BY <1>8, <2>1
  <2> QED  BY <1>7, <2>1, <2>2
<1>10. Favoured(syms, n) = f[n].favoured
  <2> DEFINE g == CHOOSE x : Is(x)
  <2>1. f = [k \in 0 .. n |-> f[k]]
    OBVIOUS
  <2>2. Is(f)
    <3>1. \A k \in 0 .. n : f[k] = IF k = 0 THEN start ELSE Favour(syms, n, f[k - 1])
      <4> SUFFICES ASSUME NEW k \in 0 .. n, k # 0 PROVE f[k] = Favour(syms, n, f[k - 1])
        BY <1>9
      <4>1. k \in 1 .. n
        BY <1>1
      <4> QED  BY <1>9, <4>1
    <3> QED  BY <2>1, <3>1
  <2>3. Is(g)
    BY <2>2
  <2>4. g[0] = start /\ \A k \in 1 .. n : g[k] = Favour(syms, n, g[k - 1])
    <3>1. \A k \in 0 .. n : g[k] = IF k = 0 THEN start ELSE Favour(syms, n, g[k - 1])
      BY <2>3
    <3>2. 0 \in 0 .. n /\ \A k \in 1 .. n : k \in 0 .. n /\ k # 0
      BY <1>1
    <3> HIDE DEF g
    <3> QED  BY <3>1, <3>2
  <2>5. Favoured(syms, n) = g[n].favoured
    BY DEF Favoured, start
  <2> HIDE DEF g
  <2>6. \A k \in 0 .. n : f[k] = g[k]
    <3>1. n \in Nat
      BY <1>1
    <3> HIDE DEF n, start
    <3>2. StepAlike(n, f, g)
      BY <1>9, <2>4 DEF StepAlike
    <3> QED  BY <3>1, <3>2, RecursionSame
  <2>7. n \in 0 .. n
    BY <1>1
  <2> QED  BY <2>5, <2>6, <2>7
<1> DEFINE fav == f[n].favoured
<1>11. SharedOut(syms, f[n]) /\ Len(fav) = n /\ f[n].gs = alphaSize /\ fav \in Seq(SUBSET Symbols)
  <2>1. n \in 0 .. n
    BY <1>1
  <2>2. f[n] \in St /\ Len(fav) = n /\ f[n].gs = alphaSize
    BY <1>8, <2>1
  <2>3. SharedOut(syms, f[n])
    BY <2>2 DEF St
  <2> QED  BY <2>2, <2>3 DEF SharedOut
<1> HIDE DEF fav
<1>12. DOMAIN fav = 1 .. n
  BY <1>11
<1>13. \A v \in Symbols : v < alphaSize
  OBVIOUS
<1>14. \A v \in Symbols : \E i \in 1 .. n : v \in fav[i] /\ \A j \in 1 .. n : v \in fav[j] => j = i
  BY <1>11, <1>12, <1>13 DEF SharedOut, fav
<1>15. \A v \in Symbols : \E i \in 1 .. n : \A j \in 1 .. n : v \in fav[j] <=> j = i
  BY <1>14
<1> QED  BY <1>10, <1>11, <1>15 DEF fav

\* The first tables divide the symbols among them: whatever the block and however many
\* tables are used, each symbol is favoured by exactly one table, also when a symbol is
\* handed back to the table before (writer.go:540-567).
THEOREM FavouredIsOnce == Spec => []FavouredOnce
<1>1. Init => FavouredOnce
  BY DEF Init, CodedInit, EncoderInit, FavouredOnce
<1>2. ASSUME SysInv, FavouredOnce, [Next]_vars
      PROVE  FavouredOnce'
  <2>1. CASE MakeSymbols /\ UNCHANGED sortedVars
    <3> DEFINE syms == GenerateMTFValues(Fed, nInUse)
               groups == NumGroups(Len(syms))
               fav == Favoured(syms, groups)
    <3>1. sorter = "sorted" /\ mtfv' = syms
          /\ codeLens' = [t \in 0 .. groups - 1 |->
                            [v \in Symbols |-> IF v \in fav[t + 1] THEN 0 ELSE 15]]
      BY <2>1 DEF MakeSymbols, Fed
    <3>2. /\ syms \in Seq(Symbols) /\ Len(syms) \in Nat \ {0} /\ syms[Len(syms)] = nInUse + 1
          /\ nInUse \in Nat /\ Symbols = 0 .. alphaSize - 1 /\ alphaSize = nInUse + 2
      <4>1. SortKept
        BY <1>2 DEF SysInv, EncoderInv
      <4>2. /\ syms \in Seq(Symbols) /\ Len(syms) \in 1 .. nblock + 1 /\ syms[Len(syms)] = nInUse + 1
            /\ nInUse \in 1 .. A /\ alphaSize = nInUse + 2
        BY <3>1, <4>1, BlockSymbols
      <4>3. A \in Nat
        BY FormatAssumption DEF FormatAssumption
      <4> HIDE DEF syms
      <4>4. Len(syms) \in Nat \ {0}
        BY <4>2
      <4> QED  BY <4>2, <4>3, <4>4 DEF Symbols
    <3>3. groups \in Nat \ {0}
      <4>1. \A k \in Nat : NumGroups(k) \in Nat \ {0}
        BY TablesNumber
      <4> QED  BY <3>2, <4>1
    <3> HIDE DEF syms, groups
    <3>4. Len(syms) \in DOMAIN syms /\ syms[Len(syms)] = alphaSize - 1
      BY <3>2
    <3>5. \A v \in Symbols : \E i \in 1 .. groups : \A j \in 1 .. groups : v \in fav[j] <=> j = i
      <4>1. alphaSize \in Nat
        BY <3>2
      <4> QED  BY <3>2, <3>3, <3>4, <4>1, AllShared
    <3> HIDE DEF fav
    <3>6. Tables' = 0 .. groups - 1 /\ Symbols' = Symbols
      <4>1. Tables' = 0 .. NumGroups(Len(mtfv')) - 1
        BY DEF Tables
      <4> QED  BY <2>1, <3>1, <4>1, SortedStays DEF groups
    <3>7. ASSUME NEW v \in Symbols
          PROVE  Cardinality({t \in 0 .. groups - 1 : codeLens'[t][v] = 0}) = 1
      <4>1. PICK i \in 1 .. groups : \A j \in 1 .. groups : v \in fav[j] <=> j = i
        BY <3>5
      <4>2. \A t \in 0 .. groups - 1 : t + 1 \in 1 .. groups /\ (t + 1 = i <=> t = i - 1)
        BY <3>3
      <4>3. i - 1 \in 0 .. groups - 1
        BY <3>3
      <4>4. \A t \in 0 .. groups - 1 : codeLens'[t][v] = IF v \in fav[t + 1] THEN 0 ELSE 15
        BY <3>1
      <4>5. \A t \in 0 .. groups - 1 : codeLens'[t][v] = 0 <=> t = i - 1
        BY <4>1, <4>2, <4>4
      <4>6. {t \in 0 .. groups - 1 : codeLens'[t][v] = 0} = {i - 1}
        BY <4>3, <4>5
      <4> QED  BY <4>6, FS_Singleton
    <3> QED  BY <3>6, <3>7 DEF FavouredOnce
  <2>2. CASE SelectTables \/ MakeCodeLengths \/ WriteBlockData
    BY <2>2 DEF SelectTables, MakeCodeLengths, WriteBlockData, FavouredOnce
  <2>3. CASE Iterate
    <3>1. iter \in Nat /\ iter' = iter + 1
      BY <1>2, <2>3 DEF Iterate, SysInv, EncoderInv, Rounds
    <3> QED  BY <3>1 DEF FavouredOnce
  <2>4. CASE UNCHANGED << coder, mtfv, codeLens, iter >>
    <3>1. CASE coder = "select"
      <4>1. UNCHANGED sortedVars
        <5>1. sorter = "sorted" /\ coder # "written"
          BY <1>2, <3>1 DEF SysInv, EncoderInv, SymbolsKept
        <5>2. ~sent
          BY <1>2, <5>1 DEF SysInv
        <5> QED  BY <1>2, <5>1, <5>2 DEF Next, CodedStep, Sort, EncoderStep, Transmit, Finished, vars
      <4>2. Symbols' = Symbols /\ Tables' = Tables
        BY <2>4, <4>1, SortedStays, SymbolsStay
      <4> QED  BY <1>2, <2>4, <4>2 DEF FavouredOnce
    <3>2. CASE coder # "select"
      BY <2>4, <3>2 DEF FavouredOnce
    <3> QED  BY <3>1, <3>2
  <2> QED  BY <1>2, <2>1, <2>2, <2>3, <2>4
           DEF Next, CodedStep, EncoderStep, Transmit, Finished, vars, codedVars, coderVars
<1>3. SysInv /\ FavouredOnce /\ [Next]_vars => FavouredOnce'
  BY <1>2
<1> QED  BY <1>1, <1>3, Coding, PTL DEF Spec
=============================================================================
