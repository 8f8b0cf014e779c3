-------------------------- MODULE BlockDecoding_proofs --------------------------
(***************************************************************************)
(* The proof that a block that arrives as it was written is decoded: the   *)
(* reader is followed through the fields that WriteBlockData wrote - the   *)
(* header, the tables, the symbols - and finds in each what the encoder    *)
(* meant; BlockRoundTrip_proofs says what the stages do with that.         *)
(***************************************************************************)
EXTENDS BlockRoundTrip_proofs

-----------------------------------------------------------------------------
(* The fields of a block as the reader finds them.                         *)

\* A number below 2^width is used up by width halvings.
LEMMA HalvedSmall ==
    ASSUME NEW width \in Nat, NEW value \in Nat, value < Pow2[width], NEW h, Halved(width, value, h)
    PROVE  h[width] = 0
<1> DEFINE T == {k \in Nat : k <= width => h[k] < Pow2[width - k]}
<1>1. 0 \in T
  <2>1. width - 0 = width
    OBVIOUS
  <2> QED  BY <2>1 DEF Halved
<1>2. ASSUME NEW k \in T PROVE k + 1 \in T
  <2> SUFFICES ASSUME k + 1 <= width PROVE h[k + 1] < Pow2[width - (k + 1)]
    OBVIOUS
  <2>1. h[k] < Pow2[width - k] /\ k \in Nat
    OBVIOUS
  <2>2. k + 1 \in 1 .. width /\ k \in 0 .. width /\ (k + 1) - 1 = k /\ k + 1 \in 0 .. width
    BY <2>1
  <2>3. h[k + 1] = h[k] \div 2 /\ h[k] \in Nat /\ h[k + 1] \in Nat
    BY <2>2 DEF Halved
  <2> DEFINE m == width - (k + 1)
  <2>4. m \in Nat /\ width - k = m + 1
    BY <2>2
  <2> HIDE DEF m
  <2>5. Pow2[m] \in Nat /\ Pow2[m + 1] = 2 * Pow2[m]
    BY <2>4, Pow2Next
  <2>6. h[k] < 2 * Pow2[m]
    BY <2>1, <2>4, <2>5
  <2>7. h[k + 1] < Pow2[m]
    BY ONLY <2>3, <2>5, <2>6
  <2> QED  BY <2>7 DEF m
<1> HIDE DEF T
<1>3. T = Nat
  <2>1. T \subseteq Nat
    BY DEF T
  <2> QED  BY <1>1, <1>2, <2>1, Induction
<1>4. h[width] < Pow2[width - width] /\ h[width] \in Nat
  <2>1. width \in T /\ width <= width
    BY <1>3
  <2>2. width \in 0 .. width
    OBVIOUS
  <2> QED  BY <2>1, <2>2 DEF T, Halved
<1>5. width - width = 0 /\ Pow2[0] = 1
  BY Pow2Steps
<1> QED  BY <1>4, <1>5

\* A number from its half and its last bit.
LEMMA Recomposed ==
    ASSUME NEW x \in Nat
    PROVE  2 * (x \div 2) + (x % 2) = x
OBVIOUS

\* A number below 2^width is read as it was written.
LEMMA ReadBack ==
    ASSUME BitsArrived, NEW p, NEW width \in Nat, NEW value \in Nat, value < Pow2[width],
           Standing(arrived, p, Bits(width, value))
    PROVE  /\ p \in Nat \ {0}
           /\ ReadBits(p, width) = value /\ ~PastEnd(p + width)
<1>1. PICK h : Halved(width, value, h) /\ Bits(width, value) = [i \in 1 .. width |-> h[width - i] % 2]
  BY BitsWritten
<1>2. Len(Bits(width, value)) = width
  BY BitsType
<1>3. /\ p \in Nat \ {0} /\ p + width <= Len(arrived) + 1 /\ Len(arrived) \in Nat
      /\ \A i \in 1 .. width : arrived[p + i - 1] = h[width - i] % 2
  <2>1. Len(arrived) \in Nat
    BY DEF BitsArrived
  <2>2. \A i \in 1 .. width : Bits(width, value)[i] = h[width - i] % 2
    BY <1>1
  <2> DEFINE b == Bits(width, value)
  <2> HIDE DEF b
  <2>3. Standing(arrived, p, b) /\ Len(b) = width /\ \A i \in 1 .. width : b[i] = h[width - i] % 2
    BY <1>2, <2>2 DEF b
  <2> QED  BY ONLY <2>1, <2>3 DEF Standing
<1> DEFINE T == {k \in Nat : k <= width => ReadBits(p, k) = h[width - k]}
<1>4. 0 \in T
  <2>1. PICK f : ReadBitsIs(p, 0, f) /\ ReadBits(p, 0) = f[0]
    BY <1>3, ReadBitsValue
  <2>2. f[0] = 0
    <3>1. 0 \in 0 .. 0
      OBVIOUS
    <3> QED  BY <2>1, <3>1 DEF ReadBitsIs
  <2>3. width - 0 = width /\ h[width] = 0
    BY <1>1, HalvedSmall
  <2> QED  BY <2>1, <2>2, <2>3
<1>5. ASSUME NEW k \in T PROVE k + 1 \in T
  <2> SUFFICES ASSUME k + 1 <= width PROVE ReadBits(p, k + 1) = h[width - (k + 1)]
    OBVIOUS
  <2>1. ReadBits(p, k) = h[width - k] /\ k \in Nat
    OBVIOUS
  <2>2. ReadBits(p, k + 1) = 2 * ReadBits(p, k) + ReadBit(p + k)
    BY <1>3, <2>1, ReadBitsNext
  <2>3. k + 1 \in 1 .. width /\ p + (k + 1) - 1 = p + k /\ p + k <= Len(arrived)
    BY <1>3, <2>1
  <2>4. arrived[p + k] = h[width - (k + 1)] % 2
    BY <1>3, <2>3
  <2>5. ReadBit(p + k) = h[width - (k + 1)] % 2
    BY <2>3, <2>4 DEF ReadBit
  <2> DEFINE m == width - (k + 1)
  <2>6. m \in 0 .. width /\ m + 1 \in 1 .. width /\ width - k = m + 1 /\ (m + 1) - 1 = m
    BY <2>1, <2>3
  <2> HIDE DEF m
  <2>7. h[m + 1] = h[m] \div 2 /\ h[m] \in Nat
    BY <1>1, <2>6 DEF Halved
  <2>8. ReadBits(p, k + 1) = 2 * (h[m] \div 2) + (h[m] % 2)
    BY <2>1, <2>2, <2>5, <2>6, <2>7 DEF m
  <2>9. 2 * (h[m] \div 2) + (h[m] % 2) = h[m]
    BY <2>7, Recomposed
  <2> QED  BY <2>8, <2>9 DEF m
<1> HIDE DEF T
<1>6. T = Nat
  <2>1. T \subseteq Nat
    BY DEF T
  <2> QED  BY <1>4, <1>5, <2>1, Induction
<1>7. ReadBits(p, width) = h[width - width]
  <2>1. width \in T /\ width <= width
    BY <1>6
  <2> QED  BY <2>1 DEF T
<1>8. width - width = 0 /\ h[0] = value
  BY <1>1 DEF Halved
<1>9. ~PastEnd(p + width)
  BY <1>3 DEF PastEnd
<1> QED  BY <1>3, <1>7, <1>8, <1>9

\* The bits of a sequence that stands in the stream, read one by one.
LEMMA BitsThere ==
    ASSUME BitsArrived, NEW p, NEW bits \in Seq(Bit01), Standing(arrived, p, bits)
    PROVE  /\ p \in Nat \ {0} /\ Len(bits) \in Nat /\ ~PastEnd(p + Len(bits))
           /\ \A i \in 1 .. Len(bits) : ReadBit(p + i - 1) = bits[i]
<1>1. Len(arrived) \in Nat /\ Len(bits) \in Nat
  BY DEF BitsArrived
<1>2. p \in Nat \ {0} /\ p + Len(bits) <= Len(arrived) + 1
      /\ \A i \in 1 .. Len(bits) : arrived[p + i - 1] = bits[i]
  BY DEF Standing
<1>3. \A i \in 1 .. Len(bits) : p + i - 1 <= Len(arrived)
  BY <1>1, <1>2
<1> QED  BY <1>1, <1>2, <1>3 DEF PastEnd, ReadBit

-----------------------------------------------------------------------------
(* The map of the bytes in use.                                            *)

\* Single bits.
LEMMA OneBit ==
    /\ << 1 >> \in Seq(Bit01) /\ Len(<< 1 >>) = 1 /\ << 1 >>[1] = 1
    /\ << 0 >> \in Seq(Bit01) /\ Len(<< 0 >>) = 1 /\ << 0 >>[1] = 0
BY DEF Bit01

\* A bit for each of a set's members.
FlagsOf(n, B, f) ==
    /\ f = [i \in 1 .. n |-> f[i]]
    /\ \A i \in 1 .. n : (i \in B => f[i] = << 1 >>) /\ (i \notin B => f[i] = << 0 >>)

\* Flags put together are one bit each.
LEMMA FlagsType ==
    ASSUME NEW n \in Nat, NEW B, NEW f, FlagsOf(n, B, f)
    PROVE  /\ f \in Seq(Seq(Bit01)) /\ FlattenSeq(f) \in Seq(Bit01) /\ Len(FlattenSeq(f)) = n
           /\ \A i \in 1 .. n : FlattenSeq(f)[i] = IF i \in B THEN 1 ELSE 0
<1> USE DEF FlagsOf
<1> DEFINE F == FlattenSeq(f)
<1>1. ASSUME NEW i \in 1 .. n
      PROVE  f[i] \in Seq(Bit01) /\ Len(f[i]) = 1 /\ f[i][1] = IF i \in B THEN 1 ELSE 0
  <2>1. CASE i \in B
    <3>1. f[i] = << 1 >>
      BY <2>1
    <3> QED  BY ONLY <2>1, <3>1, OneBit
  <2>2. CASE i \notin B
    <3>1. f[i] = << 0 >>
      BY <2>2
    <3> QED  BY ONLY <2>2, <3>1, OneBit
  <2> QED  BY <2>1, <2>2
<1>2. f \in Seq(Seq(Bit01)) /\ Len(f) = n /\ F \in Seq(Bit01)
  <2>1. n \in Nat /\ f = [i \in 1 .. n |-> f[i]] /\ \A i \in 1 .. n : f[i] \in Seq(Bit01)
    BY <1>1
  <2> QED  BY ONLY <2>1, PiecesType
<1>3. (\A k \in 0 .. n : Offset(f, k) = 1 * k) /\ Len(F) = 1 * n
  <2>1. \A i \in 1 .. Len(f) : Len(f[i]) = 1
    BY <1>1, <1>2
  <2>2. (\A k \in 0 .. Len(f) : Offset(f, k) = 1 * k) /\ Len(FlattenSeq(f)) = 1 * Len(f)
    BY ONLY <1>2, <2>1, EqualParts
  <2> QED  BY <1>2, <2>2
<1>4. ASSUME NEW i \in 1 .. n PROVE F[i] = IF i \in B THEN 1 ELSE 0
  <2>1. i \in 1 .. Len(f) /\ i - 1 \in 0 .. n /\ 1 * (i - 1) = i - 1 /\ (i - 1) + 1 = i
    BY <1>2
  <2>2. FlattenSeq(f)[Offset(f, i - 1) + 1] = f[i][1]
    <3>1. 1 \in 1 .. Len(f[i])
      BY <1>1
    <3>2. f \in Seq(Seq(Bit01)) /\ i \in 1 .. Len(f)
      BY <1>2, <2>1
    <3>3. \A k \in 1 .. Len(f[i]) : FlattenSeq(f)[Offset(f, i - 1) + k] = f[i][k]
      BY ONLY <3>2, PartItems
    <3> QED  BY <3>1, <3>3
  <2>3. Offset(f, i - 1) = i - 1
    BY <1>3, <2>1
  <2> QED  BY <1>1, <2>1, <2>2, <2>3
<1>5. Len(F) = n
  BY <1>3
<1> QED  BY <1>2, <1>4, <1>5

\* Flags that arrived are those of the members.
LEMMA FlagsThere ==
    ASSUME BitsArrived, NEW n \in Nat, NEW B, NEW p, NEW f, FlagsOf(n, B, f),
           Standing(arrived, p, FlattenSeq(f))
    PROVE  p \in Nat \ {0} /\ \A i \in 1 .. n : ReadBit(p + i - 1) = 1 <=> i \in B
<1> DEFINE F == FlattenSeq(f)
<1>1. F \in Seq(Bit01) /\ Len(F) = n /\ \A i \in 1 .. n : F[i] = IF i \in B THEN 1 ELSE 0
  BY FlagsType
<1>2. p \in Nat \ {0} /\ \A i \in 1 .. Len(F) : ReadBit(p + i - 1) = F[i]
  <2>1. Standing(arrived, p, F)
    OBVIOUS
  <2> HIDE DEF F
  <2> QED  BY <1>1, <2>1, BitsThere
<1> QED  BY <1>1, <1>2

\* The fields of the map as ReadHeader finds them.
RowsAt == 1 + PtrBits
RowsRead == {r \in 0 .. RowLen - 1 : ReadBit(RowsAt + r) = 1}
RowAt(r) == RowsAt + RowLen * (1 + Below(RowsRead, r))
UsedRead == {c \in Bytes : /\ c \div RowLen \in RowsRead
                           /\ ReadBit(RowAt(c \div RowLen) + (c % RowLen)) = 1}
GroupsAt == RowsAt + RowLen * (1 + Cardinality(RowsRead))

\* The fields as the encoder writes them.
RowFlags == [i \in 1 .. RowLen |-> Bit(RowUsed(i - 1))]
RowBits(r) == FlattenSeq([j \in 1 .. RowLen |-> Bit(r * RowLen + (j - 1) \in inUse)])
RowsBits == [i \in 1 .. RowLen |-> IF RowUsed(i - 1) THEN RowBits(i - 1) ELSE << >>]
UsedRows == {r \in 0 .. RowLen - 1 : RowUsed(r)}

\* The map of the bytes in use is the flags of the rows, then those of the rows in use.
LEMMA MapIs == MapBits = FlattenSeq(RowFlags) \o FlattenSeq(RowsBits)
BY DEF MapBits, Concat, RowFlags, RowBits, RowsBits

\* The rows with a byte in use, and the bytes of a row, counted from one.
RowsOf == {i \in 1 .. RowLen : RowUsed(i - 1)}
ColumnsOf(r) == {j \in 1 .. RowLen : r * RowLen + (j - 1) \in inUse}

\* The flags of the rows.
LEMMA RowFlagsAre == FlagsOf(RowLen, RowsOf, RowFlags)
<1>1. RowFlags = [i \in 1 .. RowLen |-> RowFlags[i]]
  BY DEF RowFlags
<1>2. ASSUME NEW i \in 1 .. RowLen
      PROVE (i \in RowsOf => RowFlags[i] = << 1 >>) /\ (i \notin RowsOf => RowFlags[i] = << 0 >>)
  <2>1. RowFlags[i] = Bit(RowUsed(i - 1))
    BY DEF RowFlags
  <2>2. i \in RowsOf <=> RowUsed(i - 1)
    BY DEF RowsOf
  <2> QED  BY <2>1, <2>2 DEF Bit
<1> QED  BY <1>1, <1>2 DEF FlagsOf

\* The flags of the columns of a row.
RowFlagsOf(r) == [j \in 1 .. RowLen |-> Bit(r * RowLen + (j - 1) \in inUse)]

\* The flags of the columns of a row.
LEMMA ColumnFlagsAre ==
    ASSUME NEW r
    PROVE  FlagsOf(RowLen, ColumnsOf(r), RowFlagsOf(r)) /\ RowBits(r) = FlattenSeq(RowFlagsOf(r))
<1> DEFINE f == RowFlagsOf(r)
<1>1. f = [i \in 1 .. RowLen |-> f[i]]
  BY DEF RowFlagsOf
<1>2. ASSUME NEW i \in 1 .. RowLen
      PROVE (i \in ColumnsOf(r) => f[i] = << 1 >>) /\ (i \notin ColumnsOf(r) => f[i] = << 0 >>)
  <2>1. f[i] = Bit(r * RowLen + (i - 1) \in inUse)
    BY DEF RowFlagsOf
  <2>2. i \in ColumnsOf(r) <=> r * RowLen + (i - 1) \in inUse
    BY DEF ColumnsOf
  <2> HIDE DEF f
  <2> QED  BY <2>1, <2>2 DEF Bit
<1> QED  BY <1>1, <1>2 DEF FlagsOf, RowBits, RowFlagsOf

\* A row in use takes RowLen bits, another none.
LEMMA RowsBitsType ==
    ASSUME FormatAssumption
    PROVE  /\ RowsBits \in Seq(Seq(Bit01)) /\ Len(RowsBits) = RowLen
           /\ \A i \in 1 .. RowLen :
                 /\ Len(RowsBits[i]) = IF i - 1 \in UsedRows THEN RowLen ELSE 0
                 /\ i - 1 \in UsedRows => RowsBits[i] = RowBits(i - 1)
<1>1. RowLen \in Nat \ {0}
  BY DEF FormatAssumption
<1>2. ASSUME NEW i \in 1 .. RowLen
      PROVE  /\ RowsBits[i] \in Seq(Bit01)
             /\ Len(RowsBits[i]) = IF i - 1 \in UsedRows THEN RowLen ELSE 0
             /\ i - 1 \in UsedRows => RowsBits[i] = RowBits(i - 1)
  <2>1. RowBits(i - 1) \in Seq(Bit01) /\ Len(RowBits(i - 1)) = RowLen
    <3>1. /\ RowLen \in Nat /\ FlagsOf(RowLen, ColumnsOf(i - 1), RowFlagsOf(i - 1))
          /\ RowBits(i - 1) = FlattenSeq(RowFlagsOf(i - 1))
      BY <1>1, ColumnFlagsAre
    <3>2. FlattenSeq(RowFlagsOf(i - 1)) \in Seq(Bit01) /\ Len(FlattenSeq(RowFlagsOf(i - 1))) = RowLen
      BY ONLY <3>1, FlagsType
    <3> QED  BY <3>1, <3>2
  <2>2. RowsBits[i] = IF RowUsed(i - 1) THEN RowBits(i - 1) ELSE << >>
    BY DEF RowsBits
  <2>3. i - 1 \in UsedRows <=> RowUsed(i - 1)
    BY <1>1 DEF UsedRows
  <2> QED  BY <2>1, <2>2, <2>3
<1>3. RowsBits \in Seq(Seq(Bit01)) /\ Len(RowsBits) = RowLen
  <2>1. RowsBits = [i \in 1 .. RowLen |-> RowsBits[i]]
    BY DEF RowsBits
  <2>2. RowLen \in Nat /\ \A i \in 1 .. RowLen : RowsBits[i] \in Seq(Bit01)
    BY <1>1, <1>2
  <2> QED  BY ONLY <2>1, <2>2, PiecesType
<1> QED  BY <1>2, <1>3

\* A row's bits come behind those of the used rows before it.
RowsBelow(r) == Below(UsedRows, r)

\* Before row k stand the rows in use below k.
LEMMA RowsOffset ==
    ASSUME FormatAssumption
    PROVE  \A k \in 0 .. RowLen : Offset(RowsBits, k) = RowLen * RowsBelow(k) /\ RowsBelow(k) \in Nat
<1> DEFINE f == [k \in 0 .. RowLen |-> Offset(RowsBits, k)]
           g == [k \in 0 .. RowLen |-> RowLen * RowsBelow(k)]
<1>1. RowLen \in Nat \ {0}
  BY DEF FormatAssumption
<1>2. /\ Offset(RowsBits, 0) = 0
      /\ \A k \in 1 .. RowLen : Offset(RowsBits, k) = Offset(RowsBits, k - 1) + Len(RowsBits[k])
  BY RowsBitsType, OffsetSteps
<1>3. RowsBelow(0) = 0
  <2>1. RowLen \in Nat /\ UsedRows \in SUBSET (0 .. RowLen - 1) /\ 1 \in 1 .. RowLen
    BY <1>1 DEF UsedRows
  <2>2. Below(UsedRows, 0) = 0 /\ Below(UsedRows, 1 - 1) \in Nat
    BY ONLY <2>1, NextBelow
  <2> QED  BY <2>2 DEF RowsBelow
<1>4. \A k \in 1 .. RowLen :
          /\ RowsBelow(k - 1) \in Nat
          /\ RowsBelow(k) = RowsBelow(k - 1) + (IF k - 1 \in UsedRows THEN 1 ELSE 0)
  <2> SUFFICES ASSUME NEW k \in 1 .. RowLen
               PROVE  /\ RowsBelow(k - 1) \in Nat
                      /\ RowsBelow(k) = RowsBelow(k - 1) + (IF k - 1 \in UsedRows THEN 1 ELSE 0)
    OBVIOUS
  <2>1. RowLen \in Nat /\ UsedRows \in SUBSET (0 .. RowLen - 1) /\ k \in 1 .. RowLen
    BY <1>1 DEF UsedRows
  <2>2. /\ Below(UsedRows, k - 1) \in Nat
        /\ Below(UsedRows, k) = Below(UsedRows, k - 1) + (IF k - 1 \in UsedRows THEN 1 ELSE 0)
    <3>1. /\ Below(UsedRows, k - 1) \in Nat
          /\ k - 1 \in UsedRows => Below(UsedRows, k) = Below(UsedRows, k - 1) + 1
          /\ k - 1 \notin UsedRows => Below(UsedRows, k) = Below(UsedRows, k - 1)
      BY ONLY <2>1, NextBelow
    <3> QED  BY <3>1
  <2> QED  BY <2>2 DEF RowsBelow
<1>5. \A k \in 0 .. RowLen : RowsBelow(k) \in Nat
  <2> SUFFICES ASSUME NEW k \in 0 .. RowLen PROVE RowsBelow(k) \in Nat
    OBVIOUS
  <2>1. CASE k = 0
    BY <1>3, <2>1
  <2>2. CASE k # 0
    <3>1. k \in 1 .. RowLen
      BY <2>2
    <3> QED  BY <1>4, <3>1
  <2> QED  BY <2>1, <2>2
<1>6. StepAlike(RowLen, f, g)
  <2>1. f[0] = g[0]
    <3>1. 0 \in 0 .. RowLen /\ RowLen * 0 = 0
      BY <1>1
    <3> QED  BY <1>2, <1>3, <3>1
  <2>2. ASSUME NEW k \in 1 .. RowLen, f[k - 1] = g[k - 1] PROVE f[k] = g[k]
    <3>1. k \in 0 .. RowLen /\ k - 1 \in 0 .. RowLen
      BY <1>1
    <3>2. Offset(RowsBits, k - 1) = RowLen * RowsBelow(k - 1)
      BY <2>2, <3>1
    <3>3. Offset(RowsBits, k) = Offset(RowsBits, k - 1) + (IF k - 1 \in UsedRows THEN RowLen ELSE 0)
      BY <1>2, RowsBitsType
    <3>4. /\ RowsBelow(k - 1) \in Nat
          /\ RowsBelow(k) = RowsBelow(k - 1) + (IF k - 1 \in UsedRows THEN 1 ELSE 0)
      BY <1>4
    <3>5. Offset(RowsBits, k) = RowLen * RowsBelow(k)
      <4> DEFINE c == RowsBelow(k - 1)
                 w == RowLen
      <4>1. w \in Nat /\ c \in Nat
        BY <1>1, <3>4
      <4> HIDE DEF c, w
      <4>2. w * (c + 1) = w * c + w /\ w * c \in Nat /\ w * (c + 0) = w * c + 0
        BY <4>1
      <4>3. CASE k - 1 \in UsedRows
        <5>1. Offset(RowsBits, k) = w * c + w /\ RowsBelow(k) = c + 1
          BY <3>2, <3>3, <3>4, <4>3 DEF c, w
        <5>2. w * RowsBelow(k) = w * c + w
          BY <5>1, <4>2
        <5> QED  BY <5>1, <5>2 DEF w
      <4>4. CASE k - 1 \notin UsedRows
        <5>1. Offset(RowsBits, k) = w * c + 0 /\ RowsBelow(k) = c + 0
          BY <3>2, <3>3, <3>4, <4>4 DEF c, w
        <5>2. w * RowsBelow(k) = w * c + 0
          BY <5>1, <4>2
        <5> QED  BY <5>1, <5>2 DEF w
      <4> QED  BY <4>3, <4>4
    <3> QED  BY <3>1, <3>5
  <2> HIDE DEF f, g
  <2> QED  BY <2>1, <2>2 DEF StepAlike
<1>7. \A k \in 0 .. RowLen : f[k] = g[k]
  <2> HIDE DEF f, g
  <2> QED  BY <1>1, <1>6, RecursionSame
<1> QED  BY <1>5, <1>7

\* The bytes of a row are numbered from its first.
LEMMA RowNumbers ==
    ASSUME FormatAssumption, NEW r \in 0 .. RowLen - 1, NEW c \in Int
    PROVE  c \in Row(r) <=> \E j \in 0 .. RowLen - 1 : c = r * RowLen + j
<1> DEFINE m == r * RowLen
<1>1. RowLen \in Nat \ {0} /\ (r + 1) * RowLen = m + RowLen /\ m \in Nat
  BY DEF FormatAssumption
<1> HIDE DEF m
<1>2. c \in m .. (m + RowLen) - 1 <=> \E j \in 0 .. RowLen - 1 : c = m + j
  <2>1. ASSUME c \in m .. (m + RowLen) - 1 PROVE \E j \in 0 .. RowLen - 1 : c = m + j
    <3>1. c - m \in 0 .. RowLen - 1 /\ c = m + (c - m)
      BY <1>1, <2>1
    <3> QED  BY <3>1
  <2> QED  BY <1>1, <2>1
<1>3. Row(r) = m .. (m + RowLen) - 1
  BY <1>1 DEF Row, m
<1> QED  BY <1>2, <1>3 DEF m

\* The alphabet is read as it was written, and the fields behind it where they begin.
LEMMA MapRead ==
    ASSUME BitsArrived, FormatAssumption, inUse \in SUBSET Bytes, Standing(arrived, RowsAt, MapBits)
    PROVE  UsedRead = inUse /\ GroupsAt = RowsAt + Len(MapBits)
<1> DEFINE a == FlattenSeq(RowFlags)
           b == FlattenSeq(RowsBits)
<1>1. /\ RowLen \in Nat \ {0} /\ PtrBits \in Nat /\ RowsAt \in Nat /\ A = RowLen * RowLen
      /\ arrived \in Seq(Bit01)
  BY DEF FormatAssumption, RowsAt, BitsArrived, Bit01
<1>2. a \in Seq(Bit01) /\ Len(a) = RowLen /\ b \in Seq(Bit01)
  <2>1. a \in Seq(Bit01) /\ Len(a) = RowLen
    BY <1>1, RowFlagsAre, FlagsType
  <2> QED  BY <2>1, RowsBitsType, FlattenType
<1>3. Standing(arrived, RowsAt, a) /\ Standing(arrived, RowsAt + RowLen, b)
      /\ Len(MapBits) = RowLen + Len(b) /\ Len(b) \in Nat
  <2>1. Standing(arrived, RowsAt, a \o b) /\ MapBits = a \o b
    BY MapIs
  <2> HIDE DEF a, b
  <2>2. Standing(arrived, RowsAt, a) /\ Standing(arrived, RowsAt + Len(a), b)
    BY <1>1, <1>2, <2>1, StandingParts
  <2>3. Len(a \o b) = Len(a) + Len(b) /\ Len(b) \in Nat
    BY <1>2
  <2> QED  BY <1>2, <2>1, <2>2, <2>3
<1>4. RowsRead = UsedRows
  <2>1. RowLen \in Nat /\ BitsArrived /\ FlagsOf(RowLen, RowsOf, RowFlags)
        /\ Standing(arrived, RowsAt, FlattenSeq(RowFlags))
    BY <1>1, <1>3, RowFlagsAre
  <2>2. \A i \in 1 .. RowLen : ReadBit(RowsAt + i - 1) = 1 <=> i \in RowsOf
    BY ONLY <2>1, FlagsThere
  <2>3. ASSUME NEW r \in 0 .. RowLen - 1 PROVE ReadBit(RowsAt + r) = 1 <=> RowUsed(r)
    <3>1. r + 1 \in 1 .. RowLen /\ (r + 1) - 1 = r /\ RowsAt + (r + 1) - 1 = RowsAt + r
      BY <1>1
    <3>2. ReadBit(RowsAt + (r + 1) - 1) = 1 <=> r + 1 \in RowsOf
      BY <2>2, <3>1
    <3>3. r + 1 \in RowsOf <=> RowUsed(r)
      BY <3>1 DEF RowsOf
    <3> QED  BY <3>1, <3>2, <3>3
  <2> QED  BY <2>3 DEF RowsRead, UsedRows
<1> HIDE DEF a
<1>5. ASSUME NEW r \in UsedRows
      PROVE  \A j \in 0 .. RowLen - 1 : ReadBit(RowAt(r) + j) = 1 <=> r * RowLen + j \in inUse
  <2>1. r \in 0 .. RowLen - 1 /\ r + 1 \in 1 .. RowLen /\ (r + 1) - 1 = r
    BY <1>1 DEF UsedRows
  <2>2. RowsBits \in Seq(Seq(Bit01)) /\ Len(RowsBits) = RowLen /\ RowsBits[r + 1] = RowBits(r)
    <3>1. (r + 1) - 1 \in UsedRows
      BY <2>1
    <3> QED  BY <2>1, <3>1, RowsBitsType
  <2>3. Standing(arrived, (RowsAt + RowLen) + Offset(RowsBits, (r + 1) - 1), RowsBits[r + 1])
    <3>1. /\ arrived \in Seq(Bit01) /\ RowsBits \in Seq(Seq(Bit01)) /\ r + 1 \in 1 .. Len(RowsBits)
          /\ Standing(arrived, RowsAt + RowLen, FlattenSeq(RowsBits))
      BY <1>1, <1>3, <2>1, <2>2
    <3> QED  BY ONLY <3>1, StandingEach
  <2>4. RowAt(r) = (RowsAt + RowLen) + Offset(RowsBits, (r + 1) - 1)
    <3> DEFINE c == RowsBelow(r)
               w == RowLen
    <3>1. Offset(RowsBits, (r + 1) - 1) = w * c /\ c \in Nat
      BY <2>1, RowsOffset
    <3>2. RowAt(r) = RowsAt + w * (1 + c)
      BY <1>4 DEF RowAt, RowsBelow
    <3>3. w \in Nat
      BY <1>1
    <3> HIDE DEF c, w
    <3>4. w * (1 + c) = w + w * c /\ w * c \in Nat
      BY <3>1, <3>3
    <3>5. RowsAt + (w + w * c) = (RowsAt + w) + w * c
      BY <1>1, <3>3, <3>4
    <3> QED  BY <3>1, <3>2, <3>4, <3>5 DEF w
  <2>5. /\ RowLen \in Nat /\ BitsArrived /\ FlagsOf(RowLen, ColumnsOf(r), RowFlagsOf(r))
        /\ Standing(arrived, RowAt(r), FlattenSeq(RowFlagsOf(r)))
    BY <1>1, <2>2, <2>3, <2>4, ColumnFlagsAre
  <2>6. RowAt(r) \in Nat \ {0} /\ \A i \in 1 .. RowLen : ReadBit(RowAt(r) + i - 1) = 1 <=> i \in ColumnsOf(r)
    BY ONLY <2>5, FlagsThere
  <2> SUFFICES ASSUME NEW j \in 0 .. RowLen - 1
               PROVE  ReadBit(RowAt(r) + j) = 1 <=> r * RowLen + j \in inUse
    OBVIOUS
  <2>7. j + 1 \in 1 .. RowLen /\ (j + 1) - 1 = j /\ RowAt(r) + (j + 1) - 1 = RowAt(r) + j
    BY <1>1, <2>6
  <2>8. ReadBit(RowAt(r) + (j + 1) - 1) = 1 <=> j + 1 \in ColumnsOf(r)
    BY <2>6, <2>7
  <2>9. j + 1 \in ColumnsOf(r) <=> r * RowLen + ((j + 1) - 1) \in inUse
    BY <2>7 DEF ColumnsOf
  <2> QED  BY <2>7, <2>8, <2>9
<1>6. ASSUME NEW c \in Bytes PROVE c \in UsedRead <=> c \in inUse
  <2> DEFINE r == c \div RowLen
             j == c % RowLen
  <2>1. r \in 0 .. RowLen - 1 /\ j \in 0 .. RowLen - 1 /\ c = r * RowLen + j
    <3>1. RowLen \in Nat \ {0} /\ c \in 0 .. RowLen * RowLen - 1
      BY <1>1 DEF Bytes
    <3> QED  BY ONLY <3>1, RowAndColumn
  <2> HIDE DEF r, j
  <2>2. c \in inUse => r \in UsedRows
    <3>1. c \in Row(r)
      BY <2>1, RowNumbers DEF Bytes
    <3> QED  BY <2>1, <3>1 DEF UsedRows, RowUsed
  <2>3. c \in UsedRead <=> r \in UsedRows /\ ReadBit(RowAt(r) + j) = 1
    BY <1>4 DEF UsedRead, r, j
  <2>4. r \in UsedRows => (ReadBit(RowAt(r) + j) = 1 <=> c \in inUse)
    BY <1>5, <2>1
  <2> QED  BY <2>2, <2>3, <2>4
<1>7. UsedRead = inUse
  BY <1>6 DEF UsedRead
<1>8. GroupsAt = RowsAt + Len(MapBits)
  <2> DEFINE c == Cardinality(UsedRows)
             w == RowLen
  <2>1. Len(b) = w * c /\ c \in Nat
    <3>1. Len(b) = Offset(RowsBits, RowLen)
      BY RowsBitsType, OffsetSteps
    <3>2. RowLen \in 0 .. RowLen
      BY <1>1
    <3>3. RowsBelow(RowLen) = c
      <4>1. RowLen \in Nat /\ UsedRows \in SUBSET (0 .. RowLen - 1) /\ RowLen \in 1 .. RowLen
        BY <1>1 DEF UsedRows
      <4> QED  BY <4>1, NextBelow DEF RowsBelow
    <3> QED  BY <3>1, <3>2, <3>3, RowsOffset
  <2>2. GroupsAt = RowsAt + w * (1 + c)
    BY <1>4 DEF GroupsAt
  <2>3. w \in Nat
    BY <1>1
  <2> HIDE DEF c, w, b
  <2>4. w * (1 + c) = w + w * c
    BY <2>1, <2>3
  <2> QED  BY <1>3, <2>1, <2>2, <2>4 DEF w
<1> QED  BY <1>7, <1>8

-----------------------------------------------------------------------------
(* The selectors.                                                          *)

\* A repeated sequence, item by item.
LEMMA TimesItems ==
    ASSUME NEW bits \in Seq(Bit01), NEW k \in Nat
    PROVE  /\ Times(bits, k) \in Seq(Bit01) /\ Len(Times(bits, k)) = Len(bits) * k
           /\ \A i \in 1 .. k : \A j \in 1 .. Len(bits) : Times(bits, k)[Len(bits) * (i - 1) + j] = bits[j]
<1> DEFINE f == [i \in 1 .. k |-> bits]
           w == Len(bits)
<1>1. Times(bits, k) = FlattenSeq(f)
  BY DEF Times
<1>2. f \in Seq(Seq(Bit01)) /\ Len(f) = k /\ FlattenSeq(f) \in Seq(Bit01)
  <2>1. k \in Nat /\ f = [i \in 1 .. k |-> f[i]] /\ \A i \in 1 .. k : f[i] \in Seq(Bit01)
    OBVIOUS
  <2> HIDE DEF f
  <2> QED  BY ONLY <2>1, PiecesType
<1>3. w \in Nat /\ \A i \in 1 .. k : f[i] = bits
  OBVIOUS
<1> HIDE DEF f, w
<1>4. (\A i \in 0 .. k : Offset(f, i) = w * i) /\ Len(FlattenSeq(f)) = w * k
  <2>1. \A i \in 1 .. Len(f) : Len(f[i]) = w
    BY <1>2, <1>3 DEF w
  <2>2. (\A i \in 0 .. Len(f) : Offset(f, i) = w * i) /\ Len(FlattenSeq(f)) = w * Len(f)
    BY ONLY <1>2, <1>3, <2>1, EqualParts
  <2> QED  BY <1>2, <2>2
<1>5. ASSUME NEW i \in 1 .. k PROVE \A j \in 1 .. w : FlattenSeq(f)[w * (i - 1) + j] = bits[j]
  <2>1. i \in 1 .. Len(f) /\ i - 1 \in 0 .. k /\ f[i] = bits /\ f \in Seq(Seq(Bit01))
    BY <1>2, <1>3
  <2>2. \A j \in 1 .. Len(f[i]) : FlattenSeq(f)[Offset(f, i - 1) + j] = f[i][j]
    BY ONLY <2>1, PartItems
  <2>3. Offset(f, i - 1) = w * (i - 1)
    BY <1>4, <2>1
  <2> QED  BY <2>1, <2>2, <2>3 DEF w
<1> QED  BY <1>1, <1>2, <1>4, <1>5 DEF w

\* A number in ones, ended by a zero.
LEMMA OnesThenNought ==
    ASSUME NEW j \in Nat
    PROVE  LET u == Append(Times(<< 1 >>, j), 0)
           IN  /\ u \in Seq(Bit01) /\ Len(u) = j + 1 /\ u[j + 1] = 0
               /\ \A i \in 1 .. j : u[i] = 1
<1> DEFINE t == Times(<< 1 >>, j)
<1>1. t \in Seq(Bit01) /\ Len(t) = j /\ \A i \in 1 .. j : t[i] = 1
  <2>1. << 1 >> \in Seq(Bit01) /\ j \in Nat /\ Len(<< 1 >>) = 1 /\ << 1 >>[1] = 1
    BY OneBit
  <2>2. /\ t \in Seq(Bit01) /\ Len(t) = 1 * j
        /\ \A i \in 1 .. j : \A h \in 1 .. 1 : t[1 * (i - 1) + h] = << 1 >>[h]
    <3> DEFINE x == << 1 >>
    <3>1. x \in Seq(Bit01) /\ Len(x) = 1
      BY <2>1
    <3> HIDE DEF x
    <3>2. /\ Times(x, j) \in Seq(Bit01) /\ Len(Times(x, j)) = Len(x) * j
          /\ \A i \in 1 .. j : \A h \in 1 .. Len(x) : Times(x, j)[Len(x) * (i - 1) + h] = x[h]
      BY ONLY <3>1, <2>1, TimesItems
    <3> QED  BY <3>1, <3>2 DEF x
  <2> HIDE DEF t
  <2>3. \A i \in 1 .. j : 1 * (i - 1) + 1 = i /\ 1 \in 1 .. 1
    OBVIOUS
  <2>4. ASSUME NEW i \in 1 .. j PROVE t[i] = 1
    <3>1. t[1 * (i - 1) + 1] = << 1 >>[1]
      BY <2>2, <2>3
    <3> QED  BY <2>1, <2>3, <3>1
  <2> QED  BY <2>2, <2>4
<1> HIDE DEF t
<1>2. 0 \in Bit01
  BY DEF Bit01
<1>3. /\ Append(t, 0) \in Seq(Bit01) /\ Len(Append(t, 0)) = j + 1 /\ Append(t, 0)[j + 1] = 0
      /\ \A i \in 1 .. j : Append(t, 0)[i] = t[i]
  BY <1>1, <1>2, Appended
<1> QED  BY <1>1, <1>3 DEF t

\* It is read back (reader.go:230-236).
LEMMA UnaryBack ==
    ASSUME BitsArrived, NEW p, NEW bound \in Nat, NEW j \in 0 .. bound - 1,
           Standing(arrived, p, Append(Times(<< 1 >>, j), 0))
    PROVE  ReadUnary(p, bound) = [p |-> p + (j + 1), j |-> j, bad |-> FALSE] /\ p \in Nat \ {0}
<1> DEFINE u == Append(Times(<< 1 >>, j), 0)
           zeros == {i \in 0 .. bound - 1 : ReadBit(p + i) = 0}
<1>1. u \in Seq(Bit01) /\ Len(u) = j + 1 /\ u[j + 1] = 0 /\ \A i \in 1 .. j : u[i] = 1
  <2>1. j \in Nat
    OBVIOUS
  <2> QED  BY ONLY <2>1, OnesThenNought
<1>2. Standing(arrived, p, u)
  OBVIOUS
<1>3. ReadUnary(p, bound) = IF zeros = {} THEN [p |-> p + bound, j |-> bound, bad |-> TRUE]
                            ELSE [p |-> p + Min(zeros) + 1, j |-> Min(zeros), bad |-> FALSE]
  BY DEF ReadUnary
<1> HIDE DEF u, zeros
<1>4. p \in Nat \ {0} /\ \A i \in 1 .. Len(u) : ReadBit(p + i - 1) = u[i]
  BY <1>1, <1>2, BitsThere
<1>5. \A i \in 0 .. j : i + 1 \in 1 .. Len(u) /\ p + (i + 1) - 1 = p + i
  BY <1>1, <1>4
<1>6. ReadBit(p + j) = 0
  <2>1. j \in 0 .. j
    OBVIOUS
  <2> QED  BY <1>1, <1>4, <1>5, <2>1
<1>7. \A i \in 0 .. j - 1 : ReadBit(p + i) = 1
  <2> SUFFICES ASSUME NEW i \in 0 .. j - 1 PROVE ReadBit(p + i) = 1
    OBVIOUS
  <2>1. i \in 0 .. j /\ i + 1 \in 1 .. j
    OBVIOUS
  <2> QED  BY <1>1, <1>4, <1>5, <2>1
<1>8. Min(zeros) = j /\ zeros # {}
  <2>1. j \in zeros /\ zeros \in SUBSET Nat
    BY <1>6 DEF zeros
  <2>2. Min(zeros) \in zeros /\ \A y \in zeros : Min(zeros) <= y
    BY <2>1, MinIsLeast
  <2>3. \A y \in zeros : y \in Nat /\ ~(y < j)
    BY <1>7 DEF zeros
  <2>4. Min(zeros) <= j /\ Min(zeros) \in Nat /\ ~(Min(zeros) < j)
    BY <2>1, <2>2, <2>3
  <2> QED  BY <2>1, <2>4
<1>9. p + j + 1 = p + (j + 1)
  BY <1>4
<1> QED  BY <1>3, <1>4, <1>8, <1>9

\* Where the reader of selectors stands behind k of them.
UnaryBits(positions) == [i \in 1 .. Len(positions) |-> Append(Times(<< 1 >>, positions[i]), 0)]
StandsBehind(p, seqs, positions, k) ==
    [p |-> p + Offset(seqs, k), j |-> IF k = 0 THEN 0 ELSE positions[k], bad |-> FALSE]

\* The positions of the selectors are read as they were written.
LEMMA SelectorsBack ==
    ASSUME BitsArrived, FormatAssumption, NEW p, NEW bound \in Nat,
           NEW positions \in Seq(0 .. bound - 1), Len(positions) <= MaxSelectors,
           Standing(arrived, p, FlattenSeq(UnaryBits(positions)))
    PROVE  ReadSelectors(p, Len(positions), bound)
           = [p |-> p + Len(FlattenSeq(UnaryBits(positions))), bad |-> FALSE, selectorMtf |-> positions]
<1> DEFINE n == Len(positions)
           seqs == UnaryBits(positions)
           g == [k \in 0 .. n |-> StandsBehind(p, seqs, positions, k)]
           Is(f) == f = [k \in 0 .. n |->
                            IF k = 0 THEN [p |-> p, j |-> 0, bad |-> FALSE]
                            ELSE LET last == f[k - 1]
                                 IN  IF last.bad THEN last ELSE ReadUnary(last.p, bound)]
           read == CHOOSE f : Is(f)
<1>1. n \in Nat /\ (\A i \in 1 .. n : positions[i] \in 0 .. bound - 1) /\ positions = [i \in 1 .. n |-> positions[i]]
  OBVIOUS
<1>2. ASSUME NEW i \in 1 .. n
      PROVE  seqs[i] = Append(Times(<< 1 >>, positions[i]), 0) /\ seqs[i] \in Seq(Bit01)
             /\ Len(seqs[i]) = positions[i] + 1
  <2>1. seqs[i] = Append(Times(<< 1 >>, positions[i]), 0)
    BY DEF UnaryBits
  <2>2. positions[i] \in Nat
    BY <1>1
  <2>3. /\ Append(Times(<< 1 >>, positions[i]), 0) \in Seq(Bit01)
        /\ Len(Append(Times(<< 1 >>, positions[i]), 0)) = positions[i] + 1
    BY ONLY <2>2, OnesThenNought
  <2> QED  BY <2>1, <2>3
<1>3. seqs = [i \in 1 .. n |-> seqs[i]]
  BY DEF UnaryBits
<1>4. Standing(arrived, p, FlattenSeq(seqs)) /\ arrived \in Seq(Bit01) /\ p \in Nat \ {0}
  BY DEF BitsArrived, Bit01, Standing
<1>5. ReadSelectors(p, n, bound)
      = [p |-> read[n].p, bad |-> read[n].bad,
         selectorMtf |-> [k \in 1 .. Min({n, MaxSelectors}) |-> read[k].j]]
  BY DEF ReadSelectors
<1> HIDE DEF n, seqs
<1>6. seqs \in Seq(Seq(Bit01)) /\ Len(seqs) = n
  <2>1. n \in Nat /\ seqs = [i \in 1 .. n |-> seqs[i]] /\ \A i \in 1 .. n : seqs[i] \in Seq(Bit01)
    BY <1>1, <1>2, <1>3
  <2> QED  BY ONLY <2>1, PiecesType
<1>7. /\ Offset(seqs, 0) = 0 /\ Offset(seqs, n) = Len(FlattenSeq(seqs))
      /\ \A k \in 0 .. n : Offset(seqs, k) \in Nat
      /\ \A k \in 1 .. n : Offset(seqs, k) = Offset(seqs, k - 1) + Len(seqs[k])
  BY <1>6, OffsetSteps
<1>8. ASSUME NEW k \in 1 .. n
      PROVE  g[k] = ReadUnary(g[k - 1].p, bound) /\ g[k - 1].bad = FALSE
  <2>1. k - 1 \in 0 .. n /\ k \in 0 .. n /\ k # 0 /\ k \in 1 .. Len(seqs)
    BY <1>1, <1>6, SMTT(30)
  <2>2. Standing(arrived, p + Offset(seqs, k - 1), Append(Times(<< 1 >>, positions[k]), 0))
    <3>1. arrived \in Seq(Bit01) /\ seqs \in Seq(Seq(Bit01)) /\ k \in 1 .. Len(seqs)
          /\ Standing(arrived, p, FlattenSeq(seqs))
      BY <1>4, <1>6, <2>1
    <3>2. Standing(arrived, p + Offset(seqs, k - 1), seqs[k])
      BY ONLY <3>1, StandingEach
    <3> QED  BY <1>2, <3>2
  <2>3. ReadUnary(p + Offset(seqs, k - 1), bound)
        = [p |-> (p + Offset(seqs, k - 1)) + (positions[k] + 1), j |-> positions[k], bad |-> FALSE]
    <3>1. BitsArrived /\ bound \in Nat /\ positions[k] \in 0 .. bound - 1
      BY <1>1
    <3> QED  BY ONLY <2>2, <3>1, UnaryBack
  <2>4. (p + Offset(seqs, k - 1)) + (positions[k] + 1) = p + Offset(seqs, k)
    <3>1. /\ Offset(seqs, k) = Offset(seqs, k - 1) + (positions[k] + 1)
          /\ Offset(seqs, k - 1) \in Nat /\ positions[k] \in Nat
      BY <1>1, <1>2, <1>7, <2>1
    <3> QED  BY <1>4, <3>1, SMTT(30)
  <2> QED  BY <2>1, <2>3, <2>4 DEF StandsBehind
<1>9. g[0] = [p |-> p, j |-> 0, bad |-> FALSE]
  <2>1. 0 \in 0 .. n /\ p + 0 = p
    BY <1>1, <1>4
  <2> QED  BY <1>7, <2>1 DEF StandsBehind
<1>10. Is(g)
  <2>1. \A k \in 0 .. n : k = 0 \/ k \in 1 .. n
    BY <1>1
  <2>2. g = [k \in 0 .. n |-> g[k]]
    OBVIOUS
  <2> HIDE DEF g
  <2> QED  BY <1>8, <1>9, <2>1, <2>2
<1>11. Is(read)
  <2> HIDE DEF Is, g
  <2> QED  BY <1>10
<1> HIDE DEF read
<1>12. \A k \in 0 .. n : read[k] = g[k]
  <2>1. /\ read[0] = [p |-> p, j |-> 0, bad |-> FALSE]
        /\ \A k \in 1 .. n : read[k] = IF read[k - 1].bad THEN read[k - 1] ELSE ReadUnary(read[k - 1].p, bound)
    <3>1. 0 \in 0 .. n /\ \A k \in 1 .. n : k \in 0 .. n /\ k # 0
      BY <1>1
    <3> HIDE DEF g
    <3> QED  BY <1>11, <3>1
  <2> HIDE DEF g, Is
  <2>2. StepAlike(n, read, g)
    BY <1>8, <1>9, <2>1 DEF StepAlike
  <2> QED  BY <1>1, <2>2, RecursionSame
<1> HIDE DEF Is
<1>13. ASSUME NEW k \in 0 .. n
       PROVE  g[k].p = p + Offset(seqs, k) /\ g[k].bad = FALSE /\ (k # 0 => g[k].j = positions[k])
  BY DEF StandsBehind
<1> HIDE DEF g
<1>14. Min({n, MaxSelectors}) = n
  <2>1. MaxSelectors \in Nat /\ n <= MaxSelectors
    BY DEF FormatAssumption, n
  <2>2. n \in Nat /\ MaxSelectors \in Nat
    BY <1>1, <2>1
  <2>3. Min({n, MaxSelectors}) \in {n, MaxSelectors} /\ Min({n, MaxSelectors}) <= MaxSelectors
        /\ Min({n, MaxSelectors}) <= n
    BY ONLY <2>2, MinOfTwo
  <2> QED  BY ONLY <2>1, <2>2, <2>3
<1>15. read[n].p = p + Len(FlattenSeq(seqs)) /\ read[n].bad = FALSE
  <2>1. n \in 0 .. n
    BY <1>1
  <2>2. read[n] = g[n] /\ g[n].p = p + Offset(seqs, n) /\ g[n].bad = FALSE
    BY <1>12, <1>13, <2>1
  <2> QED  BY <1>7, <2>2
<1>16. [k \in 1 .. n |-> read[k].j] = positions
  <2>1. ASSUME NEW k \in 1 .. n PROVE read[k].j = positions[k]
    <3>1. k \in 0 .. n /\ k # 0
      BY <1>1
    <3>2. read[k] = g[k] /\ g[k].j = positions[k]
      BY <1>12, <1>13, <3>1
    <3> QED  BY ONLY <3>2
  <2> QED  BY <1>1, <2>1
<1> QED  BY <1>5, <1>14, <1>15, <1>16 DEF n, seqs

-----------------------------------------------------------------------------
(* The header as a whole.                                                  *)

\* The fields behind the alphabet as ReadHeader finds them.
GroupsRead == ReadBits(GroupsAt, 3)
CountRead == ReadBits(GroupsAt + 3, SelBits)
SelectorsRead == ReadSelectors(GroupsAt + 3 + SelBits, CountRead, GroupsRead)
HeaderBad ==
    \/ PastEnd(GroupsAt) \/ UsedRead = {}
    \/ GroupsRead \notin 2 .. NGroups \/ CountRead < 1
    \/ SelectorsRead.bad \/ PastEnd(SelectorsRead.p)

\* What ReadHeader takes in when it finds nothing wrong.
LEMMA HeaderIs ==
    ASSUME ReadHeader, ~HeaderBad
    PROVE  /\ head' = [origPtr |-> ReadBits(1, PtrBits), seqToUnseq |-> SeqToUnseq(UsedRead),
                       nInUse |-> Cardinality(UsedRead), numGroups |-> GroupsRead,
                       selector |-> MTFDecode(SelectorsRead.selectorMtf, GroupsRead)]
           /\ pos' = SelectorsRead.p /\ list' = InitialList(A) /\ reader' = "tables"
           /\ UNCHANGED << arrived, decode, group, run, tt >>
BY DEF ReadHeader, HeaderBad, GroupsRead, CountRead, SelectorsRead, GroupsAt, UsedRead, RowsRead,
       RowAt, RowsAt, Below

\* What stands in the stream does not end behind it.
LEMMA StandsWithin ==
    ASSUME BitsArrived, NEW p, NEW bits \in Seq(Bit01), Standing(arrived, p, bits)
    PROVE  p \in Nat \ {0} /\ ~PastEnd(p) /\ ~PastEnd(p + Len(bits))
<1>1. p \in Nat \ {0} /\ Len(bits) \in Nat /\ ~PastEnd(p + Len(bits)) /\ Len(arrived) \in Nat
  BY BitsThere DEF BitsArrived
<1> QED  BY <1>1 DEF PastEnd

\* The header of a block as its reader should understand it.
RightHead ==
    [origPtr |-> OrigPtr, seqToUnseq |-> SeqToUnseq(inUse), nInUse |-> nInUse,
     numGroups |-> Cardinality(Tables), selector |-> selector]
PositionsWritten == MTFEncode(selector, Cardinality(Tables))

\* The fields of the tables' number, of the selectors' number and of the selectors.
LEMMA SelectorBitsAre ==
    ASSUME ReadyToWrite
    PROVE  /\ PositionsWritten \in Seq(0 .. Cardinality(Tables) - 1)
           /\ Len(PositionsWritten) = Len(selector)
           /\ MTFDecode(PositionsWritten, Cardinality(Tables)) = selector
           /\ SelectorBits = Bits(3, Cardinality(Tables)) \o Bits(SelBits, Len(selector))
                             \o FlattenSeq(UnaryBits(PositionsWritten))
           /\ Cardinality(Tables) \in 2 .. NGroups /\ Cardinality(Tables) < Pow2[3]
           /\ Cardinality(Tables) \in Nat /\ NGroups \in 2 .. 7
           /\ Len(selector) \in 1 .. MaxSelectors /\ Len(selector) < Pow2[SelBits]
           /\ SelBits \in Nat /\ MaxSelectors \in Nat
<1> DEFINE C == Cardinality(Tables)
           P == PositionsWritten
<1>1. Tables = 0 .. C - 1 /\ C \in 2 .. NGroups /\ NGroups \in 2 .. 7 /\ C \in Nat \ {0}
  <2>1. mtfv \in Seq(Symbols)
    BY ReadySizes
  <2> QED  BY <2>1, TablesAre
<1>2. selector \in Seq(0 .. C - 1)
  <2> HIDE DEF C
  <2> QED  BY <1>1 DEF ReadyToWrite
<1>3. P \in Seq(0 .. C - 1) /\ MTFDecode(P, C) = selector
  <2> HIDE DEF C
  <2>1. C \in Nat \ {0} /\ selector \in Seq(0 .. C - 1)
    BY <1>1, <1>2
  <2>2. P = MTFEncode(selector, C)
    BY DEF PositionsWritten, C
  <2>3. MTFEncode(selector, C) \in Seq(0 .. C - 1) /\ MTFDecode(MTFEncode(selector, C), C) = selector
    BY ONLY <2>1, SelectorsDecode
  <2> QED  BY <2>2, <2>3
<1>4. Len(P) = Len(selector)
  <2> HIDE DEF C, P
  <2>1. Len(MTFDecode(P, C)) = Len(P)
    BY <1>1, <1>3, MTFDecodeType
  <2> QED  BY <1>3, <2>1
<1>5. SelectorBits = Bits(3, C) \o Bits(SelBits, Len(selector)) \o FlattenSeq(UnaryBits(P))
  <2>1. UnaryBits(P) = [i \in 1 .. Len(selector) |-> Append(Times(<< 1 >>, P[i]), 0)]
    BY <1>4 DEF UnaryBits
  <2>2. \A i \in 1 .. Len(selector) : (i - 1) + 1 = i
    OBVIOUS
  <2>3. [i \in 1 .. Len(selector) |-> Append(Times(<< 1 >>, P[(i - 1) + 1]), 0)]
        = [i \in 1 .. Len(selector) |-> Append(Times(<< 1 >>, P[i]), 0)]
    BY <2>2
  <2> QED  BY <2>1, <2>3 DEF SelectorBits, Concat, PositionsWritten
<1>6. C < Pow2[3]
  <2>1. Pow2[1] = 2 * Pow2[0] /\ Pow2[2] = 2 * Pow2[1] /\ Pow2[3] = 2 * Pow2[2] /\ Pow2[0] = 1
    <3>1. 1 - 1 = 0 /\ 2 - 1 = 1 /\ 3 - 1 = 2
      OBVIOUS
    <3> QED  BY <3>1, Pow2Steps
  <2> HIDE DEF C
  <2> QED  BY <1>1, <2>1
<1>7. Len(selector) \in 1 .. MaxSelectors /\ Len(selector) < Pow2[SelBits]
      /\ SelBits \in Nat /\ MaxSelectors \in Nat
  <2>1. Len(mtfv) \in 1 .. MaxBlock + 1 /\ Len(selector) = NumberOfGroups
    BY ReadySizes DEF ReadyToWrite
  <2>2. /\ (Len(mtfv) + GroupSize - 1) \div GroupSize \in 1 .. MaxSelectors
        /\ MaxSelectors \in Nat /\ MaxSelectors < Pow2[SelBits]
    BY <2>1, GroupsFew
  <2>3. SelBits \in Nat /\ Pow2[SelBits] \in Nat
    BY FormatAssumption, Pow2Steps DEF FormatAssumption
  <2>4. NumberOfGroups \in 1 .. MaxSelectors
    BY <2>2 DEF NumberOfGroups
  <2> QED  BY ONLY <2>1, <2>2, <2>3, <2>4
<1> QED  BY <1>1, <1>3, <1>4, <1>5, <1>6, <1>7

\* Where the fields of a block stand, and that they are there.
SelsAt == RowsAt + Len(MapBits)
TablesAt == SelsAt + Len(SelectorBits)
DataAt == TablesAt + Len(TablesBits)
FieldsStand ==
    /\ Standing(arrived, 1, Bits(PtrBits, OrigPtr)) /\ Standing(arrived, RowsAt, MapBits)
    /\ Standing(arrived, SelsAt, SelectorBits)
    /\ Standing(arrived, TablesAt, TablesBits) /\ Standing(arrived, DataAt, DataBits)

\* The place of the block among its rotations fits its field.
LEMMA PointerWritten ==
    ASSUME ReadyToWrite
    PROVE  OrigPtr \in Nat /\ OrigPtr < Pow2[PtrBits] /\ PtrBits \in Nat
<1>1. OrigPtr \in Nat /\ OrigPtr < nblock /\ nblock \in 1 .. MaxBlock
  BY OrigPtrFound DEF ReadyToWrite
<1>2. MaxBlock \in Nat /\ MaxBlock <= Pow2[PtrBits] /\ PtrBits \in Nat
  BY ReaderAssumption, RoundTripAssumption, FormatAssumption
  DEF ReaderAssumption, RoundTripAssumption, FormatAssumption
<1>3. Pow2[PtrBits] \in Nat
  BY <1>2, Pow2Steps
<1> QED  BY <1>1, <1>2, <1>3

\* In a block that arrived as it was written each field stands where the last one ends.
LEMMA FieldsArrive ==
    ASSUME BitsArrived, ReadyToWrite, arrived = BlockBits
    PROVE  FieldsStand
<1> DEFINE a == Bits(PtrBits, OrigPtr)
           b == MapBits
           c == SelectorBits
           d == TablesBits
           e == DataBits
<1>1. a \in Seq(Bit01) /\ Len(a) = PtrBits
  BY PointerWritten, BitsType
<1>2. b \in Seq(Bit01) /\ c \in Seq(Bit01) /\ d \in Seq(Bit01) /\ e \in Seq(Bit01)
  <2>1. b \in Seq(Bit01)
    BY FormatAssumption, MapType DEF FormatAssumption
  <2>2. c \in Seq(Bit01)
    BY ReadySizes, SelectorsBits DEF ReadyToWrite
  <2> QED  BY <2>1, <2>2, TablesBitsType, DataBitsType
<1>3. arrived = a \o b \o c \o d \o e /\ arrived \in Seq(Bit01)
  BY BlockBitsType
<1> HIDE DEF a, b, c, d, e
<1>4. a \o b \in Seq(Bit01) /\ a \o b \o c \in Seq(Bit01) /\ a \o b \o c \o d \in Seq(Bit01)
      /\ Len(a \o b) = Len(a) + Len(b) /\ Len(a \o b \o c) = Len(a \o b) + Len(c)
      /\ Len(a \o b \o c \o d) = Len(a \o b \o c) + Len(d)
  <2>1. a \o b \in Seq(Bit01) /\ Len(a \o b) = Len(a) + Len(b)
    BY <1>1, <1>2, Then
  <2>2. a \o b \o c \in Seq(Bit01) /\ Len(a \o b \o c) = Len(a \o b) + Len(c)
    BY <1>2, <2>1, Then
  <2>3. a \o b \o c \o d \in Seq(Bit01) /\ Len(a \o b \o c \o d) = Len(a \o b \o c) + Len(d)
    BY <1>2, <2>2, Then
  <2> QED  BY <2>1, <2>2, <2>3
<1>5. Standing(arrived, 1, a \o b \o c \o d \o e)
  BY <1>3, StandingWhole
<1>6. Standing(arrived, 1, a \o b \o c \o d) /\ Standing(arrived, 1 + Len(a \o b \o c \o d), e)
  BY <1>2, <1>3, <1>4, <1>5, StandingParts
<1>7. Standing(arrived, 1, a \o b \o c) /\ Standing(arrived, 1 + Len(a \o b \o c), d)
  BY <1>2, <1>3, <1>4, <1>6, StandingParts
<1>8. Standing(arrived, 1, a \o b) /\ Standing(arrived, 1 + Len(a \o b), c)
  BY <1>2, <1>3, <1>4, <1>7, StandingParts
<1>9. Standing(arrived, 1, a) /\ Standing(arrived, 1 + Len(a), b)
  BY <1>1, <1>2, <1>3, <1>8, StandingParts
<1>10. /\ RowsAt = 1 + Len(a) /\ SelsAt = RowsAt + Len(b) /\ TablesAt = SelsAt + Len(c)
       /\ DataAt = TablesAt + Len(d)
  BY <1>1 DEF RowsAt, SelsAt, TablesAt, DataAt, b, c, d
<1>11. Len(a) \in Nat /\ Len(b) \in Nat /\ Len(c) \in Nat /\ Len(d) \in Nat
  BY <1>1, <1>2
<1>12. /\ SelsAt = 1 + Len(a \o b) /\ TablesAt = 1 + Len(a \o b \o c)
       /\ DataAt = 1 + Len(a \o b \o c \o d)
  BY <1>4, <1>10, <1>11
<1> QED  BY <1>6, <1>7, <1>8, <1>9, <1>10, <1>12 DEF FieldsStand, a, b, c, d, e

\* The header of a block that arrives whole is taken for what it is.
LEMMA HeaderArrives ==
    ASSUME BitsArrived, ReadyToWrite, FieldsStand, ReadHeader
    PROVE  /\ head' = RightHead /\ pos' = TablesAt /\ list' = InitialList(A) /\ reader' = "tables"
           /\ UNCHANGED << arrived, decode, group, run, tt >>
<1> DEFINE C == Cardinality(Tables)
           L == Len(selector)
           P == PositionsWritten
           u == FlattenSeq(UnaryBits(P))
<1>1. /\ inUse \in SUBSET Bytes /\ inUse # {}
  <2>1. inUse \in SUBSET Bytes /\ nInUse \in 1 .. A /\ A \in Nat
    BY BlockSizes, FormatAssumption, ReaderAssumption DEF ReadyToWrite, SortKept
  <2>2. inUse # {}
    BY <2>1, FS_EmptySet DEF nInUse
  <2> QED  BY <2>1, <2>2
<1>2. UsedRead = inUse /\ GroupsAt = SelsAt
  BY <1>1, MapRead, FormatAssumption DEF FieldsStand, SelsAt
<1>3. ReadBits(1, PtrBits) = OrigPtr
  <2>1. /\ PtrBits \in Nat /\ OrigPtr \in Nat /\ OrigPtr < Pow2[PtrBits]
        /\ Standing(arrived, 1, Bits(PtrBits, OrigPtr))
    BY PointerWritten DEF FieldsStand
  <2> QED  BY <2>1, ReadBack
<1>4. /\ P \in Seq(0 .. C - 1) /\ Len(P) = L /\ MTFDecode(P, C) = selector
      /\ SelectorBits = Bits(3, C) \o Bits(SelBits, L) \o u
      /\ C \in 2 .. NGroups /\ C < Pow2[3] /\ C \in Nat /\ NGroups \in 2 .. 7
      /\ L \in 1 .. MaxSelectors /\ L < Pow2[SelBits] /\ SelBits \in Nat /\ MaxSelectors \in Nat
  BY SelectorBitsAre
<1>5. u \in Seq(Bit01) /\ Bits(3, C) \in Seq(Bit01) /\ Bits(SelBits, L) \in Seq(Bit01)
      /\ Len(Bits(3, C)) = 3 /\ Len(Bits(SelBits, L)) = SelBits /\ L \in Nat
  <2> HIDE DEF C, L, P
  <2>1. ASSUME NEW i \in 1 .. Len(P) PROVE UnaryBits(P)[i] \in Seq(Bit01)
    <3>1. P[i] \in Nat /\ UnaryBits(P)[i] = Append(Times(<< 1 >>, P[i]), 0)
      BY <1>4, SMTT(30) DEF UnaryBits
    <3>2. Append(Times(<< 1 >>, P[i]), 0) \in Seq(Bit01)
      BY ONLY <3>1, OnesThenNought
    <3> QED  BY <3>1, <3>2
  <2>2. UnaryBits(P) = [i \in 1 .. Len(P) |-> UnaryBits(P)[i]]
    BY DEF UnaryBits
  <2>3. Len(P) \in Nat /\ \A i \in 1 .. Len(P) : UnaryBits(P)[i] \in Seq(Bit01)
    BY <1>4, <2>1
  <2>4. FlattenSeq(UnaryBits(P)) \in Seq(Bit01)
    BY ONLY <2>2, <2>3, PiecesType
  <2>5. L \in Nat /\ 3 \in Nat
    BY <1>4
  <2>6. Bits(3, C) \in Seq(Bit01) /\ Len(Bits(3, C)) = 3
    BY <1>4, BitsType
  <2>7. Bits(SelBits, L) \in Seq(Bit01) /\ Len(Bits(SelBits, L)) = SelBits
    BY <1>4, <2>5, BitsType
  <2> QED  BY <2>4, <2>5, <2>6, <2>7
<1> HIDE DEF C, L, P, u
<1>6. /\ Standing(arrived, SelsAt, Bits(3, C)) /\ Standing(arrived, SelsAt + 3, Bits(SelBits, L))
      /\ Standing(arrived, SelsAt + 3 + SelBits, u)
      /\ SelsAt \in Nat \ {0} /\ TablesAt = SelsAt + 3 + SelBits + Len(u) /\ ~PastEnd(TablesAt)
      /\ ~PastEnd(SelsAt)
  <2> DEFINE x == Bits(3, C)
             y == Bits(SelBits, L)
  <2>1. /\ x \in Seq(Bit01) /\ Len(x) = 3 /\ y \in Seq(Bit01) /\ Len(y) = SelBits
        /\ Standing(arrived, SelsAt, x \o y \o u) /\ arrived \in Seq(Bit01)
    BY <1>4, <1>5 DEF FieldsStand, BitsArrived, Bit01
  <2>0. SelectorBits = x \o y \o u
    BY <1>4
  <2> HIDE DEF x, y
  <2>2. x \o y \in Seq(Bit01) /\ Len(x \o y) = 3 + SelBits
    BY <2>1, Then
  <2>3. Standing(arrived, SelsAt, x \o y) /\ Standing(arrived, SelsAt + Len(x \o y), u)
    BY <1>5, <2>1, <2>2, StandingParts
  <2>4. Standing(arrived, SelsAt, x) /\ Standing(arrived, SelsAt + Len(x), y)
    BY <2>1, <2>3, StandingParts
  <2>5. x \o y \o u \in Seq(Bit01) /\ Len(x \o y \o u) = 3 + SelBits + Len(u) /\ Len(u) \in Nat
    <3>1. x \o y \o u \in Seq(Bit01) /\ Len(x \o y \o u) = Len(x \o y) + Len(u)
      BY <1>5, <2>2, Then
    <3> QED  BY <1>5, <2>2, <3>1
  <2>6. SelsAt \in Nat \ {0} /\ ~PastEnd(SelsAt) /\ ~PastEnd(SelsAt + Len(x \o y \o u))
    BY <2>1, <2>5, StandsWithin
  <2>7. /\ SelsAt + (3 + SelBits) = SelsAt + 3 + SelBits
        /\ SelsAt + (3 + SelBits + Len(u)) = SelsAt + 3 + SelBits + Len(u)
    BY <1>4, <2>5, <2>6
  <2>8. TablesAt = SelsAt + 3 + SelBits + Len(u)
    BY <2>0, <2>5, <2>7 DEF TablesAt
  <2> QED  BY <2>1, <2>2, <2>3, <2>4, <2>5, <2>6, <2>7, <2>8 DEF x, y
<1>7. GroupsRead = C
  <2>1. 3 \in Nat /\ C \in Nat /\ C < Pow2[3] /\ Standing(arrived, SelsAt, Bits(3, C))
    BY <1>4, <1>6
  <2>2. ReadBits(SelsAt, 3) = C
    BY <2>1, ReadBack
  <2> QED  BY <1>2, <2>2 DEF GroupsRead
<1>8. CountRead = L
  <2>1. L \in Nat /\ L < Pow2[SelBits] /\ SelBits \in Nat /\ Standing(arrived, SelsAt + 3, Bits(SelBits, L))
    BY <1>4, <1>6
  <2>2. ReadBits(SelsAt + 3, SelBits) = L
    BY <2>1, ReadBack
  <2> QED  BY <1>2, <2>2 DEF CountRead
<1>9. SelectorsRead = [p |-> TablesAt, bad |-> FALSE, selectorMtf |-> P]
  <2>1. /\ C \in Nat /\ P \in Seq(0 .. C - 1) /\ Len(P) <= MaxSelectors /\ BitsArrived
        /\ FormatAssumption /\ Standing(arrived, SelsAt + 3 + SelBits, FlattenSeq(UnaryBits(P)))
    BY <1>4, <1>6, FormatAssumption DEF u
  <2>2. ReadSelectors(SelsAt + 3 + SelBits, Len(P), C)
        = [p |-> (SelsAt + 3 + SelBits) + Len(FlattenSeq(UnaryBits(P))), bad |-> FALSE, selectorMtf |-> P]
    BY ONLY <2>1, SelectorsBack
  <2> QED  BY <1>2, <1>4, <1>6, <1>7, <1>8, <2>2 DEF SelectorsRead, u
<1>10. ~HeaderBad
  BY <1>1, <1>2, <1>4, <1>6, <1>7, <1>8, <1>9 DEF HeaderBad
<1>11. /\ head' = [origPtr |-> OrigPtr, seqToUnseq |-> SeqToUnseq(inUse), nInUse |-> Cardinality(inUse),
                   numGroups |-> C, selector |-> selector]
       /\ pos' = TablesAt /\ list' = InitialList(A) /\ reader' = "tables"
       /\ UNCHANGED << arrived, decode, group, run, tt >>
  BY <1>2, <1>3, <1>4, <1>7, <1>9, <1>10, HeaderIs
<1> QED  BY <1>11 DEF RightHead, C, nInUse

-----------------------------------------------------------------------------
(* The tables.                                                             *)

\* Pairs of bits, ended by a zero.
LEMMA PairsThenNought ==
    ASSUME NEW d \in Nat, NEW e \in Bit01
    PROVE  LET u == Append(Times(<< 1, e >>, d), 0)
           IN  /\ u \in Seq(Bit01) /\ Len(u) = 2 * d + 1 /\ u[2 * d + 1] = 0
               /\ \A i \in 0 .. d - 1 : u[2 * i + 1] = 1 /\ u[2 * i + 2] = e
<1> DEFINE x == << 1, e >>
           t == Times(x, d)
<1>1. x \in Seq(Bit01) /\ Len(x) = 2 /\ x[1] = 1 /\ x[2] = e /\ 0 \in Bit01
  BY DEF Bit01
<1> HIDE DEF x
<1>2. /\ t \in Seq(Bit01) /\ Len(t) = Len(x) * d
      /\ \A i \in 1 .. d : \A j \in 1 .. Len(x) : t[Len(x) * (i - 1) + j] = x[j]
  BY <1>1, TimesItems
<1> HIDE DEF t
<1>3. Len(t) = 2 * d /\ Len(t) \in Nat
  BY <1>1, <1>2
<1>4. ASSUME NEW i \in 0 .. d - 1
      PROVE  /\ t[2 * i + 1] = 1 /\ t[2 * i + 2] = e
             /\ 2 * i + 1 \in 1 .. Len(t) /\ 2 * i + 2 \in 1 .. Len(t)
  <2>1. i + 1 \in 1 .. d /\ (i + 1) - 1 = i /\ 1 \in 1 .. Len(x) /\ 2 \in 1 .. Len(x)
    BY <1>1
  <2>2. t[Len(x) * ((i + 1) - 1) + 1] = x[1] /\ t[Len(x) * ((i + 1) - 1) + 2] = x[2]
    BY <1>2, <2>1
  <2>3. Len(x) * ((i + 1) - 1) = 2 * i
    BY <1>1, <2>1
  <2>4. 2 * i + 1 \in 1 .. Len(t) /\ 2 * i + 2 \in 1 .. Len(t)
    BY <1>3
  <2> QED  BY <1>1, <2>2, <2>3, <2>4
<1>5. /\ Append(t, 0) \in Seq(Bit01) /\ Len(Append(t, 0)) = Len(t) + 1 /\ Append(t, 0)[Len(t) + 1] = 0
      /\ \A i \in 1 .. Len(t) : Append(t, 0)[i] = t[i]
  BY <1>1, <1>2, Appended
<1>6. \A i \in 0 .. d - 1 : Append(t, 0)[2 * i + 1] = 1 /\ Append(t, 0)[2 * i + 2] = e
  BY <1>4, <1>5
<1> QED  BY <1>3, <1>5, <1>6 DEF t, x

\* Steps up or down, in the direction e, are followed.
Stepped(from, e, k) == IF e = 1 THEN from - k ELSE from + k

\* As many steps as were written lead from one length to the next (reader.go:271-285).
LEMMA StepsBack ==
    ASSUME BitsArrived, NEW p, NEW d \in Nat, NEW e \in Bit01, NEW from \in Nat,
           Standing(arrived, p, Append(Times(<< 1, e >>, d), 0)),
           \A k \in 0 .. d : Stepped(from, e, k) \in 1 .. Longest
    PROVE  ReadLength(p, from) = [p |-> p + (2 * d + 1), curr |-> Stepped(from, e, d), bad |-> FALSE]
<1> DEFINE u == Append(Times(<< 1, e >>, d), 0)
           zeros == {k \in 0 .. Len(arrived) : ReadBit(p + 2 * k) = 0}
           downs(k) == Cardinality({j \in 0 .. k - 1 : ReadBit(p + 2 * j + 1) = 1})
           curr(k) == from + k - 2 * downs(k)
           last == Min(zeros)
<1>1. /\ u \in Seq(Bit01) /\ Len(u) = 2 * d + 1 /\ u[2 * d + 1] = 0
      /\ \A i \in 0 .. d - 1 : u[2 * i + 1] = 1 /\ u[2 * i + 2] = e
  BY PairsThenNought
<1>2. Standing(arrived, p, u)
  OBVIOUS
<1>3. ReadLength(p, from) = [p |-> p + 2 * last + 1, curr |-> curr(last),
                             bad |-> \E k \in 0 .. last : curr(k) \notin 1 .. Longest]
  BY DEF ReadLength
<1> HIDE DEF u, zeros, curr, last
<1>4. p \in Nat \ {0} /\ (\A i \in 1 .. Len(u) : ReadBit(p + i - 1) = u[i])
      /\ Len(arrived) \in Nat /\ p + Len(u) <= Len(arrived) + 1
  <2>1. p \in Nat \ {0} /\ (\A i \in 1 .. Len(u) : ReadBit(p + i - 1) = u[i])
    BY <1>1, <1>2, BitsThere
  <2> QED  BY <1>2, <2>1 DEF BitsArrived, Standing
<1>5. ASSUME NEW i \in 0 .. d - 1 PROVE ReadBit(p + 2 * i) = 1 /\ ReadBit(p + 2 * i + 1) = e
  <2>1. /\ 2 * i + 1 \in 1 .. Len(u) /\ 2 * i + 2 \in 1 .. Len(u)
        /\ p + (2 * i + 1) - 1 = p + 2 * i /\ p + (2 * i + 2) - 1 = p + 2 * i + 1
    BY <1>1, <1>4
  <2>2. ReadBit(p + (2 * i + 1) - 1) = u[2 * i + 1] /\ ReadBit(p + (2 * i + 2) - 1) = u[2 * i + 2]
    BY <1>4, <2>1
  <2> QED  BY <1>1, <2>1, <2>2
<1>6. ReadBit(p + 2 * d) = 0
  <2>1. 2 * d + 1 \in 1 .. Len(u) /\ p + (2 * d + 1) - 1 = p + 2 * d
    BY <1>1, <1>4
  <2>2. ReadBit(p + (2 * d + 1) - 1) = u[2 * d + 1]
    BY <1>4, <2>1
  <2> QED  BY <1>1, <2>1, <2>2
<1>7. last = d
  <2>1. d \in zeros /\ zeros \in SUBSET Nat
    BY <1>1, <1>4, <1>6 DEF zeros
  <2>2. last \in zeros /\ \A y \in zeros : last <= y
    BY <2>1, MinIsLeast DEF last
  <2>3. last \in Nat /\ last <= d
    BY <2>1, <2>2
  <2>4. ASSUME last < d PROVE FALSE
    <3>1. last \in 0 .. d - 1
      BY <2>3, <2>4
    <3>2. ReadBit(p + 2 * last) = 1
      BY <1>5, <3>1
    <3>3. ReadBit(p + 2 * last) = 0
      BY <2>2 DEF zeros
    <3> QED  BY <3>2, <3>3
  <2> QED  BY <2>3, <2>4
<1>8. ASSUME NEW k \in 0 .. d PROVE curr(k) = Stepped(from, e, k)
  <2>1. \A j \in 0 .. k - 1 : ReadBit(p + 2 * j + 1) = e
    <3>1. \A j \in 0 .. k - 1 : j \in 0 .. d - 1
      OBVIOUS
    <3> QED  BY <1>5, <3>1
  <2>2. CASE e = 1
    <3>1. {j \in 0 .. k - 1 : ReadBit(p + 2 * j + 1) = 1} = 0 .. k - 1
      BY <2>1, <2>2
    <3>2. downs(k) = k
      <4>1. k \in Nat
        OBVIOUS
      <4> QED  BY <3>1, <4>1, SetOfSymbols
    <3> HIDE DEF downs
    <3>3. from + k - 2 * k = from - k
      OBVIOUS
    <3> QED  BY <2>2, <3>2, <3>3 DEF Stepped, curr
  <2>3. CASE e # 1
    <3>1. {j \in 0 .. k - 1 : ReadBit(p + 2 * j + 1) = 1} = {}
      BY <2>1, <2>3
    <3>2. downs(k) = 0
      BY <3>1, FS_EmptySet
    <3> HIDE DEF downs
    <3>3. from + k - 2 * 0 = from + k
      OBVIOUS
    <3> QED  BY <2>3, <3>2, <3>3 DEF Stepped, curr
  <2> QED  BY <2>2, <2>3
<1> HIDE DEF downs
<1>9. curr(d) = Stepped(from, e, d) /\ ~\E k \in 0 .. d : curr(k) \notin 1 .. Longest
  BY <1>8
<1>10. p + 2 * d + 1 = p + (2 * d + 1)
  BY <1>4
<1> QED  BY <1>3, <1>7, <1>9, <1>10

\* A code length is read as it was written.
LEMMA LengthBack ==
    ASSUME BitsArrived, ReaderAssumption, NEW p, NEW from \in 1 .. Longest, NEW to \in 1 .. Longest,
           Standing(arrived, p, LengthBits(from, to))
    PROVE  /\ ReadLength(p, from) = [p |-> p + Len(LengthBits(from, to)), curr |-> to, bad |-> FALSE]
           /\ LengthBits(from, to) \in Seq(Bit01)
<1>1. Longest \in Nat /\ from \in Nat /\ to \in Nat
  BY DEF ReaderAssumption
<1>2. CASE from < to
  <2> DEFINE d == to - from
             u == Append(Times(<< 1, 0 >>, d), 0)
  <2>1. d \in Nat /\ 0 \in Bit01 /\ from + d = to /\ 0 # 1 /\ from \in Nat
    BY <1>1, <1>2 DEF Bit01
  <2>2. LengthBits(from, to) = u
    BY <1>2 DEF LengthBits
  <2> HIDE DEF d
  <2>3. u \in Seq(Bit01) /\ Len(u) = 2 * d + 1
    BY <2>1, PairsThenNought
  <2>4. \A k \in 0 .. d : Stepped(from, 0, k) \in 1 .. Longest
    BY <1>1, <2>1 DEF Stepped
  <2>5. Standing(arrived, p, Append(Times(<< 1, 0 >>, d), 0))
    BY <2>2
  <2>6. ReadLength(p, from) = [p |-> p + (2 * d + 1), curr |-> Stepped(from, 0, d), bad |-> FALSE]
    BY <2>1, <2>4, <2>5, StepsBack
  <2>7. Stepped(from, 0, d) = to
    BY <2>1 DEF Stepped
  <2> QED  BY <2>2, <2>3, <2>6, <2>7
<1>3. CASE ~(from < to)
  <2> DEFINE d == from - to
             u == Append(Times(<< 1, 1 >>, d), 0)
  <2>1. d \in Nat /\ 1 \in Bit01 /\ from - d = to /\ from \in Nat
    BY <1>1, <1>3 DEF Bit01
  <2>2. LengthBits(from, to) = u
    BY <1>3 DEF LengthBits
  <2> HIDE DEF d
  <2>3. u \in Seq(Bit01) /\ Len(u) = 2 * d + 1
    BY <2>1, PairsThenNought
  <2>4. \A k \in 0 .. d : Stepped(from, 1, k) \in 1 .. Longest
    BY <1>1, <2>1 DEF Stepped
  <2>5. Standing(arrived, p, Append(Times(<< 1, 1 >>, d), 0))
    BY <2>2
  <2>6. ReadLength(p, from) = [p |-> p + (2 * d + 1), curr |-> Stepped(from, 1, d), bad |-> FALSE]
    BY <2>1, <2>4, <2>5, StepsBack
  <2>7. Stepped(from, 1, d) = to
    BY <2>1 DEF Stepped
  <2> QED  BY <2>2, <2>3, <2>6, <2>7
<1> QED  BY <1>2, <1>3

\* The length before the k-th, or the first one itself.
Prior(lens, k) == lens[IF k = 0 THEN 0 ELSE k - 1]
LengthsBits(size, lens) == [i \in 1 .. size |-> LengthBits(Prior(lens, i - 1), lens[i - 1])]

\* The lengths of a table, from the first and the steps between them.
LEMMA LengthsBack ==
    ASSUME BitsArrived, ReaderAssumption, Longest < 32, NEW p, NEW size \in Nat \ {0},
           NEW lens \in [0 .. size - 1 -> 1 .. Longest],
           Standing(arrived, p, Bits(5, lens[0]) \o FlattenSeq(LengthsBits(size, lens)))
    PROVE  ReadLengths(p, size)
           = [p |-> p + Len(Bits(5, lens[0]) \o FlattenSeq(LengthsBits(size, lens))), bad |-> FALSE,
              codeLens |-> lens]
<1> DEFINE seqs == LengthsBits(size, lens)
           b == Bits(5, lens[0])
           q == p + 5
           g == [k \in 0 .. size |-> [p |-> q + Offset(seqs, k), curr |-> Prior(lens, k), bad |-> FALSE]]
           start == [p |-> p + 5, curr |-> ReadBits(p, 5), bad |-> FALSE]
           Is(f) == f = [v \in 0 .. size |->
                            IF v = 0 THEN [p |-> p + 5, curr |-> ReadBits(p, 5), bad |-> FALSE]
                            ELSE LET last == f[v - 1]
                                 IN  IF last.bad THEN last ELSE ReadLength(last.p, last.curr)]
           read == CHOOSE f : Is(f)
<1>1. /\ Longest \in Nat /\ \A k \in 0 .. size : Prior(lens, k) \in 1 .. Longest
      /\ \A k \in 1 .. size : Prior(lens, k) = lens[k - 1] /\ lens[k - 1] \in 1 .. Longest
      /\ Prior(lens, 0) = lens[0] /\ lens[0] \in 1 .. Longest
  BY DEF Prior, ReaderAssumption
<1>2. ReadLengths(p, size)
      = [p |-> read[size].p, bad |-> read[size].bad, codeLens |-> [v \in 0 .. size - 1 |-> read[v + 1].curr]]
  BY DEF ReadLengths
<1>3. Standing(arrived, p, b \o FlattenSeq(seqs)) /\ arrived \in Seq(Bit01) /\ p \in Nat \ {0}
  BY DEF BitsArrived, Bit01, Standing
<1>4. seqs = [i \in 1 .. size |-> seqs[i]]
      /\ \A i \in 1 .. size : seqs[i] = LengthBits(Prior(lens, i - 1), lens[i - 1])
  BY DEF LengthsBits
<1>5. b \in Seq(Bit01) /\ Len(b) = 5
  <2>1. 5 \in Nat /\ lens[0] \in Nat
    BY <1>1
  <2> QED  BY <2>1, BitsType
<1>6. lens[0] < Pow2[5]
  <2>1. /\ Pow2[1] = 2 * Pow2[0] /\ Pow2[2] = 2 * Pow2[1] /\ Pow2[3] = 2 * Pow2[2]
        /\ Pow2[4] = 2 * Pow2[3] /\ Pow2[5] = 2 * Pow2[4] /\ Pow2[0] = 1
    <3>1. 1 - 1 = 0 /\ 2 - 1 = 1 /\ 3 - 1 = 2 /\ 4 - 1 = 3 /\ 5 - 1 = 4
      OBVIOUS
    <3> QED  BY <3>1, Pow2Steps
  <2> QED  BY <1>1, <2>1
<1> HIDE DEF seqs, read, g, Is
<1>7. seqs \in Seq(Seq(Bit01)) /\ Len(seqs) = size /\ FlattenSeq(seqs) \in Seq(Bit01)
  <2>1. ASSUME NEW i \in 1 .. size PROVE seqs[i] \in Seq(Bit01)
    <3>1. i - 1 \in 0 .. size /\ Prior(lens, i - 1) \in Nat /\ lens[i - 1] \in Nat
      BY <1>1
    <3> QED  BY <1>4, <3>1, LengthBitsType
  <2>2. size \in Nat /\ seqs = [i \in 1 .. size |-> seqs[i]] /\ \A i \in 1 .. size : seqs[i] \in Seq(Bit01)
    BY <1>4, <2>1
  <2> QED  BY ONLY <2>2, PiecesType
<1>8. Standing(arrived, p, b) /\ Standing(arrived, q, FlattenSeq(seqs)) /\ q \in Nat
  <2> HIDE DEF b
  <2>1. Standing(arrived, p, b) /\ Standing(arrived, p + Len(b), FlattenSeq(seqs))
    BY <1>3, <1>5, <1>7, StandingParts
  <2> QED  BY <1>3, <1>5, <2>1
<1>9. ReadBits(p, 5) = lens[0]
  <2>1. 5 \in Nat /\ lens[0] \in Nat /\ lens[0] < Pow2[5] /\ Standing(arrived, p, Bits(5, lens[0]))
    BY <1>1, <1>6, <1>8
  <2> QED  BY <2>1, ReadBack
<1>10. /\ Offset(seqs, 0) = 0 /\ Offset(seqs, size) = Len(FlattenSeq(seqs))
       /\ \A k \in 0 .. size : Offset(seqs, k) \in Nat
       /\ \A k \in 1 .. size : Offset(seqs, k) = Offset(seqs, k - 1) + Len(seqs[k])
  BY <1>7, OffsetSteps
<1>11. ASSUME NEW k \in 0 .. size
       PROVE  g[k].p = q + Offset(seqs, k) /\ g[k].bad = FALSE /\ g[k].curr = Prior(lens, k)
              /\ g[k] = [p |-> q + Offset(seqs, k), curr |-> Prior(lens, k), bad |-> FALSE]
  BY DEF g
<1> HIDE DEF b, q
<1>12. ASSUME NEW k \in 1 .. size
       PROVE  g[k] = ReadLength(g[k - 1].p, g[k - 1].curr) /\ g[k - 1].bad = FALSE
  <2>1. k - 1 \in 0 .. size /\ k \in 0 .. size /\ k \in 1 .. Len(seqs)
    BY <1>7
  <2> DEFINE z == q + Offset(seqs, k - 1)
             from == Prior(lens, k - 1)
             to == lens[k - 1]
  <2>2. Standing(arrived, z, LengthBits(from, to))
    <3>1. arrived \in Seq(Bit01) /\ seqs \in Seq(Seq(Bit01)) /\ k \in 1 .. Len(seqs)
          /\ Standing(arrived, q, FlattenSeq(seqs))
      BY <1>3, <1>7, <1>8, <2>1
    <3>2. Standing(arrived, q + Offset(seqs, k - 1), seqs[k])
      BY ONLY <3>1, StandingEach
    <3> QED  BY <1>4, <3>2
  <2>3. from \in 1 .. Longest /\ to \in 1 .. Longest /\ to = Prior(lens, k)
    BY <1>1, <2>1
  <2>4. seqs[k] = LengthBits(from, to)
    BY <1>4
  <2>5. g[k - 1].p = z /\ g[k - 1].curr = from /\ g[k - 1].bad = FALSE
    BY <1>11, <2>1
  <2>6. z + Len(seqs[k]) = q + Offset(seqs, k)
    <3>1. Offset(seqs, k - 1) \in Nat /\ Offset(seqs, k) = Offset(seqs, k - 1) + Len(seqs[k])
      BY <1>10, <2>1
    <3>2. Len(seqs[k]) \in Nat
      BY <1>7, <2>1
    <3> QED  BY <1>8, <3>1, <3>2
  <2> HIDE DEF z, from, to
  <2>7. ReadLength(z, from) = [p |-> z + Len(LengthBits(from, to)), curr |-> to, bad |-> FALSE]
    BY <2>2, <2>3, LengthBack
  <2>8. g[k] = [p |-> q + Offset(seqs, k), curr |-> to, bad |-> FALSE]
    BY <1>11, <2>1, <2>3
  <2> QED  BY <2>4, <2>5, <2>6, <2>7, <2>8
<1>13. g[0] = start
  <2>1. 0 \in 0 .. size /\ q + 0 = q
    BY <1>8
  <2> QED  BY <1>1, <1>9, <1>10, <1>11, <2>1 DEF q
<1>14. Is(g)
  <2>1. \A k \in 0 .. size : k = 0 \/ k \in 1 .. size
    OBVIOUS
  <2>2. g = [k \in 0 .. size |-> g[k]]
    BY DEF g
  <2> QED  BY <1>12, <1>13, <2>1, <2>2 DEF Is
<1>15. Is(read)
  BY <1>14 DEF read
<1>16. \A k \in 0 .. size : read[k] = g[k]
  <2>1. read[0] = start
        /\ \A k \in 1 .. size : read[k] = IF read[k - 1].bad THEN read[k - 1]
                                         ELSE ReadLength(read[k - 1].p, read[k - 1].curr)
    <3>1. 0 \in 0 .. size /\ \A k \in 1 .. size : k \in 0 .. size /\ k # 0
      OBVIOUS
    <3> QED  BY <1>15, <3>1 DEF Is
  <2> HIDE DEF start
  <2>2. StepAlike(size, read, g)
    BY <1>12, <1>13, <2>1 DEF StepAlike
  <2> QED  BY <2>2, RecursionSame
<1>17. read[size].p = q + Len(FlattenSeq(seqs)) /\ read[size].bad = FALSE
  <2>1. size \in 0 .. size
    OBVIOUS
  <2> QED  BY <1>10, <1>11, <1>16, <2>1
<1>18. [v \in 0 .. size - 1 |-> read[v + 1].curr] = lens
  <2>1. ASSUME NEW v \in 0 .. size - 1 PROVE read[v + 1].curr = lens[v]
    <3>1. v + 1 \in 0 .. size /\ v + 1 \in 1 .. size /\ (v + 1) - 1 = v
      OBVIOUS
    <3> QED  BY <1>1, <1>11, <1>16, <3>1, ZenonT(60)
  <2> QED  BY <2>1
<1>19. q + Len(FlattenSeq(seqs)) = p + Len(b \o FlattenSeq(seqs))
  <2>1. Len(b \o FlattenSeq(seqs)) = Len(b) + Len(FlattenSeq(seqs)) /\ Len(FlattenSeq(seqs)) \in Nat
    <3> DEFINE f == FlattenSeq(seqs)
    <3>1. b \in Seq(Bit01) /\ f \in Seq(Bit01)
      BY <1>5, <1>7
    <3> HIDE DEF f
    <3>2. Len(b \o f) = Len(b) + Len(f) /\ Len(f) \in Nat
      BY ONLY <3>1, JoinedItems
    <3> QED  BY <3>2 DEF f
  <2> QED  BY <1>3, <1>5, <2>1 DEF q
<1> QED  BY <1>2, <1>17, <1>18, <1>19 DEF seqs, b

\* The bits of a table are its first length and the steps.
LEMMA TableBitsAre ==
    ASSUME NEW lens
    PROVE  TableBits(lens) = Bits(5, lens[0]) \o FlattenSeq(LengthsBits(alphaSize, lens))
BY DEF TableBits, Concat, LengthsBits, Prior

\* A table's lengths are read as they were written.
LEMMA TableBack ==
    ASSUME BitsArrived, ReadyToWrite, NEW t \in Tables, NEW p,
           Standing(arrived, p, TableBits(codeLens[t]))
    PROVE  ReadLengths(p, alphaSize)
           = [p |-> p + Len(TableBits(codeLens[t])), bad |-> FALSE, codeLens |-> codeLens[t]]
<1> DEFINE lens == codeLens[t]
           size == alphaSize
<1>1. /\ size \in Nat \ {0} /\ lens \in [0 .. size - 1 -> 1 .. Longest]
  <2>1. alphaSize \in Nat \ {0} /\ Symbols = 0 .. alphaSize - 1
    BY ReadySizes
  <2>2. lens \in UsableLengths
    BY DEF ReadyToWrite
  <2>3. 0 \in Symbols
    BY <2>1
  <2> HIDE DEF lens
  <2>4. lens \in [0 .. alphaSize - 1 -> 1 .. Longest]
    BY <2>1, <2>2, <2>3, CodeType
  <2> QED  BY <2>1, <2>4
<1>2. TableBits(lens) = Bits(5, lens[0]) \o FlattenSeq(LengthsBits(size, lens))
  BY TableBitsAre
<1>3. Standing(arrived, p, Bits(5, lens[0]) \o FlattenSeq(LengthsBits(size, lens)))
  BY <1>2
<1>4. BitsArrived /\ ReaderAssumption /\ Longest < 32
  BY ReaderAssumption, RoundTripAssumption DEF RoundTripAssumption
<1> HIDE DEF lens, size
<1>5. ReadLengths(p, size)
      = [p |-> p + Len(Bits(5, lens[0]) \o FlattenSeq(LengthsBits(size, lens))), bad |-> FALSE,
         codeLens |-> lens]
  BY ONLY <1>1, <1>3, <1>4, LengthsBack
<1> QED  BY <1>2, <1>5 DEF lens, size

\* The bits of each table, and the decode tables made of its lengths.
TableParts == [i \in 1 .. Cardinality(Tables) |-> TableBits(codeLens[i - 1])]
MadeFor(i) == CreateDecodeTables(codeLens[i - 1], Longest)

\* The tables' bits are those of the single tables, joined.
LEMMA TablePartsType ==
    ASSUME ReadyToWrite
    PROVE  /\ TableParts \in Seq(Seq(Bit01)) /\ Len(TableParts) = Cardinality(Tables)
           /\ FlattenSeq(TableParts) = TablesBits /\ TablesBits \in Seq(Bit01)
           /\ Cardinality(Tables) \in Nat /\ Tables = 0 .. Cardinality(Tables) - 1
<1> DEFINE C == Cardinality(Tables)
<1>1. C \in Nat /\ Tables = 0 .. C - 1
  <2>1. mtfv \in Seq(Symbols)
    BY ReadySizes
  <2>2. C \in 2 .. NGroups /\ NGroups \in 2 .. 7 /\ Tables = 0 .. C - 1
    BY <2>1, TablesAre
  <2> HIDE DEF C
  <2> QED  BY <2>2
<1>2. TablesBits \in Seq(Bit01) /\ \A i \in 1 .. C : TableBits(codeLens[i - 1]) \in Seq(Bit01)
  BY TablesBitsType
<1>3. TableParts = [i \in 1 .. C |-> TableParts[i]] /\ \A i \in 1 .. C : TableParts[i] \in Seq(Bit01)
  BY <1>2 DEF TableParts
<1>4. FlattenSeq(TableParts) = TablesBits
  BY DEF TableParts, TablesBits
<1> HIDE DEF C
<1>5. TableParts \in Seq(Seq(Bit01)) /\ Len(TableParts) = C
  BY <1>1, <1>3, PiecesType
<1> QED  BY <1>1, <1>2, <1>4, <1>5 DEF C

\* The tables d were read, up to p, and they are those that were written.
TablesSoFar(d, p) ==
    /\ Len(d) \in 0 .. Cardinality(Tables) /\ \A i \in 1 .. Len(d) : d[i] = MadeFor(i)
    /\ p = TablesAt + Offset(TableParts, Len(d))

\* The next table of a block that arrives whole is taken for what it is.
LEMMA TableArrives ==
    ASSUME BitsArrived, ReadyToWrite, FieldsStand, head = RightHead, NEW D, decode \in Seq(D),
           MadeFor(Len(decode) + 1) \in D,
           TablesSoFar(decode, pos), Len(decode) < Cardinality(Tables), ReadTable
    PROVE  /\ TablesSoFar(decode', pos') /\ Len(decode') = Len(decode) + 1
           /\ reader' = IF Len(decode') = Cardinality(Tables) THEN "symbols" ELSE "tables"
           /\ UNCHANGED << arrived, head, group, list, run, tt >>
<1> DEFINE C == Cardinality(Tables)
           k == Len(decode)
           lens == codeLens[k]
           piece == TableBits(lens)
           got == ReadLengths(pos, head.nInUse + 2)
<1>1. /\ TableParts \in Seq(Seq(Bit01)) /\ Len(TableParts) = C /\ FlattenSeq(TableParts) = TablesBits
      /\ C \in Nat /\ Tables = 0 .. C - 1
  BY TablePartsType
<1>2. /\ k \in Nat /\ k < C /\ k + 1 \in 1 .. C /\ (k + 1) - 1 = k /\ k \in Tables
      /\ pos = TablesAt + Offset(TableParts, k) /\ \A i \in 1 .. k : decode[i] = MadeFor(i)
  <2> HIDE DEF C
  <2> QED  BY <1>1 DEF C, TablesSoFar
<1> HIDE DEF C, k
<1>3. TableParts[k + 1] = piece
  BY <1>2 DEF TableParts, C
<1>4. Standing(arrived, pos, piece)
  <2>1. /\ arrived \in Seq(Bit01) /\ TableParts \in Seq(Seq(Bit01)) /\ k + 1 \in 1 .. Len(TableParts)
        /\ Standing(arrived, TablesAt, FlattenSeq(TableParts))
    BY <1>1, <1>2 DEF FieldsStand, BitsArrived, Bit01
  <2>2. Standing(arrived, TablesAt + Offset(TableParts, (k + 1) - 1), TableParts[k + 1])
    BY ONLY <2>1, StandingEach
  <2> QED  BY <1>2, <1>3, <2>2
<1>5. piece \in Seq(Bit01)
  <2>1. k + 1 \in 1 .. Len(TableParts)
    BY <1>1, <1>2
  <2> QED  BY <1>1, <1>3, <2>1
<1>6. head.nInUse + 2 = alphaSize /\ head.numGroups = C
  BY ReadySizes DEF RightHead, C
<1>7. got = [p |-> pos + Len(piece), bad |-> FALSE, codeLens |-> lens]
  BY <1>2, <1>4, <1>6, TableBack
<1>8. pos \in Nat \ {0} /\ ~PastEnd(pos + Len(piece))
  BY <1>4, <1>5, StandsWithin
<1>9. pos + Len(piece) = TablesAt + Offset(TableParts, k + 1)
  <2>1. /\ Offset(TableParts, k + 1) = Offset(TableParts, (k + 1) - 1) + Len(TableParts[k + 1])
        /\ Offset(TableParts, k) \in Nat
    <3>1. k + 1 \in 1 .. Len(TableParts) /\ k \in 0 .. Len(TableParts)
      BY <1>1, <1>2
    <3> QED  BY <1>1, <3>1, OffsetSteps
  <2>2. TablesAt \in Nat /\ Len(piece) \in Nat
    <3>1. TablesAt \in Nat
      BY DEF FieldsStand, Standing
    <3> QED  BY <1>5, <3>1
  <2> QED  BY <1>2, <1>3, <2>1, <2>2
<1>10. ~(got.bad \/ (Len(decode) + 1 = head.numGroups /\ PastEnd(got.p)))
  BY <1>7, <1>8
<1>11. /\ decode' = Append(decode, CreateDecodeTables(got.codeLens, Longest)) /\ pos' = got.p
       /\ reader' = IF Len(decode) + 1 = head.numGroups THEN "symbols" ELSE "tables"
       /\ UNCHANGED << arrived, head, group, list, run, tt >>
  <2> HIDE DEF piece, lens
  <2> QED  BY <1>10 DEF ReadTable
<1>12. decode' = Append(decode, MadeFor(k + 1)) /\ pos' = TablesAt + Offset(TableParts, k + 1)
       /\ reader' = IF k + 1 = C THEN "symbols" ELSE "tables"
  BY <1>2, <1>6, <1>7, <1>9, <1>11 DEF MadeFor, k
<1>13. Len(decode') = k + 1 /\ \A i \in 1 .. k + 1 : decode'[i] = MadeFor(i)
  <2> DEFINE x == MadeFor(k + 1)
  <2>1. decode' = Append(decode, x) /\ x \in D
    BY <1>12 DEF k
  <2> HIDE DEF x
  <2>2. /\ Len(Append(decode, x)) = Len(decode) + 1 /\ Append(decode, x)[Len(decode) + 1] = x
        /\ \A i \in 1 .. Len(decode) : Append(decode, x)[i] = decode[i]
    BY <2>1, Appended
  <2>3. ASSUME NEW i \in 1 .. k + 1 PROVE decode'[i] = MadeFor(i)
    <3>1. CASE i = k + 1
      BY <2>1, <2>2, <3>1 DEF x, k
    <3>2. CASE i # k + 1
      <4>1. i \in 1 .. k
        BY <1>2, <3>2
      <4> QED  BY <1>2, <2>1, <2>2, <4>1 DEF k
    <3> QED  BY <3>1, <3>2
  <2> QED  BY <2>1, <2>2, <2>3 DEF k
<1>14. TablesSoFar(decode', pos')
  <2>1. k + 1 \in 0 .. C
    BY <1>2
  <2> QED  BY <1>12, <1>13, <2>1 DEF TablesSoFar, C
<1> QED  BY <1>11, <1>12, <1>13, <1>14 DEF C, k

-----------------------------------------------------------------------------
(* The symbols.                                                            *)

\* How far the reader is in the groups when k symbols were read.
InGroup(k, g) ==
    /\ g.left \in 0 .. GroupSize - 1 /\ g.no \in Int
    /\ k + g.left = (g.no + 1) * GroupSize

\* A number of whole groups and a part of one.
LEMMA QuotientIs ==
    ASSUME NEW w \in Nat \ {0}, NEW q \in Nat, NEW r \in 0 .. w - 1
    PROVE  (q * w + r) \div w = q
<1> DEFINE x == q * w + r
           d == x \div w
<1>1. q * w \in Nat /\ x \in Nat /\ d \in Nat /\ x % w \in 0 .. w - 1
  OBVIOUS
<1>2. x = w * d + (x % w)
  BY <1>1
<1>3. x >= w * q /\ x < w * (q + 1)
  BY <1>1
<1>4. ~(d < q)
  <2> SUFFICES ASSUME d < q PROVE FALSE
    OBVIOUS
  <2> HIDE DEF d, x
  <2>1. d + 1 <= q
    BY <1>1
  <2>2. w * (d + 1) <= w * q
    BY <1>1, <2>1
  <2>3. w * (d + 1) = w * d + w
    BY <1>1
  <2> QED  BY <1>1, <1>2, <1>3, <2>2, <2>3
<1>5. ~(d > q)
  <2> SUFFICES ASSUME d > q PROVE FALSE
    OBVIOUS
  <2> HIDE DEF d, x
  <2>1. d >= q + 1
    BY <1>1
  <2>2. w * d >= w * (q + 1)
    BY <1>1, <2>1
  <2> QED  BY <1>1, <1>2, <1>3, <2>2
<1> QED  BY <1>1, <1>4, <1>5

\* The next symbol is in group k \div GroupSize.
LEMMA GroupOfNext ==
    ASSUME GroupSize \in Nat \ {0}, NEW k \in Nat, InGroup(k, group)
    PROVE  GroupRead = k \div GroupSize
<1> DEFINE w == GroupSize
           l == group.left
           n == group.no
<1>1. w \in Nat \ {0} /\ l \in 0 .. w - 1 /\ n \in Int /\ k + l = (n + 1) * w
  BY DEF InGroup
<1>2. GroupRead = IF l = 0 THEN n + 1 ELSE n
  BY DEF GroupRead
<1> HIDE DEF w, l, n
<1>3. n + 1 \in Nat
  <2> SUFFICES ASSUME n + 1 <= -1 PROVE FALSE
    BY <1>1
  <2>1. (n + 1) * w <= -w
    BY <1>1
  <2> QED  BY <1>1, <2>1
<1>4. CASE l = 0
  <2>1. k = (n + 1) * w + 0 /\ 0 \in 0 .. w - 1
    BY <1>1, <1>4
  <2> HIDE DEF w
  <2>2. ((n + 1) * w + 0) \div w = n + 1
    BY ONLY <1>1, <1>3, <2>1, QuotientIs
  <2> QED  BY <1>2, <1>4, <2>1, <2>2 DEF w
<1>5. CASE l # 0
  <2>1. (n + 1) * w = n * w + w
    BY <1>1
  <2>2. n \in Nat
    <3> SUFFICES ASSUME n = -1 PROVE FALSE
      BY <1>1, <1>3
    <3>1. (n + 1) * w = 0
      BY <1>1
    <3> QED  BY <1>1, <1>5, <3>1
  <2>3. w - l \in 0 .. w - 1 /\ k = n * w + (w - l)
    BY <1>1, <1>5, <2>1, <2>2
  <2>4. (n * w + (w - l)) \div w = n
    BY ONLY <1>1, <2>2, <2>3, QuotientIs
  <2> QED  BY <1>2, <1>5, <2>3, <2>4 DEF w
<1> QED  BY <1>4, <1>5

\* Where the group stands behind the next symbol.
NextGroup == [no |-> GroupRead, left |-> (IF group.left = 0 THEN GroupSize ELSE group.left) - 1]

\* Reading a symbol keeps the count.
LEMMA GroupMovesOn ==
    ASSUME GroupSize \in Nat \ {0}, NEW k \in Nat, InGroup(k, group)
    PROVE  InGroup(k + 1, NextGroup)
<1> DEFINE w == GroupSize
           l == group.left
           n == group.no
           no == GroupRead
           left == (IF l = 0 THEN w ELSE l) - 1
<1>1. w \in Nat \ {0} /\ l \in 0 .. w - 1 /\ n \in Int /\ k + l = (n + 1) * w
  BY DEF InGroup
<1>2. no = IF l = 0 THEN n + 1 ELSE n
  BY DEF GroupRead
<1>3. NextGroup.no = no /\ NextGroup.left = left
  BY DEF NextGroup
<1> HIDE DEF w, l, n, no
<1>4. CASE l = 0
  <2>1. left = w - 1 /\ no = n + 1 /\ (n + 1 + 1) * w = (n + 1) * w + w
    BY <1>1, <1>2, <1>4
  <2>2. (no + 1) * w = (n + 1) * w + w
    BY <2>1
  <2>3. k + 1 + left = (no + 1) * w /\ left \in 0 .. w - 1 /\ no \in Int
    BY <1>1, <1>4, <2>1, <2>2
  <2> HIDE DEF left
  <2> QED  BY <1>3, <2>3 DEF InGroup, w
<1>5. CASE l # 0
  <2>1. left = l - 1 /\ no = n
    BY <1>1, <1>2, <1>5
  <2>2. k + 1 + left = (no + 1) * w /\ left \in 0 .. w - 1 /\ no \in Int
    BY <1>1, <1>5, <2>1
  <2> HIDE DEF left
  <2> QED  BY <1>3, <2>2 DEF InGroup, w
<1> QED  BY <1>4, <1>5

\* What getSymbol leaves of the group (reader.go:327-341).
LEMMA GroupLeft ==
    ASSUME GetSymbol.fails = "no"
    PROVE  GetSymbol.group = NextGroup
BY DEF GetSymbol, NextGroup, GroupRead

\* What the reader can keep while it reads symbols.
ReadingStates ==
    [run : [es : {-1} \cup Nat, N : Nat \ {0}], list : Lists(A), tt : Seq(Bytes)]

\* A symbol keeps those states.
LEMMA AfterType ==
    ASSUME FormatAssumption, HeadOK(head), NEW s \in ReadingStates, NEW sym \in 0 .. head.nInUse + 1
    PROVE  After(s, sym) \in ReadingStates
<1>1. /\ s.run \in [es : {-1} \cup Nat, N : Nat \ {0}] /\ s.list \in Lists(A) /\ s.tt \in Seq(Bytes)
      /\ A \in Nat /\ head.nInUse \in 1 .. A
  BY DEF ReadingStates, FormatAssumption, HeadOK
<1>2. Ended(s) \in Seq(Bytes)
  <2> DEFINE z == s.run.es + 1
             c == [i \in 1 .. z |-> ByteAt(s.list[1])]
  <2>1. z \in Nat
    BY <1>1
  <2>2. c \in [1 .. z -> Bytes]
    BY ByteAtType
  <2> HIDE DEF z, c
  <2>3. c \in Seq(Bytes)
    BY <2>1, <2>2, SeqFrom
  <2>4. s.tt \o c \in Seq(Bytes)
    BY <1>1, <2>3, Then
  <2> QED  BY <2>4 DEF Ended, z, c
<1>3. CASE sym \in Digits
  <2> DEFINE d == RunDigit(s.run, sym)
  <2>1. d \in [es : {-1} \cup Nat, N : Nat \ {0}]
    <3> DEFINE e == s.run.es
               N == s.run.N
    <3>1. e \in {-1} \cup Nat /\ N \in Nat \ {0}
      BY <1>1
    <3>2. d = [es |-> e + (IF sym = symRUNA THEN 1 ELSE 2) * N, N |-> 2 * N]
      BY DEF RunDigit
    <3> HIDE DEF d, e, N
    <3>3. 2 * N \in Nat \ {0} /\ e + 1 * N \in {-1} \cup Nat /\ e + 2 * N \in {-1} \cup Nat
      BY <3>1
    <3> QED  BY <3>2, <3>3
  <2> HIDE DEF d
  <2>2. After(s, sym) = [run |-> d, list |-> s.list, tt |-> s.tt]
    BY <1>3 DEF After, d
  <2> QED  BY <1>1, <2>1, <2>2 DEF ReadingStates
<1>4. NoRun \in [es : {-1} \cup Nat, N : Nat \ {0}]
  BY DEF NoRun
<1>5. CASE sym \notin Digits /\ sym = Eob
  <2>1. After(s, sym) = [run |-> NoRun, list |-> s.list, tt |-> Ended(s)]
    BY <1>5 DEF After
  <2> QED  BY <1>1, <1>2, <1>4, <2>1 DEF ReadingStates
<1>6. CASE sym \notin Digits /\ sym # Eob
  <2> DEFINE l == MoveToFront(s.list, sym - 1)
             b == ByteAt(s.list[sym])
  <2>1. After(s, sym) = [run |-> NoRun, list |-> l, tt |-> Append(Ended(s), b)]
    BY <1>6 DEF After
  <2>2. sym - 1 \in 0 .. A - 1
    BY <1>1, <1>6 DEF Digits, symRUNA, symRUNB, Eob
  <2>3. l \in Lists(A)
    <3>1. s.list \in Seq(0 .. A - 1) /\ Len(s.list) = A
      BY <1>1 DEF Lists
    <3>2. l \in Seq(0 .. A - 1) /\ Len(l) = Len(s.list)
      BY <2>2, <3>1, MoveToFrontItems
    <3> QED  BY <3>1, <3>2 DEF Lists
  <2>4. b \in Bytes
    BY ByteAtType
  <2> HIDE DEF l, b
  <2>5. Append(Ended(s), b) \in Seq(Bytes)
    BY <1>2, <2>4, Appended
  <2> QED  BY <1>4, <2>1, <2>3, <2>5 DEF ReadingStates
<1> QED  BY <1>3, <1>5, <1>6

\* The states that a reader would go through can always be told.
LEMMA TakenExists ==
    ASSUME FormatAssumption, HeadOK(head), NEW seq \in Seq(0 .. head.nInUse + 1)
    PROVE  \E r : AtStart(r) /\ Taken(seq, r)
<1> DEFINE n == Len(seq)
           St == ReadingStates
           b == [run |-> NoRun, list |-> InitialList(A), tt |-> << >>]
           F == [x \in St \X (1 .. n) |-> After(x[1], seq[x[2]])]
<1>1. n \in Nat /\ \A k \in 1 .. n : seq[k] \in 0 .. head.nInUse + 1
  <2> DEFINE S == 0 .. head.nInUse + 1
  <2>1. seq \in Seq(S)
    OBVIOUS
  <2> HIDE DEF S
  <2>2. Len(seq) \in Nat /\ \A k \in 1 .. Len(seq) : seq[k] \in S
    BY <2>1, ElementOfSeq
  <2> QED  BY <2>2 DEF S
<1>2. b \in St
  <2>1. InitialList(A) \in Lists(A)
    BY InitialListType DEF FormatAssumption
  <2> QED  BY <2>1 DEF ReadingStates, NoRun
<1>3. \A x \in St \X (1 .. n) : After(x[1], seq[x[2]]) \in St
  <2> SUFFICES ASSUME NEW x \in St \X (1 .. n) PROVE After(x[1], seq[x[2]]) \in St
    OBVIOUS
  <2>1. x[1] \in ReadingStates /\ x[2] \in 1 .. n
    OBVIOUS
  <2> QED  BY <1>1, <2>1, AfterType
<1>4. F \in [St \X (1 .. n) -> St]
  BY <1>3
<1> HIDE DEF n, St, b
<1>5. PICK g \in [0 .. n -> St] : g[0] = b /\ \A k \in 1 .. n : g[k] = F[<< g[k - 1], k >>]
  <2> HIDE DEF F
  <2>1. StepsTaken(n, St, b, F)
    BY <1>1, <1>2, <1>4, RecursionExists
  <2> QED  BY <2>1 DEF StepsTaken
<1>6. ASSUME NEW k \in 1 .. n PROVE g[k] = After(g[k - 1], seq[k])
  <2>1. k - 1 \in 0 .. n
    BY <1>1
  <2>2. << g[k - 1], k >> \in St \X (1 .. n)
    BY <2>1
  <2> QED  BY <1>5, <2>2
<1> QED  BY <1>5, <1>6 DEF AtStart, Stands, Taken, b, n

\* A number among those in use stands for its byte.
LEMMA NumberBack ==
    ASSUME FormatAssumption, NEW used \in SUBSET Bytes, NEW c \in used
    PROVE  SeqToUnseq(used)[Cardinality({b \in used : b < c})] = c
           /\ Cardinality({b \in used : b < c}) \in 0 .. Cardinality(used) - 1
<1> DEFINE R == {x \in used \X used : x[1] < x[2]}
           k == Cardinality({b \in used : b < c})
<1>1. IsFiniteSet(used) /\ \A x \in used : x \in Int
  <2>1. IsFiniteSet(used)
    BY AlphabetType
  <2> QED  BY <2>1 DEF Bytes
<1>2. StrictlyOrders(R, used)
  <2>1. \A x, y \in used : << x, y >> \in R <=> x < y
    OBVIOUS
  <2> HIDE DEF R
  <2> QED  BY <1>1, <2>1 DEF StrictlyOrders
<1>3. ASSUME NEW x \in used PROVE Rank(R, used, x) = Cardinality({b \in used : b < x})
  <2>1. {y \in used : << y, x >> \in R} = {b \in used : b < x}
    OBVIOUS
  <2> QED  BY <2>1 DEF Rank
<1>4. k \in 0 .. Cardinality(used) - 1
  <2> DEFINE L == {b \in used : b < c}
  <2>1. L \in SUBSET used /\ c \notin L /\ c \in used
    BY <1>1
  <2> HIDE DEF L
  <2>2. L \subseteq used /\ L # used
    BY <2>1
  <2>3. IsFiniteSet(L) /\ Cardinality(L) <= Cardinality(used)
        /\ (Cardinality(L) = Cardinality(used) => L = used)
    BY <1>1, <2>2, FS_Subset
  <2>4. Cardinality(L) \in Nat /\ Cardinality(used) \in Nat
    BY <1>1, <2>3, FS_CardinalityType
  <2> QED  BY <2>2, <2>3, <2>4 DEF L
<1>5. SeqToUnseq(used)[k] = CHOOSE i \in used : k = Cardinality({j \in used : j < i})
  BY <1>4 DEF SeqToUnseq, InOrder
<1>6. ASSUME NEW i \in used, k = Cardinality({j \in used : j < i}) PROVE i = c
  <2>1. Rank(R, used, i) = Rank(R, used, c)
    BY <1>3, <1>6
  <2> HIDE DEF R
  <2> QED  BY <1>1, <1>2, <2>1, RankDecides
<1>7. k = Cardinality({j \in used : j < c})
  OBVIOUS
<1> HIDE DEF k
<1>8. (CHOOSE i \in used : k = Cardinality({j \in used : j < i})) = c
  BY <1>6, <1>7
<1> QED  BY <1>4, <1>5, <1>8 DEF k

\* The bits of each symbol.
CodeParts == [i \in 1 .. Len(mtfv) |-> CodeBits(i)]

\* The symbols' bits are their codes, joined.
LEMMA CodePartsType ==
    ASSUME ReadyToWrite
    PROVE  /\ CodeParts \in Seq(Seq(Bit01)) /\ Len(CodeParts) = Len(mtfv) /\ Len(mtfv) \in Nat
           /\ FlattenSeq(CodeParts) = DataBits
<1>1. Len(mtfv) \in Nat /\ Len(mtfv) \in 1 .. MaxBlock + 1 /\ mtfv \in Seq(Symbols)
  BY ReadySizes
<1>2. CodeParts = [i \in 1 .. Len(mtfv) |-> CodeParts[i]]
      /\ \A i \in 1 .. Len(mtfv) : CodeParts[i] \in Seq(Bit01)
  BY DataBitsType DEF CodeParts
<1>3. CodeParts \in Seq(Seq(Bit01)) /\ Len(CodeParts) = Len(mtfv)
  BY <1>1, <1>2, PiecesType
<1>4. FlattenSeq(CodeParts) = DataBits
  BY <1>1, DataBitsAre DEF CodeParts, ReadyToWrite
<1> QED  BY <1>1, <1>3, <1>4

\* The next symbol's code is read as it was written.
LEMMA CodeBack ==
    ASSUME BitsArrived, ReadyToWrite, FieldsStand, NEW k \in 0 .. Len(mtfv) - 1,
           NEW p, p = DataAt + Offset(CodeParts, k)
    PROVE  LET lens == codeLens[TableOf(k + 1)]
               v == mtfv[k + 1]
           IN  /\ TableOf(k + 1) \in Tables /\ v \in 0 .. nInUse + 1
               /\ lens \in [0 .. nInUse + 1 -> 1 .. Longest]
               /\ ReadBits(p, lens[v]) = AssignCodes(lens)[v] /\ ~PastEnd(p + lens[v])
               /\ p \in Nat \ {0} /\ p + lens[v] = DataAt + Offset(CodeParts, k + 1)
<1> DEFINE t == TableOf(k + 1)
           lens == codeLens[t]
           v == mtfv[k + 1]
           code == AssignCodes(lens)[v]
<1>1. /\ CodeParts \in Seq(Seq(Bit01)) /\ Len(CodeParts) = Len(mtfv) /\ Len(mtfv) \in Nat
      /\ FlattenSeq(CodeParts) = DataBits
  BY CodePartsType
<1>2. /\ mtfv \in Seq(Symbols) /\ Len(mtfv) \in 1 .. MaxBlock + 1
      /\ alphaSize \in Nat \ {0} /\ alphaSize = nInUse + 2 /\ Symbols = 0 .. alphaSize - 1
      /\ nInUse \in 1 .. A /\ A \in Nat
  BY ReadySizes, FormatAssumption DEF FormatAssumption
<1>3. k + 1 \in 1 .. Len(mtfv) /\ (k + 1) - 1 = k /\ k \in Nat
  BY <1>1
<1>4. t \in Tables /\ v \in Symbols
  BY <1>2, <1>3, TableOfType DEF ReadyToWrite
<1>5. lens \in UsableLengths
  BY <1>4 DEF ReadyToWrite
<1>6. alphaSize - 1 = nInUse + 1
  BY <1>2
<1>7. CodeParts[k + 1] = Bits(lens[v], code)
  BY <1>3 DEF CodeParts, CodeBits
<1> HIDE DEF t, lens, v
<1>8. /\ lens[v] \in 1 .. MaxLen /\ lens[v] \in Nat /\ code \in Nat /\ code < Pow2[lens[v]]
      /\ lens \in [0 .. alphaSize - 1 -> 1 .. Longest]
  BY <1>2, <1>4, <1>5, CodeType
<1> HIDE DEF code
<1>9. Standing(arrived, p, Bits(lens[v], code))
  <2>1. /\ arrived \in Seq(Bit01) /\ CodeParts \in Seq(Seq(Bit01)) /\ k + 1 \in 1 .. Len(CodeParts)
        /\ Standing(arrived, DataAt, FlattenSeq(CodeParts))
    BY <1>1, <1>3 DEF FieldsStand, BitsArrived, Bit01
  <2>2. Standing(arrived, DataAt + Offset(CodeParts, (k + 1) - 1), CodeParts[k + 1])
    BY ONLY <2>1, StandingEach
  <2> QED  BY <1>3, <1>7, <2>2
<1>10. p \in Nat \ {0} /\ ReadBits(p, lens[v]) = code /\ ~PastEnd(p + lens[v])
  BY <1>8, <1>9, ReadBack
<1>11. p + lens[v] = DataAt + Offset(CodeParts, k + 1)
  <2>1. /\ Offset(CodeParts, k + 1) = Offset(CodeParts, (k + 1) - 1) + Len(CodeParts[k + 1])
        /\ Offset(CodeParts, k) \in Nat
    <3>1. k + 1 \in 1 .. Len(CodeParts) /\ k \in 0 .. Len(CodeParts)
      BY <1>1, <1>3
    <3> QED  BY <1>1, <3>1, OffsetSteps
  <2>2. Len(CodeParts[k + 1]) = lens[v]
    BY <1>7, <1>8, BitsType
  <2>3. DataAt \in Nat
    BY DEF FieldsStand, Standing
  <2> QED  BY <1>3, <1>8, <2>1, <2>2, <2>3
<1> QED  BY <1>2, <1>4, <1>6, <1>8, <1>10, <1>11 DEF t, lens, v, code

\* Behind k symbols of a block that arrives whole the reader has what they stand for,
\* and its next group is the next symbol's.
SymbolsSoFar(k, r, p, g, reading) ==
    /\ p = DataAt + Offset(CodeParts, k) /\ InGroup(k, g)
    /\ reading = r[k]

\* All tables are the reader's.
TablesRead(d) == Len(d) = Cardinality(Tables) /\ \A i \in 1 .. Len(d) : d[i] = MadeFor(i)

\* The symbols as the reader should understand them.
LEMMA SymbolsWelcome ==
    ASSUME ReadyToWrite, head = RightHead, HeadOK(head), NEW r, AtStart(r), Taken(mtfv, r)
    PROVE  /\ Welcome(mtfv, r) /\ r[Len(mtfv)].tt = Spelled(Fed, nblock)
           /\ \A k \in 1 .. Len(mtfv) : mtfv[k] = Eob <=> k = Len(mtfv)
<1>1. head.nInUse = nInUse
  BY DEF RightHead
<1>2. Fed \in Seq(0 .. nInUse - 1) /\ Len(Fed) = nblock
  BY FedType, FormatAssumption, ReaderAssumption DEF ReadyToWrite
<1>3. nblock \in 1 .. MaxBlock /\ MaxBlock \in Nat /\ MaxBlock < RunLimit /\ RunLimit \in Nat
  BY BlockSymbols, RoundTripAssumption, ReaderAssumption
  DEF ReadyToWrite, RoundTripAssumption, ReaderAssumption
<1>4. nblock < RunLimit /\ nblock <= MaxBlock
  BY <1>3
<1>5. mtfv = GenerateMTFValues(Fed, head.nInUse)
  BY <1>1 DEF ReadyToWrite
<1>6. FormatAssumption /\ ReaderAssumption /\ HeadOK(head) /\ Fed \in Seq(0 .. head.nInUse - 1)
      /\ Len(Fed) < RunLimit /\ Len(Fed) <= MaxBlock /\ AtStart(r)
      /\ Taken(GenerateMTFValues(Fed, head.nInUse), r)
  BY <1>1, <1>2, <1>4, <1>5, FormatAssumption, ReaderAssumption
<1>7. LET coded == GenerateMTFValues(Fed, head.nInUse)
      IN  /\ Welcome(coded, r)
          /\ r[Len(coded)].tt = Spelled(Fed, Len(Fed))
          /\ \A k \in 1 .. Len(coded) : coded[k] = Eob <=> k = Len(coded)
  BY ONLY <1>6, SymbolsDecode
<1> QED  BY <1>2, <1>5, <1>7

\* The next symbol of a block that arrives whole is taken for what it is.
LEMMA SymbolOfBlock ==
    ASSUME IInv, ReadyToWrite, FieldsStand, head = RightHead, TablesRead(decode),
           reader = "symbols", NEW k \in 0 .. Len(mtfv) - 1,
           NEW r, AtStart(r), Taken(mtfv, r), SymbolsSoFar(k, r, pos, group, Reading), ReadSymbol
    PROVE  /\ SymbolsSoFar(k + 1, r, pos', group', Reading')
           /\ reader' = IF k + 1 = Len(mtfv) THEN "inverse" ELSE "symbols"
           /\ UNCHANGED << arrived, head, decode >>
<1> DEFINE no == GroupRead
           lens == codeLens[TableOf(k + 1)]
           v == mtfv[k + 1]
<1>0. BitsArrived /\ HeadOK(head)
  BY DEF IInv, ReaderTypeOK, BitsArrived, HeaderRead
<1>1. /\ TableOf(k + 1) \in Tables /\ v \in 0 .. nInUse + 1
      /\ lens \in [0 .. nInUse + 1 -> 1 .. Longest]
      /\ ReadBits(pos, lens[v]) = AssignCodes(lens)[v] /\ ~PastEnd(pos + lens[v])
      /\ pos + lens[v] = DataAt + Offset(CodeParts, k + 1)
  <2>1. pos = DataAt + Offset(CodeParts, k)
    BY DEF SymbolsSoFar
  <2> QED  BY <1>0, <2>1, CodeBack
<1>2. head.nInUse = nInUse /\ head.selector = selector
  BY DEF RightHead
<1>3. /\ Len(mtfv) \in Nat /\ Len(mtfv) \in 1 .. MaxBlock + 1 /\ mtfv \in Seq(Symbols)
      /\ GroupSize \in Nat \ {0}
  BY ReadySizes, FormatAssumption DEF FormatAssumption
<1>4. k \in Nat /\ k + 1 \in 1 .. Len(mtfv) /\ (k + 1) - 1 = k
  BY <1>3
<1>5. no = k \div GroupSize /\ InGroup(k + 1, NextGroup)
  BY <1>3, <1>4, GroupOfNext, GroupMovesOn DEF SymbolsSoFar
<1>6. no + 1 \in 1 .. Len(selector) /\ TableOf(k + 1) = selector[no + 1]
  <2>1. ((k + 1) - 1) \div GroupSize + 1 \in 1 .. Len(selector)
    BY <1>3, <1>4, TableOfType DEF ReadyToWrite
  <2> QED  BY <1>4, <1>5, <2>1 DEF TableOf
<1>7. no < Len(selector)
  <2>1. no \in Int /\ Len(selector) \in Nat
    <3>1. no \in Int
      BY <1>3, <1>4, <1>5
    <3> QED  BY <3>1 DEF ReadyToWrite
  <2> HIDE DEF no
  <2> QED  BY <1>6, <2>1
<1>8. decode[selector[no + 1] + 1] = CreateDecodeTables(lens, Longest)
  <2> DEFINE t == TableOf(k + 1)
  <2>1. t \in 0 .. Cardinality(Tables) - 1 /\ Cardinality(Tables) \in Nat
    BY <1>1, TablePartsType
  <2> HIDE DEF t
  <2>2. t + 1 \in 1 .. Cardinality(Tables) /\ (t + 1) - 1 = t
    BY <2>1
  <2>3. decode[t + 1] = MadeFor(t + 1)
    BY <2>2 DEF TablesRead
  <2> QED  BY <1>6, <2>2, <2>3 DEF MadeFor, t
<1>9. GetSymbol.fails = "no" /\ GetSymbol.sym = v /\ GetSymbol.p = pos + lens[v]
  <2> HIDE DEF lens, v
  <2>1. /\ IInv /\ reader = "symbols" /\ GroupRead < Len(head.selector)
        /\ lens \in [0 .. head.nInUse + 1 -> 1 .. Longest]
        /\ decode[head.selector[GroupRead + 1] + 1] = CreateDecodeTables(lens, Longest)
        /\ v \in 0 .. head.nInUse + 1
        /\ ReadBits(pos, lens[v]) = AssignCodes(lens)[v] /\ ~PastEnd(pos + lens[v])
    BY <1>1, <1>2, <1>7, <1>8
  <2> QED  BY ONLY <2>1, SymbolArrives
<1>10. /\ Welcome(mtfv, r) /\ \A j \in 1 .. Len(mtfv) : mtfv[j] = Eob <=> j = Len(mtfv)
  BY <1>0, SymbolsWelcome
<1>11. Reading = r[k] /\ Accepted(Reading, v) /\ After(Reading, v) = r[k + 1]
  BY <1>4, <1>10 DEF SymbolsSoFar, Welcome, Taken
<1>12. /\ Reading' = After(Reading, v)
       /\ reader' = IF v = Eob THEN "inverse" ELSE "symbols"
  <2> HIDE DEF v
  <2>1. IInv /\ ReadSymbol /\ GetSymbol.fails = "no" /\ Accepted(Reading, GetSymbol.sym)
    BY <1>9, <1>11
  <2>2. /\ Reading' = After(Reading, GetSymbol.sym)
        /\ reader' = IF GetSymbol.sym = Eob THEN "inverse" ELSE "symbols"
    BY ONLY <2>1, SymbolTaken
  <2> QED  BY <1>9, <2>2
<1>13. pos' = pos + lens[v] /\ group' = NextGroup /\ UNCHANGED << arrived, head, decode >>
  <2>1. GetSymbol.group = NextGroup
    BY <1>9, GroupLeft
  <2> DEFINE got == GetSymbol
  <2>2. pos' = got.p /\ group' = got.group /\ UNCHANGED << arrived, head, decode >>
    <3> HIDE DEF got
    <3>1. got.fails = "no"
      BY <1>9 DEF got
    <3>2. /\ \/ got.fails # "no"
             \/ pos' = got.p /\ group' = got.group
          /\ UNCHANGED << arrived, head, decode >>
      BY DEF ReadSymbol, got
    <3> QED  BY <3>1, <3>2
  <2> QED  BY <1>9, <2>1, <2>2
<1> QED  BY <1>1, <1>4, <1>5, <1>10, <1>11, <1>12, <1>13 DEF SymbolsSoFar

\* What the symbols of a block stand for are the bytes in front of its rotations.
LEMMA FrontsSpelled ==
    ASSUME ReadyToWrite, head = RightHead, tt = Spelled(Fed, nblock)
    PROVE  FrontsRead(nblock, input, ptr)
<1>1. /\ nblock \in 1 .. MaxBlock /\ input \in [Positions -> Bytes] /\ inUse \in SUBSET Bytes
      /\ block = input /\ ptr \in [Positions -> Positions] /\ Positions = 0 .. nblock - 1
      /\ MaxBlock \in Nat
  BY FormatAssumption, ReaderAssumption, BlockSizes DEF ReadyToWrite, SortKept, Positions, ReaderAssumption
<1>2. nblock \in Nat \ {0}
  BY <1>1
<1>3. Len(tt) = nblock
  BY <1>2 DEF Spelled
<1>4. ASSUME NEW i \in 0 .. nblock - 1
      PROVE  tt[i + 1] = input[(ptr[i] - 1 + nblock) % nblock]
  <2> DEFINE at == (ptr[i] - 1 + nblock) % nblock
             c == block[at]
             n == nblock
  <2>1. i + 1 \in 1 .. n /\ (i + 1) - 1 = i /\ ptr[i] \in 0 .. n - 1
    BY <1>1, <1>2
  <2>2. at \in 0 .. n - 1
    <3>1. Prev(ptr[i], n) \in 0 .. n - 1 /\ (ptr[i] - 1 + n) % n = Prev(ptr[i], n)
      BY <1>2, <2>1, PrevTurn
    <3> QED  BY <3>1
  <2>3. c \in inUse
    <3>1. at \in DOMAIN block
      BY <1>1, <2>2
    <3> QED  BY <3>1 DEF inUse
  <2>4. tt[i + 1] = ByteAt(Fed[i + 1])
    BY <2>1 DEF Spelled
  <2>5. Fed[i + 1] = unseqToSeq(c)
    <3>1. Fed[i + 1] = unseqToSeq(block[Rotate(ptr[(i + 1) - 1] - 1 + nblock)])
      BY <2>1 DEF Fed
    <3> QED  BY <2>1, <3>1 DEF Rotate
  <2> HIDE DEF c
  <2>6. ByteAt(unseqToSeq(c)) = c
    <3> DEFINE k == Cardinality({b \in inUse : b < c})
    <3>1. SeqToUnseq(inUse)[k] = c /\ k \in 0 .. Cardinality(inUse) - 1
      BY <1>1, <2>3, FormatAssumption, NumberBack
    <3>2. unseqToSeq(c) = k
      BY DEF unseqToSeq
    <3>3. head.seqToUnseq = SeqToUnseq(inUse)
      BY DEF RightHead
    <3>4. DOMAIN SeqToUnseq(inUse) = 0 .. Cardinality(inUse) - 1
      BY DEF SeqToUnseq, InOrder
    <3> HIDE DEF k
    <3> QED  BY <3>1, <3>2, <3>3, <3>4 DEF ByteAt
  <2> QED  BY <1>1, <2>4, <2>5, <2>6 DEF c
<1> QED  BY <1>3, <1>4 DEF FrontsRead

\* The block as it was before the sort.
Restored(b) == b = [i \in 1 .. nblock |-> input[i - 1]]

\* The last step, on a block whose header and bytes came through.
LEMMA BlockRestored ==
    ASSUME IInv, ReadyToWrite, head = RightHead, tt = Spelled(Fed, nblock), Invert
    PROVE  reader' = "ok" /\ Restored(tt') /\ head' = head
<1>1. /\ nblock \in 1 .. MaxBlock /\ input \in [Positions -> Bytes]
      /\ block = input /\ ptr \in [Positions -> Positions] /\ Positions = 0 .. nblock - 1
      /\ ListsRotations(ptr, input, nblock) /\ MaxBlock \in Nat
  BY FormatAssumption, ReaderAssumption, BlockSizes DEF ReadyToWrite, SortKept, Positions, ReaderAssumption
<1>2. nblock \in Nat \ {0}
  BY <1>1
<1>3. Sorts(nblock, input, ptr)
  BY <1>1 DEF Sorts
<1>4. FrontsRead(nblock, input, ptr)
  BY FrontsSpelled
<1>5. OrigPtr \in Nat /\ OrigPtr < nblock /\ ptr[OrigPtr] = 0
  BY OrigPtrFound DEF ReadyToWrite
<1>6. head.origPtr < nblock /\ ptr[head.origPtr] = 0
  BY <1>5 DEF RightHead
<1>7. /\ reader' = "ok" /\ tt' = [k \in 1 .. nblock |-> input[k - 1]]
  BY <1>2, <1>3, <1>4, <1>6, SortUndone
<1> QED  BY <1>7 DEF Restored, Invert

-----------------------------------------------------------------------------
(* The whole way, followed.                                                *)

\* What the reader has of a block that arrives whole.
Followed ==
    /\ reader \in {"header", "tables", "symbols", "inverse", "ok"}
    /\ reader = "header" => StateInit
    /\ reader \in {"tables", "symbols", "inverse"} => head = RightHead
    /\ reader = "tables" => /\ TablesSoFar(decode, pos) /\ Len(decode) < Cardinality(Tables)
                            /\ group = [no |-> -1, left |-> 0]
                            /\ Stands(Reading, NoRun, InitialList(A), << >>)
    /\ reader = "symbols" =>
          /\ TablesRead(decode)
          /\ \E r : /\ AtStart(r) /\ Taken(mtfv, r)
                    /\ \E k \in 0 .. Len(mtfv) - 1 : SymbolsSoFar(k, r, pos, group, Reading)
    /\ reader = "inverse" => tt = Spelled(Fed, nblock)
    /\ reader = "ok" => Restored(tt)

\* When a block arrives as it was written, the encoder is done with it.
LEMMA Delivered ==
    ASSUME SysInv, sent, arrived = stream
    PROVE  /\ ReadyToWrite /\ BitsArrived /\ FieldsStand /\ IInv
           /\ (reader \in {"tables", "symbols", "inverse"} => HeadOK(head))
<1>1. EncoderInv /\ IInv /\ coder = "written"
  BY DEF SysInv
<1>2. SortKept /\ sorter = "sorted" /\ mtfv = GenerateMTFValues(Fed, nInUse)
  BY <1>1 DEF EncoderInv, SymbolsKept
<1>3. selector \in Seq(Tables) /\ Len(selector) = NumberOfGroups
  BY <1>1 DEF EncoderInv, Chosen
<1>4. codeLens \in [Tables -> [Symbols -> LengthsAllowed]] /\ \A t \in Tables : codeLens[t] \in UsableLengths
  BY <1>1 DEF EncoderInv, TablesUsable
<1>5. ReadyToWrite
  BY <1>2, <1>3, <1>4 DEF ReadyToWrite
<1>6. arrived = BlockBits
  BY <1>1 DEF EncoderInv, FieldsWritten
<1>7. BitsArrived
  BY <1>1 DEF IInv, ReaderTypeOK, BitsArrived
<1>8. FieldsStand
  BY <1>5, <1>6, <1>7, FieldsArrive
<1> QED  BY <1>1, <1>5, <1>7, <1>8 DEF IInv, HeaderRead

\* What was written stays while the block is read.
LEMMA WrittenStays ==
    ASSUME UNCHANGED << sortedVars, coderVars >>
    PROVE  /\ RightHead' = RightHead /\ Cardinality(Tables)' = Cardinality(Tables)
           /\ TablesAt' = TablesAt /\ DataAt' = DataAt
           /\ TableParts' = TableParts /\ CodeParts' = CodeParts
           /\ Fed' = Fed /\ nblock' = nblock /\ input' = input /\ mtfv' = mtfv /\ codeLens' = codeLens
<1>1. UNCHANGED << input, block, sorter, ptr, mtfv, codeLens, selector >>
  BY DEF sortedVars, coderVars
<1>2. /\ nblock' = nblock /\ nInUse' = nInUse /\ alphaSize' = alphaSize /\ inUse' = inUse
      /\ Fed' = Fed /\ OrigPtr' = OrigPtr
  <2>1. UNCHANGED sortedVars
    OBVIOUS
  <2> QED  BY <2>1, SortedStays
<1>3. Tables' = Tables
  BY <1>1, SymbolsStay
<1>4. Cardinality(Tables)' = Cardinality(Tables) /\ RightHead' = RightHead
  BY <1>1, <1>2, <1>3 DEF RightHead
<1>5. MapBits' = MapBits
  BY <1>2 DEF MapBits, Concat, RowUsed, Row, Bit
<1>6. SelectorBits' = SelectorBits
  BY <1>1, <1>3 DEF SelectorBits, Concat
<1>7. TableParts' = TableParts /\ TablesBits' = TablesBits
  BY <1>1, <1>2, <1>4 DEF TableParts, TablesBits, TableBits, Concat
<1>8. CodeParts' = CodeParts
  BY <1>1 DEF CodeParts, CodeBits, TableOf
<1>9. TablesAt' = TablesAt /\ DataAt' = DataAt
  BY <1>5, <1>6, <1>7 DEF TablesAt, DataAt, SelsAt, RowsAt
<1> QED  BY <1>1, <1>2, <1>4, <1>7, <1>8, <1>9

\* A reader that stands still follows.
LEMMA FollowedStays ==
    ASSUME Followed, UNCHANGED << sortedVars, coderVars, stateVars >>
    PROVE  Followed'
<1>1. UNCHANGED << reader, pos, head, decode, group, list, run, tt >>
  BY DEF stateVars
<1>2. /\ RightHead' = RightHead /\ Cardinality(Tables)' = Cardinality(Tables)
      /\ TablesAt' = TablesAt /\ DataAt' = DataAt
      /\ TableParts' = TableParts /\ CodeParts' = CodeParts
      /\ Fed' = Fed /\ nblock' = nblock /\ input' = input /\ mtfv' = mtfv /\ codeLens' = codeLens
  BY WrittenStays
<1>3. CASE reader \in {"header", "inverse", "ok"}
  BY <1>1, <1>2, <1>3 DEF Followed, StateInit, Spelled, ByteAt, Restored
<1>4. CASE reader = "tables"
  BY <1>1, <1>2, <1>4 DEF Followed, TablesSoFar, MadeFor, Stands, Reading
<1>5. CASE reader = "symbols"
  <2>1. TablesRead(decode)'
    BY <1>1, <1>2, <1>5 DEF Followed, TablesRead, MadeFor
  <2>2. PICK r : AtStart(r) /\ Taken(mtfv, r)
                 /\ \E k \in 0 .. Len(mtfv) - 1 : SymbolsSoFar(k, r, pos, group, Reading)
    BY <1>5 DEF Followed
  <2>3. Taken(mtfv, r)'
    BY <1>1, <1>2, <2>2 DEF Taken, After, Ended, ByteAt, Eob
  <2>4. \E k \in 0 .. Len(mtfv') - 1 : SymbolsSoFar(k, r, pos, group, Reading)'
    BY <1>1, <1>2, <2>2 DEF SymbolsSoFar, Reading
  <2> QED  BY <1>1, <1>2, <1>5, <2>1, <2>2, <2>3, <2>4 DEF Followed
<1> QED  BY <1>3, <1>4, <1>5 DEF Followed

\* The header (reader.go:183-264).
LEMMA HeaderFollowed ==
    ASSUME SysInv, sent, arrived = stream, Followed, ReadHeader,
           UNCHANGED << sortedVars, coderVars >>
    PROVE  Followed'
<1>1. ReadyToWrite /\ BitsArrived /\ FieldsStand
  BY Delivered
<1>2. reader = "header" /\ StateInit
  BY DEF ReadHeader, Followed
<1>3. /\ head' = RightHead /\ pos' = TablesAt /\ list' = InitialList(A) /\ reader' = "tables"
      /\ UNCHANGED << decode, group, run, tt >>
  BY <1>1, HeaderArrives
<1>4. /\ decode' = << >> /\ group' = [no |-> -1, left |-> 0] /\ run' = NoRun /\ tt' = << >>
  BY <1>2, <1>3 DEF StateInit
<1>5. /\ Cardinality(Tables) \in Nat /\ Cardinality(Tables) > 0
      /\ Offset(TableParts, 0) = 0 /\ TablesAt \in Nat
  <2>1. Cardinality(Tables) \in 2 .. NGroups /\ NGroups \in 2 .. 7
    BY <1>1, SelectorBitsAre
  <2>2. TableParts \in Seq(Seq(Bit01))
    BY <1>1, TablePartsType
  <2>3. TablesAt \in Nat
    BY <1>1 DEF FieldsStand, Standing
  <2>4. Offset(TableParts, 0) = 0
    BY <2>2, OffsetSteps
  <2>5. Cardinality(Tables) \in Nat /\ Cardinality(Tables) > 0
    BY <2>1
  <2> QED  BY <2>3, <2>4, <2>5
<1>6. /\ RightHead' = RightHead /\ Cardinality(Tables)' = Cardinality(Tables)
      /\ TablesAt' = TablesAt /\ TableParts' = TableParts
  BY WrittenStays
<1>7. TablesSoFar(decode, pos)' /\ Len(decode') < Cardinality(Tables)'
  <2>1. Len(decode') = 0 /\ pos' = TablesAt + Offset(TableParts, 0)
    BY <1>3, <1>4, <1>5
  <2>2. 0 \in 0 .. Cardinality(Tables) /\ 1 .. 0 = {}
    BY <1>5
  <2> QED  BY <1>5, <1>6, <2>1, <2>2 DEF TablesSoFar
<1>8. Stands(Reading, NoRun, InitialList(A), << >>)'
  BY <1>3, <1>4 DEF Stands, Reading
<1> QED  BY <1>3, <1>4, <1>6, <1>7, <1>8 DEF Followed

\* A table, the last of them or another (reader.go:266-313).
LEMMA TablesFollowed ==
    ASSUME SysInv, sent, arrived = stream, Followed, ReadTable,
           UNCHANGED << sortedVars, coderVars >>
    PROVE  Followed'
<1> DEFINE C == Cardinality(Tables)
<1>1. ReadyToWrite /\ BitsArrived /\ FieldsStand /\ IInv
  BY Delivered
<1>2. reader = "tables"
  BY DEF ReadTable
<1>3. /\ head = RightHead /\ TablesSoFar(decode, pos) /\ Len(decode) < C
      /\ group = [no |-> -1, left |-> 0] /\ Stands(Reading, NoRun, InitialList(A), << >>)
      /\ HeadOK(head)
  BY <1>1, <1>2, Delivered DEF Followed
<1>4. /\ TableParts \in Seq(Seq(Bit01)) /\ Len(TableParts) = C /\ FlattenSeq(TableParts) = TablesBits
      /\ C \in Nat /\ Tables = 0 .. C - 1
  BY <1>1, TablePartsType
<1>5. decode \in Seq(DecodeTables(head.nInUse + 2)) /\ Len(decode) \in Nat
  BY <1>1, <1>2 DEF IInv, TablesMade
<1>6. MadeFor(Len(decode) + 1) \in DecodeTables(head.nInUse + 2)
  <2> DEFINE t == Len(decode)
  <2>1. t \in Tables /\ (t + 1) - 1 = t
    BY <1>3, <1>4, <1>5
  <2>2. codeLens[t] \in UsableLengths
    BY <1>1, <2>1 DEF ReadyToWrite
  <2>3. /\ alphaSize \in Nat \ {0} /\ Symbols = 0 .. alphaSize - 1 /\ alphaSize = nInUse + 2
        /\ nInUse \in 1 .. A
    BY <1>1, ReadySizes
  <2>4. 0 \in Symbols
    BY <2>3
  <2> HIDE DEF t
  <2>5. codeLens[t] \in [0 .. alphaSize - 1 -> 1 .. Longest]
    BY <2>2, <2>3, <2>4, CodeType
  <2>6. CreateDecodeTables(codeLens[t], Longest) \in DecodeTables(alphaSize)
    BY <2>3, <2>5, ReaderAssumption, CreateDecodeTablesType
  <2>7. head.nInUse + 2 = alphaSize
    BY <1>3, <2>3 DEF RightHead
  <2>8. MadeFor(t + 1) = CreateDecodeTables(codeLens[t], Longest)
    BY <2>1 DEF MadeFor
  <2> QED  BY <2>6, <2>7, <2>8 DEF t
<1>7. /\ TablesSoFar(decode', pos') /\ Len(decode') = Len(decode) + 1
      /\ reader' = IF Len(decode') = C THEN "symbols" ELSE "tables"
      /\ UNCHANGED << arrived, head, group, list, run, tt >>
  BY <1>1, <1>3, <1>5, <1>6, TableArrives
<1>8. /\ RightHead' = RightHead /\ Cardinality(Tables)' = Cardinality(Tables)
      /\ TablesAt' = TablesAt /\ DataAt' = DataAt
      /\ TableParts' = TableParts /\ CodeParts' = CodeParts
      /\ mtfv' = mtfv /\ codeLens' = codeLens
  BY WrittenStays
<1>9. head' = RightHead' /\ Stands(Reading, NoRun, InitialList(A), << >>)'
  BY <1>3, <1>7, <1>8 DEF Stands, Reading
<1>10. CASE Len(decode') # C
  <2>1. Len(decode') < C
    BY <1>3, <1>4, <1>5, <1>7, <1>10
  <2>2. TablesSoFar(decode, pos)'
    BY <1>7, <1>8 DEF TablesSoFar, MadeFor
  <2> QED  BY <1>3, <1>7, <1>8, <1>9, <1>10, <2>1, <2>2 DEF Followed
<1>11. CASE Len(decode') = C
  <2>1. reader' = "symbols"
    BY <1>7, <1>11
  <2>2. TablesRead(decode)'
    BY <1>7, <1>8, <1>11 DEF TablesSoFar, TablesRead, MadeFor
  <2>3. pos' = DataAt
    <3>1. Offset(TableParts, C) = Len(TablesBits)
      BY <1>4, OffsetSteps
    <3>2. pos' = TablesAt + Offset(TableParts, Len(decode'))
      BY <1>7 DEF TablesSoFar
    <3> QED  BY <1>11, <3>1, <3>2 DEF DataAt
  <2>4. /\ mtfv \in Seq(0 .. head.nInUse + 1) /\ Len(mtfv) \in Nat /\ Len(mtfv) > 0
    <3>1. /\ mtfv \in Seq(Symbols) /\ Len(mtfv) \in 1 .. MaxBlock + 1
          /\ alphaSize = nInUse + 2 /\ Symbols = 0 .. alphaSize - 1 /\ nInUse \in 1 .. A
          /\ Len(mtfv) \in Nat
      BY <1>1, ReadySizes
    <3>2. alphaSize - 1 = nInUse + 1 /\ head.nInUse = nInUse
      BY <1>3, <3>1 DEF RightHead
    <3> QED  BY <3>1, <3>2
  <2>5. PICK r : AtStart(r) /\ Taken(mtfv, r)
    BY <1>3, <2>4, FormatAssumption, TakenExists
  <2>6. AtStart(r)' /\ Taken(mtfv, r)'
    <3>1. head' = head
      BY <1>7
    <3> QED  BY <1>8, <2>5, <3>1 DEF Taken, After, Ended, ByteAt, Eob, AtStart, Stands
  <2>7. SymbolsSoFar(0, r, pos, group, Reading)'
    <3>1. Offset(CodeParts, 0) = 0
      BY <1>1, CodePartsType, OffsetSteps
    <3>2. InGroup(0, group')
      <4>1. group' = [no |-> -1, left |-> 0] /\ GroupSize \in Nat \ {0}
        BY <1>3, <1>7, FormatAssumption DEF FormatAssumption
      <4>2. 0 + 0 = (-1 + 1) * GroupSize /\ 0 \in 0 .. GroupSize - 1
        BY <4>1
      <4> QED  BY <4>1, <4>2 DEF InGroup
    <3>3. DataAt \in Nat
      BY <1>1 DEF FieldsStand, Standing
    <3>4. pos' = DataAt + Offset(CodeParts, 0)
      BY <2>3, <3>1, <3>3
    <3>5. Reading' = r[0]
      BY <1>9, <2>5 DEF Stands, AtStart
    <3> QED  BY <1>8, <3>2, <3>4, <3>5 DEF SymbolsSoFar
  <2>8. 0 \in 0 .. Len(mtfv') - 1
    BY <1>8, <2>4
  <2> QED  BY <1>9, <2>1, <2>2, <2>6, <2>7, <2>8 DEF Followed
<1> QED  BY <1>10, <1>11

\* A symbol (reader.go:327-421).
LEMMA SymbolsFollowed ==
    ASSUME SysInv, sent, arrived = stream, Followed, ReadSymbol,
           UNCHANGED << sortedVars, coderVars >>
    PROVE  Followed'
<1>1. ReadyToWrite /\ BitsArrived /\ FieldsStand /\ IInv
  BY Delivered
<1>2. reader = "symbols"
  BY DEF ReadSymbol
<1>3. head = RightHead /\ TablesRead(decode) /\ HeadOK(head)
  BY <1>1, <1>2, Delivered DEF Followed
<1>4. PICK r : /\ AtStart(r) /\ Taken(mtfv, r)
               /\ \E k \in 0 .. Len(mtfv) - 1 : SymbolsSoFar(k, r, pos, group, Reading)
  BY <1>2 DEF Followed
<1>5. PICK k \in 0 .. Len(mtfv) - 1 : SymbolsSoFar(k, r, pos, group, Reading)
  BY <1>4
<1>6. /\ SymbolsSoFar(k + 1, r, pos', group', Reading')
      /\ reader' = IF k + 1 = Len(mtfv) THEN "inverse" ELSE "symbols"
      /\ UNCHANGED << arrived, head, decode >>
  BY <1>1, <1>2, <1>3, <1>4, <1>5, SymbolOfBlock
<1>7. /\ RightHead' = RightHead /\ Cardinality(Tables)' = Cardinality(Tables)
      /\ TablesAt' = TablesAt /\ DataAt' = DataAt /\ CodeParts' = CodeParts
      /\ Fed' = Fed /\ nblock' = nblock /\ mtfv' = mtfv /\ codeLens' = codeLens
  BY WrittenStays
<1>8. Len(mtfv) \in Nat
  BY <1>1, ReadySizes
<1>9. CASE k + 1 # Len(mtfv)
  <2>1. k + 1 \in 0 .. Len(mtfv') - 1
    BY <1>7, <1>8, <1>9
  <2>2. SymbolsSoFar(k + 1, r, pos, group, Reading)'
    BY <1>6, <1>7 DEF SymbolsSoFar
  <2>3. AtStart(r)' /\ Taken(mtfv, r)'
    BY <1>4, <1>6, <1>7 DEF Taken, After, Ended, ByteAt, Eob, AtStart, Stands
  <2>4. TablesRead(decode)'
    BY <1>3, <1>6, <1>7 DEF TablesRead, MadeFor
  <2> QED  BY <1>3, <1>6, <1>7, <1>9, <2>1, <2>2, <2>3, <2>4 DEF Followed
<1>10. CASE k + 1 = Len(mtfv)
  <2>1. r[Len(mtfv)].tt = Spelled(Fed, nblock)
    BY <1>1, <1>3, <1>4, SymbolsWelcome
  <2>2. tt' = Spelled(Fed, nblock)
    <3>1. Reading' = r[Len(mtfv)]
      BY <1>6, <1>10 DEF SymbolsSoFar
    <3>2. Reading'.tt = tt'
      BY DEF Reading
    <3> QED  BY <2>1, <3>1, <3>2
  <2>3. tt' = Spelled(Fed, nblock)'
    BY <1>6, <1>7, <2>2 DEF Spelled, ByteAt
  <2> QED  BY <1>3, <1>6, <1>7, <1>10, <2>3 DEF Followed
<1> QED  BY <1>9, <1>10

\* The inverse of the sort (reader.go:424-466).
LEMMA InverseFollowed ==
    ASSUME SysInv, sent, arrived = stream, Followed, Invert,
           UNCHANGED << sortedVars, coderVars >>
    PROVE  Followed'
<1>1. ReadyToWrite /\ IInv
  BY Delivered
<1>2. head = RightHead /\ tt = Spelled(Fed, nblock)
  BY DEF Invert, Followed
<1>3. reader' = "ok" /\ Restored(tt')
  BY <1>1, <1>2, BlockRestored
<1>4. nblock' = nblock /\ input' = input
  BY WrittenStays
<1>5. Restored(tt)'
  BY <1>3, <1>4 DEF Restored
<1> QED  BY <1>3, <1>5 DEF Followed

-----------------------------------------------------------------------------
\* The invariant of the encoder and the reader, and what the reader has if the block arrived whole.
FollowInv == SysInv /\ (sent /\ arrived = stream => Followed)

\* Before the block is sent the reader has not begun; then each of its steps is one of the four.
LEMMA FollowStep ==
    ASSUME FollowInv, [Next]_vars
    PROVE  FollowInv'
<1>1. SysInv'
  BY SysStep DEF FollowInv
<1> SUFFICES ASSUME sent', arrived' = stream' PROVE Followed'
  BY <1>1 DEF FollowInv
<1>2. CASE ~sent
  <2>1. StateInit
    BY <1>2 DEF FollowInv, SysInv
  <2>2. UNCHANGED stateVars
    <3>1. CASE UNCHANGED vars
      BY <3>1 DEF vars, codedVars, readerVars
    <3>2. CASE Next
      BY <1>2, <3>2 DEF Next, CodedStep, Transmit, Finished, vars, codedVars, readerVars
    <3> QED  BY <3>1, <3>2
  <2>3. StateInit'
    BY <2>1, <2>2 DEF StateInit, stateVars
  <2> QED  BY <2>3 DEF Followed, StateInit
<1>3. CASE sent
  <2>1. coder = "written" /\ EncoderInv
    BY <1>3 DEF FollowInv, SysInv
  <2>2. sorter = "sorted"
    BY <2>1 DEF EncoderInv, SymbolsKept
  <2>3. ~Sort /\ ~EncoderStep /\ ~Transmit
    BY <1>3, <2>1, <2>2 DEF Sort, EncoderStep, MakeSymbols, SelectTables, MakeCodeLengths, Iterate,
                            WriteBlockData, Transmit
  <2>4. UNCHANGED vars \/ (ReaderStep /\ UNCHANGED << sortedVars, coderVars, sent >>)
    BY <2>3 DEF Next, CodedStep, Finished
  <2>5. CASE UNCHANGED vars
    <3>1. UNCHANGED << sortedVars, coderVars, stateVars >> /\ arrived = stream
      BY <2>5 DEF vars, codedVars, readerVars, coderVars
    <3> QED  BY <1>3, <3>1, FollowedStays DEF FollowInv
  <2>6. CASE ReaderStep /\ UNCHANGED << sortedVars, coderVars, sent >>
    <3>1. UNCHANGED arrived
      BY <2>6 DEF ReaderStep, ReadHeader, ReadTable, ReadSymbol, Invert
    <3>2. stream' = stream /\ UNCHANGED << sortedVars, coderVars >>
      BY <2>6 DEF coderVars
    <3>3. arrived = stream /\ Followed /\ SysInv
      BY <1>3, <3>1, <3>2 DEF FollowInv
    <3> QED  BY <1>3, <2>6, <3>2, <3>3, HeaderFollowed, TablesFollowed, SymbolsFollowed, InverseFollowed
             DEF ReaderStep
  <2> QED  BY <2>4, <2>5, <2>6
<1> QED  BY <1>2, <1>3

\* Every block that arrives as it was written is read as the block, and without an
\* error: for all alphabets, blocks, field widths and limits that the assumptions allow
\* and whatever frequencies the block has (writer.go:483-724, reader.go:183-466).
THEOREM EveryBlockDecodes == Spec => []DecodesBack
<1>1. Init => FollowInv
  <2> SUFFICES ASSUME Init PROVE FollowInv
    OBVIOUS
  <2>1. SysInv
    BY EncoderStarted
  <2>2. ~sent
    BY DEF Init, CodedInit
  <2> QED  BY <2>1, <2>2 DEF FollowInv
<1>2. FollowInv /\ [Next]_vars => FollowInv'
  BY FollowStep
<1>3. FollowInv => DecodesBack
  BY DEF FollowInv, DecodesBack, Followed, Failed, Restored
<1> QED  BY <1>1, <1>2, <1>3, PTL DEF Spec
=================================================================================
