------------------------------ MODULE BitIO_proofs ------------------------------
(***************************************************************************)
(* What the run of BitIO checks for bytes of two bits and accumulators of  *)
(* four, proved for every width that satisfies the assumptions, the code's *)
(* 8, 64 and 32 among them, and for streams of any length.                 *)
(***************************************************************************)
EXTENDS BitIO, SequenceFolds

-----------------------------------------------------------------------------
(* Accumulators. *)

\* Nothing but zeros behind the first bits.
Clean(acc, bits) == \A k \in bits + 1..AccBits : acc[k] = 0

\* The widths are numbers, and a call's bits fit next to an incomplete byte.
LEMMA Widths ==
    /\ ByteBits \in Nat /\ ByteBits >= 1 /\ AccBits \in Nat
    /\ MaxBits \in Nat /\ MaxBits >= 1
    /\ AccBits >= MaxBits + ByteBits - 1 /\ AccBits >= 2 * ByteBits - 1
  BY ByteAssumption, AccAssumption

\* The first bits of an accumulator.
LEMMA TopFacts ==
    ASSUME NEW acc \in Acc, NEW bits \in 0..AccBits
    PROVE  /\ Top(acc, bits) \in Seq(Bit) /\ Len(Top(acc, bits)) = bits
           /\ \A k \in 1..bits : Top(acc, bits)[k] = acc[k]
<1>1. AccBits \in Nat /\ bits \in Nat
  BY Widths
<1>2. \A k \in 1..bits : acc[k] \in Bit
  BY <1>1 DEF Acc
<1>3. /\ SubSeq(acc, 1, bits) \in Seq(Bit)
      /\ Len(SubSeq(acc, 1, bits)) = IF 1 <= bits THEN bits - 1 + 1 ELSE 0
      /\ \A k \in 1..bits - 1 + 1 : SubSeq(acc, 1, bits)[k] = acc[1 + k - 1]
  BY <1>1, <1>2, SubSeqProperties
<1> QED  BY <1>1, <1>3 DEF Top

\* A value OR-ed in behind the bits there follows them (bitio.go:23, 87).
LEMMA PlaceFacts ==
    ASSUME NEW acc \in Acc, NEW bits \in Nat, Clean(acc, bits),
           NEW v \in Seq(Bit), bits + Len(v) <= AccBits
    PROVE  /\ Place(acc, bits, v) \in Acc
           /\ Clean(Place(acc, bits, v), bits + Len(v))
           /\ Top(Place(acc, bits, v), bits + Len(v)) = Top(acc, bits) \o v
<1>1. AccBits \in Nat /\ Len(v) \in Nat /\ DOMAIN v = 1..Len(v)
      /\ \A k \in 1..Len(v) : v[k] \in Bit
  BY Widths
<1>2. Place(acc, bits, v) \in Acc
  BY DEF Place, Acc, Bit
<1>3. Clean(Place(acc, bits, v), bits + Len(v))
  <2> SUFFICES ASSUME NEW k \in bits + Len(v) + 1..AccBits
               PROVE  Place(acc, bits, v)[k] = 0
    BY DEF Clean
  <2>1. k \in 1..AccBits /\ k - bits \notin DOMAIN v /\ k \in bits + 1..AccBits
    BY <1>1
  <2> QED  BY <2>1 DEF Place, Clean
<1>4. bits \in 0..AccBits /\ bits + Len(v) \in 0..AccBits
  BY <1>1
<1>5. /\ Top(acc, bits) \in Seq(Bit) /\ Len(Top(acc, bits)) = bits
      /\ \A k \in 1..bits : Top(acc, bits)[k] = acc[k]
  BY <1>4, TopFacts
<1>6. LET t == Top(Place(acc, bits, v), bits + Len(v))
      IN  /\ t \in Seq(Bit) /\ Len(t) = bits + Len(v)
          /\ \A k \in 1..bits + Len(v) : t[k] = Place(acc, bits, v)[k]
  BY <1>2, <1>4, TopFacts
<1>7. LET s == Top(acc, bits) \o v
      IN  /\ s \in Seq(Bit) /\ Len(s) = bits + Len(v)
          /\ \A k \in 1..bits + Len(v) :
                s[k] = IF k <= bits THEN Top(acc, bits)[k] ELSE v[k - bits]
  <2>1. ASSUME NEW t \in Seq(Bit), Len(t) = bits
        PROVE  LET s == t \o v
               IN  /\ s \in Seq(Bit) /\ Len(s) = bits + Len(v)
                   /\ \A k \in 1..bits + Len(v) :
                         s[k] = IF k <= bits THEN t[k] ELSE v[k - bits]
    BY <2>1, ConcatProperties
  <2> QED  BY <1>5, <2>1
<1>8. ASSUME NEW k \in 1..bits + Len(v)
      PROVE  Place(acc, bits, v)[k] = (Top(acc, bits) \o v)[k]
  <2>0. k \in 1..AccBits /\ k \in Int
    BY <1>1
  <2>1. CASE k <= bits
    <3>1. k - bits \notin DOMAIN v /\ k \in 1..bits
      BY <1>1, <2>0, <2>1
    <3> QED  BY <1>5, <1>7, <2>0, <2>1, <3>1 DEF Place
  <2>2. CASE ~(k <= bits)
    <3>1. k - bits \in DOMAIN v /\ k \in bits + 1..AccBits
      BY <1>1, <2>0, <2>2
    <3>2. acc[k] = 0 /\ v[k - bits] \in Bit
      BY <1>1, <3>1 DEF Clean
    <3>3. Place(acc, bits, v)[k] = v[k - bits]
      BY <2>0, <3>1, <3>2 DEF Place, Bit
    <3> QED  BY <1>7, <2>2, <3>3
  <2> QED  BY <2>1, <2>2
<1>9. Top(Place(acc, bits, v), bits + Len(v)) = Top(acc, bits) \o v
  <2>1. Len(Top(Place(acc, bits, v), bits + Len(v))) = Len(Top(acc, bits) \o v)
    BY <1>6, <1>7
  <2>2. Len(Top(acc, bits) \o v) = bits + Len(v)
    BY <1>7
  <2>3. ASSUME NEW k \in 1..bits + Len(v)
        PROVE  Top(Place(acc, bits, v), bits + Len(v))[k] = (Top(acc, bits) \o v)[k]
    BY <1>6, <1>8
  <2> QED  BY <1>6, <1>7, <2>1, <2>2, <2>3, SeqEqual
<1> QED  BY <1>2, <1>3, <1>9

\* Shifting bits out leaves the others, in order, and zeros (bitio.go:31, 92, 151).
LEMMA ShiftFacts ==
    ASSUME NEW acc \in Acc, NEW bits \in 0..AccBits, Clean(acc, bits), NEW w \in 0..bits
    PROVE  /\ Shift(acc, w) \in Acc
           /\ Clean(Shift(acc, w), bits - w)
           /\ Top(acc, w) \o Top(Shift(acc, w), bits - w) = Top(acc, bits)
<1>1. AccBits \in Nat /\ bits \in Nat /\ w \in Nat /\ w <= bits /\ bits <= AccBits
      /\ bits - w \in 0..AccBits /\ w \in 0..AccBits
  BY Widths
<1>2. Shift(acc, w) \in Acc
  <2>1. \A k \in 1..AccBits : k + w <= AccBits => acc[k + w] \in Bit
    BY <1>1 DEF Acc
  <2> QED  BY <2>1 DEF Shift, Acc, Bit
<1>3. Clean(Shift(acc, w), bits - w)
  <2> SUFFICES ASSUME NEW k \in bits - w + 1..AccBits
               PROVE  Shift(acc, w)[k] = 0
    BY DEF Clean
  <2>1. k \in 1..AccBits /\ (k + w <= AccBits => k + w \in bits + 1..AccBits)
    BY <1>1
  <2> QED  BY <2>1 DEF Shift, Clean
<1>4. /\ Top(acc, w) \in Seq(Bit) /\ Len(Top(acc, w)) = w
      /\ \A k \in 1..w : Top(acc, w)[k] = acc[k]
  BY <1>1, TopFacts
<1>5. LET t == Top(Shift(acc, w), bits - w)
      IN  /\ t \in Seq(Bit) /\ Len(t) = bits - w
          /\ \A k \in 1..bits - w : t[k] = Shift(acc, w)[k]
  BY <1>1, <1>2, TopFacts
<1>6. /\ Top(acc, bits) \in Seq(Bit) /\ Len(Top(acc, bits)) = bits
      /\ \A k \in 1..bits : Top(acc, bits)[k] = acc[k]
  BY TopFacts
<1>7. LET s == Top(acc, w) \o Top(Shift(acc, w), bits - w)
      IN  /\ s \in Seq(Bit) /\ Len(s) = w + (bits - w)
          /\ \A k \in 1..w + (bits - w) :
                s[k] = IF k <= w THEN Top(acc, w)[k]
                                 ELSE Top(Shift(acc, w), bits - w)[k - w]
  BY <1>4, <1>5, ConcatProperties
<1>8. ASSUME NEW k \in 1..bits
      PROVE  (Top(acc, w) \o Top(Shift(acc, w), bits - w))[k] = acc[k]
  <2>1. CASE k <= w
    BY <1>1, <1>4, <1>7, <2>1
  <2>2. CASE ~(k <= w)
    <3>1. k - w \in 1..bits - w /\ k - w \in 1..AccBits /\ (k - w) + w = k /\ k <= AccBits
      BY <1>1, <2>2
    <3>2. Shift(acc, w)[k - w] = acc[k]
      BY <3>1 DEF Shift
    <3> QED  BY <1>1, <1>5, <1>7, <2>2, <3>1, <3>2
  <2> QED  BY <2>1, <2>2
<1>9. w + (bits - w) = bits
  BY <1>1
<1>10. Top(acc, w) \o Top(Shift(acc, w), bits - w) = Top(acc, bits)
  BY <1>6, <1>7, <1>8, <1>9, SeqEqual
<1> QED  BY <1>2, <1>3, <1>10

\* Shifting out more than there is leaves zeros: flush's last byte (bitio.go:57-60).
LEMMA ShiftAllFacts ==
    ASSUME NEW acc \in Acc, NEW bits \in 0..AccBits, Clean(acc, bits),
           NEW w \in Nat, bits <= w
    PROVE  Shift(acc, w) \in Acc /\ Clean(Shift(acc, w), 0)
<1>1. AccBits \in Nat /\ bits \in Nat
  BY Widths
<1>2. Shift(acc, w) \in Acc
  <2>1. \A k \in 1..AccBits : k + w <= AccBits => acc[k + w] \in Bit
    BY <1>1 DEF Acc
  <2> QED  BY <2>1 DEF Shift, Acc, Bit
<1>3. Clean(Shift(acc, w), 0)
  <2> SUFFICES ASSUME NEW k \in 0 + 1..AccBits
               PROVE  Shift(acc, w)[k] = 0
    BY DEF Clean
  <2>1. k \in 1..AccBits /\ (k + w <= AccBits => k + w \in bits + 1..AccBits)
    BY <1>1
  <2> QED  BY <2>1 DEF Shift, Clean
<1> QED  BY <1>2, <1>3

LEMMA EmptyFacts == Empty \in Acc /\ Clean(Empty, 0) /\ Top(Empty, 0) = << >>
<1>1. AccBits \in Nat
  BY Widths
<1>2. Empty \in Acc
  BY DEF Empty, Acc, Bit
<1>3. Clean(Empty, 0)
  BY <1>1 DEF Empty, Clean
<1>4. Top(Empty, 0) \in Seq(Bit) /\ Len(Top(Empty, 0)) = 0
  BY <1>1, <1>2, TopFacts
<1> QED  BY <1>2, <1>3, <1>4

-----------------------------------------------------------------------------
(* Whole bytes. *)

Whole(n) == \E k \in Nat : n = k * ByteBits

LEMMA WholeZero == Whole(0)
<1>1. 0 = 0 * ByteBits
  BY Widths
<1> QED  BY <1>1 DEF Whole

LEMMA WholeNext ==
    ASSUME NEW n \in Nat, Whole(n)
    PROVE  Whole(n + ByteBits)
<1>1. PICK k \in Nat : n = k * ByteBits
  BY DEF Whole
<1>2. n + ByteBits = (k + 1) * ByteBits
  BY <1>1, Widths
<1> QED  BY <1>2 DEF Whole

LEMMA WholeSum ==
    ASSUME NEW n \in Nat, NEW m \in Nat, Whole(n), Whole(m)
    PROVE  Whole(n + m)
<1>1. PICK k \in Nat : n = k * ByteBits
  BY DEF Whole
<1>2. PICK l \in Nat : m = l * ByteBits
  BY DEF Whole
<1>3. n + m = (k + l) * ByteBits /\ k + l \in Nat
  BY <1>1, <1>2, Widths
<1> QED  BY <1>3 DEF Whole

\* Where there are more bits there is a whole byte more.
LEMMA WholeRoom ==
    ASSUME NEW n \in Nat, NEW m \in Nat, Whole(n), Whole(m), n < m
    PROVE  n + ByteBits <= m
<1>1. PICK k \in Nat : n = k * ByteBits
  BY DEF Whole
<1>2. PICK l \in Nat : m = l * ByteBits
  BY DEF Whole
<1>3. k < l
  <2>1. ASSUME l <= k PROVE FALSE
    <3>1. l * ByteBits <= k * ByteBits
      <4>1. ByteBits \in Nat
        BY Widths
      <4>2. PICK d \in Nat : k = l + d
        BY <2>1
      <4>3. k * ByteBits = l * ByteBits + d * ByteBits /\ d * ByteBits >= 0
        BY <4>1, <4>2
      <4> QED  BY <4>1, <4>3
    <3> QED  BY <1>1, <1>2, <3>1
  <2> QED  BY <2>1
<1>4. PICK d \in Nat : l = k + 1 + d
  BY <1>3
<1>5. l * ByteBits = k * ByteBits + ByteBits + d * ByteBits /\ d * ByteBits >= 0
  BY <1>4, Widths
<1> QED  BY <1>1, <1>2, <1>5, Widths

\* Whole bytes and what is left over.
LEMMA DivFacts ==
    ASSUME NEW n \in Nat
    PROVE  /\ n \div ByteBits \in Nat /\ n % ByteBits \in 0..ByteBits - 1
           /\ ByteBits * (n \div ByteBits) \in Nat /\ ByteBits * (n \div ByteBits) <= n
           /\ n - ByteBits * (n \div ByteBits) = n % ByteBits
<1>1. ByteBits \in Nat /\ ByteBits > 0
  BY Widths
<1> QED  BY <1>1

LEMMA DivExact ==
    ASSUME NEW n \in Nat, NEW k \in Nat, n = k * ByteBits
    PROVE  n \div ByteBits = k
<1> DEFINE q == n \div ByteBits
           r == n % ByteBits
<1>1. /\ ByteBits \in Nat /\ q \in Nat /\ r \in Nat /\ r < ByteBits
      /\ ByteBits * q + r = k * ByteBits
  <2>1. q \in Nat /\ r \in 0..ByteBits - 1 /\ ByteBits * q \in Nat /\ n - ByteBits * q = r
    BY DivFacts
  <2>2. ByteBits \in Nat
    BY Widths
  <2> HIDE DEF q, r
  <2>3. ByteBits * q + r = n
    BY <2>1, <2>2
  <2> QED  BY <2>1, <2>2, <2>3
<1> HIDE DEF q, r
<1>2. ~(q < k)
  <2> SUFFICES ASSUME q < k PROVE FALSE
    OBVIOUS
  <2>1. PICK d \in Nat : k = q + 1 + d
    BY <1>1
  <2>2. k * ByteBits = ByteBits * q + ByteBits + d * ByteBits /\ d * ByteBits \in Nat
        /\ ByteBits * q \in Nat
    BY <1>1, <2>1
  <2> QED  BY <1>1, <2>2
<1>3. ~(k < q)
  <2> SUFFICES ASSUME k < q PROVE FALSE
    OBVIOUS
  <2>1. PICK d \in Nat : q = k + 1 + d
    BY <1>1
  <2>2. ByteBits * q = k * ByteBits + ByteBits + d * ByteBits /\ d * ByteBits \in Nat
        /\ k * ByteBits \in Nat
    BY <1>1, <2>1
  <2> QED  BY <1>1, <2>2, Widths
<1> QED  BY <1>1, <1>2, <1>3 DEF q

-----------------------------------------------------------------------------
(* Beginnings of sequences of bits. *)

LEMMA NoBits ==
    ASSUME NEW s \in Seq(Bit)
    PROVE  Top(s, 0) = << >>
<1>1. Top(s, 0) \in Seq(Bit) /\ Len(Top(s, 0)) = 0
  BY SubSeqProperties DEF Top
<1> QED  BY <1>1

\* A sequence that is continued is a beginning of the result.
LEMMA Beginning ==
    ASSUME NEW s \in Seq(Bit), NEW t \in Seq(Bit), NEW u \in Seq(Bit),
           NEW n \in 0..Len(u), s \o t = Top(u, n)
    PROVE  s = Top(u, Len(s))
<1>1. n \in Nat /\ Len(u) \in Nat /\ Len(s) \in Nat /\ n <= Len(u)
  OBVIOUS
<1>2. \A k \in 1..n : u[k] \in Bit
  BY <1>1
<1>3. /\ Len(SubSeq(u, 1, n)) = IF 1 <= n THEN n - 1 + 1 ELSE 0
      /\ \A k \in 1..n - 1 + 1 : SubSeq(u, 1, n)[k] = u[1 + k - 1]
  BY <1>1, <1>2, SubSeqProperties
<1>4. /\ Len(s \o t) = Len(s) + Len(t)
      /\ \A k \in 1..Len(s) : (s \o t)[k] = s[k]
  BY ConcatProperties
<1>5. Len(s) <= n
  BY <1>1, <1>3, <1>4 DEF Top
<1>6. /\ SubSeq(u, 1, Len(s)) \in Seq(Bit)
      /\ Len(SubSeq(u, 1, Len(s))) = IF 1 <= Len(s) THEN Len(s) - 1 + 1 ELSE 0
      /\ \A k \in 1..Len(s) - 1 + 1 : SubSeq(u, 1, Len(s))[k] = u[1 + k - 1]
  BY <1>1, <1>2, <1>5, SubSeqProperties
<1>7. Len(SubSeq(u, 1, Len(s))) = Len(s)
  BY <1>1, <1>6
<1>8. ASSUME NEW k \in 1..Len(s)
      PROVE  s[k] = SubSeq(u, 1, Len(s))[k]
  <2>1. k \in 1..n - 1 + 1 /\ k \in 1..Len(s) - 1 + 1
    BY <1>1, <1>5
  <2>2. s[k] = SubSeq(u, 1, n)[k]
    BY <1>4 DEF Top
  <2> QED  BY <1>3, <1>6, <2>1, <2>2
<1> QED  BY <1>6, <1>7, <1>8, SeqEqual DEF Top

\* A sequence whose bits another begins with is its beginning.
LEMMA BeginningOf ==
    ASSUME NEW s \in Seq(Bit), NEW u \in Seq(Bit), Len(s) <= Len(u),
           \A k \in 1..Len(s) : s[k] = u[k]
    PROVE  Top(u, Len(s)) = s
<1>1. Len(u) \in Nat /\ Len(s) \in Nat
  OBVIOUS
<1>2. \A k \in 1..Len(s) : u[k] \in Bit
  BY <1>1
<1>3. /\ SubSeq(u, 1, Len(s)) \in Seq(Bit)
      /\ Len(SubSeq(u, 1, Len(s))) = IF 1 <= Len(s) THEN Len(s) - 1 + 1 ELSE 0
      /\ \A k \in 1..Len(s) - 1 + 1 : SubSeq(u, 1, Len(s))[k] = u[1 + k - 1]
  BY <1>1, <1>2, SubSeqProperties
<1>4. Len(SubSeq(u, 1, Len(s))) = Len(s)
  BY <1>1, <1>3
<1>5. \A k \in 1..Len(s) : s[k] = SubSeq(u, 1, Len(s))[k]
  BY <1>1, <1>3
<1> QED  BY <1>3, <1>4, <1>5, SeqEqual DEF Top

\* The bits behind a beginning make it longer.
LEMMA Longer ==
    ASSUME NEW u \in Seq(Bit), NEW n \in Nat, NEW w \in Nat, n + w <= Len(u)
    PROVE  /\ SubSeq(u, n + 1, n + w) \in Seq(Bit)
           /\ Len(SubSeq(u, n + 1, n + w)) = w
           /\ Top(u, n) \o SubSeq(u, n + 1, n + w) = Top(u, n + w)
<1> DEFINE a == SubSeq(u, 1, n)
           b == SubSeq(u, n + 1, n + w)
           c == SubSeq(u, 1, n + w)
<1>1. Len(u) \in Nat /\ n + w \in Nat
  OBVIOUS
<1>2. \A k \in 1..n + w : u[k] \in Bit
  BY <1>1
<1>3. /\ a \in Seq(Bit)
      /\ Len(a) = IF 1 <= n THEN n - 1 + 1 ELSE 0
      /\ \A k \in 1..n - 1 + 1 : a[k] = u[1 + k - 1]
  BY <1>1, <1>2, SubSeqProperties
<1>4. /\ b \in Seq(Bit)
      /\ Len(b) = IF n + 1 <= n + w THEN n + w - (n + 1) + 1 ELSE 0
      /\ \A k \in 1..n + w - (n + 1) + 1 : b[k] = u[n + 1 + k - 1]
  BY <1>1, <1>2, SubSeqProperties
<1>5. /\ c \in Seq(Bit)
      /\ Len(c) = IF 1 <= n + w THEN n + w - 1 + 1 ELSE 0
      /\ \A k \in 1..n + w - 1 + 1 : c[k] = u[1 + k - 1]
  BY <1>1, <1>2, SubSeqProperties
<1>6. Len(a) = n /\ Len(b) = w /\ Len(c) = n + w
  BY <1>1, <1>3, <1>4, <1>5
<1>7. /\ \A k \in 1..n : a[k] = u[k]
      /\ \A k \in 1..w : b[k] = u[n + k]
      /\ \A k \in 1..n + w : c[k] = u[k]
  BY <1>1, <1>3, <1>4, <1>5
<1> HIDE DEF a, b, c
<1>8. /\ a \o b \in Seq(Bit) /\ Len(a \o b) = Len(a) + Len(b)
      /\ \A k \in 1..Len(a) + Len(b) :
            (a \o b)[k] = IF k <= Len(a) THEN a[k] ELSE b[k - Len(a)]
  BY <1>3, <1>4, ConcatProperties
<1>9. ASSUME NEW k \in 1..n + w
      PROVE  (a \o b)[k] = c[k]
  <2>1. CASE k <= n
    BY <1>6, <1>7, <1>8, <2>1
  <2>2. CASE ~(k <= n)
    <3>1. k - n \in 1..w /\ n + (k - n) = k
      BY <2>2
    <3> QED  BY <1>6, <1>7, <1>8, <2>2, <3>1
  <2> QED  BY <2>1, <2>2
<1>10. a \o b = c
  BY <1>5, <1>6, <1>8, <1>9, SeqEqual
<1> QED  BY <1>4, <1>6, <1>10 DEF a, b, c, Top

\* Three sequences in a row.
LEMMA Assoc ==
    ASSUME NEW s \in Seq(Bit), NEW t \in Seq(Bit), NEW u \in Seq(Bit)
    PROVE  (s \o t) \o u = s \o (t \o u)
  BY ConcatAssociative

-----------------------------------------------------------------------------
(* The inductive invariant. *)

\* A value that fits behind an incomplete byte.
Piece == {v \in Seq(Bit) : Len(v) \in 1..AccBits - ByteBits + 1}

\* The bitWriter has zeros behind its bits and has put out whole bytes.
WriterSound ==
    /\ pc \in {"idle", "write", "flush", "flushed", "read"}
    /\ buf \in Acc /\ nbits \in 0..AccBits /\ Clean(buf, nbits)
    /\ err \in BOOLEAN
    /\ out \in Seq(Bit) /\ Whole(Len(out))
    /\ todo \in Seq(Piece)

\* The bitBuffer has zeros behind its bits and holds what it was given, data in whole bytes.
BufferSound ==
    /\ data \in Seq(Bit) /\ Whole(Len(data))
    /\ bbuf \in Acc /\ bnbits \in 0..ByteBits - 1 /\ Clean(bbuf, bnbits)
    /\ buffered \in Seq(Bit) /\ total \in Nat
    /\ BufferExact

\* The bitReader has zeros behind its bits, has fetched whole bytes, and has given out
\* what it fetched, except for the bits it still has.
ReaderSound ==
    /\ rbuf \in Acc /\ rnbits \in 0..AccBits /\ Clean(rbuf, rnbits)
    /\ rerr \in {"none", "unexpected EOF", "fault"}
    /\ rpos \in 0..Len(out) /\ Whole(rpos)
    /\ want \in 0..MaxBits
    /\ got \in Seq(Bit)
    /\ ReadsBack
    /\ pc \in {"idle", "write", "flush"} => got = << >> /\ rpos = 0 /\ rnbits = 0

\* Everything written is at the destination, and behind it less than a byte of zeros.
Padded ==
    /\ Len(out) - Len(asked) \in 0..ByteBits - 1
    /\ Top(out, Len(asked)) = asked
    /\ \A k \in Len(asked) + 1..Len(out) : out[k] = 0

\* A call that returned left less than a byte in the accumulator, and flush puts that
\* out once.
AskedSound ==
    /\ asked \in Seq(Bit)
    /\ pc # "write" => todo = << >>
    /\ ExactBits
    /\ pc \in {"idle", "flush"} /\ ~err => nbits < ByteBits
    /\ pc = "flush" /\ ~err => IF nbits > 0 THEN out \o Top(buf, nbits) = asked ELSE Padded
    /\ pc \in {"flushed", "read"} /\ ~err => Padded

IInv == WriterSound /\ BufferSound /\ ReaderSound /\ AskedSound

LEMMA PiecesAreBits ==
    ASSUME NEW s \in Seq(Piece)
    PROVE  s \in Seq(Seq(Bit))
<1>1. \A k \in 1..Len(s) : s[k] \in Seq(Bit)
  BY DEF Piece
<1> QED  BY <1>1

\* A value of a call is a short sequence of bits.
LEMMA ValueFacts ==
    ASSUME NEW v \in Value
    PROVE  v \in Seq(Bit) /\ Len(v) \in 1..MaxBits /\ v \in Piece
<1>1. PICK n \in 1..MaxBits : v \in [1..n -> Bit]
  BY DEF Value
<1>2. n \in Nat /\ DOMAIN v = 1..n
  BY <1>1, Widths
<1>3. v \in Seq(Bit) /\ Len(v) = n
  BY <1>1, <1>2
<1>4. Len(v) \in 1..AccBits - ByteBits + 1
  BY <1>3, Widths
<1> QED  BY <1>3, <1>4 DEF Piece

-----------------------------------------------------------------------------
(* The bitWriter. *)

\* A byte of data lies within it, and makes what is before it longer.
LEMMA ByteOfData ==
    ASSUME data \in Seq(Bit), NEW k \in Nat, k + 1 <= Len(data) \div ByteBits
    PROVE  LET b == SubSeq(data, k * ByteBits + 1, (k + 1) * ByteBits)
           IN  /\ b \in Piece
               /\ Top(data, k * ByteBits) \o b = Top(data, (k + 1) * ByteBits)
<1> DEFINE n == k * ByteBits
           m == Len(data) \div ByteBits
<1>1. ByteBits \in 1..AccBits - ByteBits + 1 /\ ByteBits \in Nat /\ Len(data) \in Nat
  BY Widths
<1>2. m \in Nat /\ ByteBits * m <= Len(data) /\ k + 1 <= m
  <2>1. ASSUME NEW l \in Nat
        PROVE  l \div ByteBits \in Nat /\ ByteBits * (l \div ByteBits) <= l
    BY DivFacts
  <2> QED  BY <1>1, <2>1
<1> HIDE DEF m
<1>3. (k + 1) * ByteBits = n + ByteBits /\ n \in Nat
  BY <1>1
<1>4. (k + 1) * ByteBits <= ByteBits * m
  <2>1. PICK d \in Nat : m = (k + 1) + d
    BY <1>2
  <2>2. ByteBits * m = (k + 1) * ByteBits + ByteBits * d /\ ByteBits * d \in Nat
    BY <1>1, <2>1
  <2>3. (k + 1) * ByteBits \in Nat
    BY <1>1
  <2> QED  BY <2>2, <2>3
<1>5. n + ByteBits <= Len(data)
  <2>1. (k + 1) * ByteBits \in Nat /\ ByteBits * m \in Nat
    BY <1>1, <1>2
  <2> QED  BY <1>1, <1>2, <1>3, <1>4, <2>1
<1> HIDE DEF n
<1>6. /\ SubSeq(data, n + 1, n + ByteBits) \in Seq(Bit)
      /\ Len(SubSeq(data, n + 1, n + ByteBits)) = ByteBits
      /\ Top(data, n) \o SubSeq(data, n + 1, n + ByteBits) = Top(data, n + ByteBits)
  BY <1>1, <1>3, <1>5, Longer
<1>7. SubSeq(data, n + 1, n + ByteBits) \in Piece
  BY <1>1, <1>6 DEF Piece
<1> QED  BY <1>3, <1>6, <1>7 DEF n

\* writeTo's values: the bytes of data, then the rest (bitio.go:108-119).
LEMMA BytesArePieces ==
    ASSUME data \in Seq(Bit), bbuf \in Acc, bnbits \in 0..ByteBits - 1
    PROVE  DataBytes \in Seq(Piece) /\ Rest \in Seq(Piece)
<1>1. DataBytes \in Seq(Piece)
  <2> DEFINE m == Len(data) \div ByteBits
             P(k) == SubSeq(data, (k - 1) * ByteBits + 1, k * ByteBits)
  <2>1. m \in Nat
    <3>1. Len(data) \in Nat
      OBVIOUS
    <3> QED  BY <3>1, DivFacts
  <2>2. ASSUME NEW k \in 1..m
        PROVE  P(k) \in Piece
    <3>1. PICK j \in Nat : k = j + 1
      BY <2>1
    <3>2. j + 1 <= m /\ k - 1 = j
      BY <2>1, <3>1
    <3> QED  BY <3>1, <3>2, ByteOfData
  <2>3. DataBytes = [k \in 1..m |-> P(k)]
    BY DEF DataBytes
  <2> HIDE DEF m, P
  <2>4. [k \in 1..m |-> P(k)] \in [1..m -> Piece]
    BY <2>2
  <2> QED  BY <2>1, <2>3, <2>4
<1>2. Rest \in Seq(Piece)
  <2>1. CASE bnbits > 0
    <3>1. bnbits \in 0..AccBits /\ bnbits \in 1..AccBits - ByteBits + 1
      BY <2>1, Widths
    <3>2. Top(bbuf, bnbits) \in Seq(Bit) /\ Len(Top(bbuf, bnbits)) = bnbits
      BY <3>1, TopFacts
    <3>3. Top(bbuf, bnbits) \in Piece
      BY <3>1, <3>2 DEF Piece
    <3> QED  BY <2>1, <3>3 DEF Rest
  <2>2. CASE ~(bnbits > 0)
    BY <2>2 DEF Rest
  <2> QED  BY <2>1, <2>2
<1> QED  BY <1>1, <1>2

\* Joined, they are what the buffer was asked to write: it is spliced in exactly
\* (bitio.go:108-119).
LEMMA BytesJoined ==
    ASSUME BufferSound
    PROVE  FlattenSeq(DataBytes \o Rest) = buffered
<1> USE DEF BufferSound
<1> DEFINE m == Len(data) \div ByteBits
           B(k) == SubSeq(data, (k - 1) * ByteBits + 1, k * ByteBits)
           first(l) == [k \in 1..l |-> B(k)]
           T == {l \in Nat : l <= m => /\ first(l) \in Seq(Piece)
                                       /\ FlattenSeq(first(l)) = Top(data, l * ByteBits)}
<1>1. ByteBits \in Nat /\ m \in Nat /\ Len(data) \in Nat
  <2>1. Len(data) \in Nat
    OBVIOUS
  <2> QED  BY <2>1, DivFacts, Widths
<1>2. 0 \in T
  <2>1. first(0) = << >> /\ << >> \in Seq(Piece)
    OBVIOUS
  <2>2. 0 * ByteBits = 0
    BY <1>1
  <2> QED  BY <2>1, <2>2, FlattenEmpty, NoBits
<1>3. ASSUME NEW l \in Nat, l \in T
      PROVE  l + 1 \in T
  <2> SUFFICES ASSUME l + 1 <= m
               PROVE  /\ first(l + 1) \in Seq(Piece)
                      /\ FlattenSeq(first(l + 1)) = Top(data, (l + 1) * ByteBits)
    OBVIOUS
  <2>1. first(l) \in Seq(Piece) /\ FlattenSeq(first(l)) = Top(data, l * ByteBits)
    BY <1>1, <1>3
  <2>2. (l + 1) - 1 = l
    OBVIOUS
  <2>3. B(l + 1) \in Piece /\ Top(data, l * ByteBits) \o B(l + 1) = Top(data, (l + 1) * ByteBits)
    BY <2>2, ByteOfData
  <2>4. first(l + 1) = Append(first(l), B(l + 1)) /\ first(l + 1) \in Seq(Piece)
    <3> DEFINE f == first(l)
               b == B(l + 1)
    <3>0. DOMAIN f = 1..l /\ \A k \in 1..l : f[k] = B(k)
      <4> HIDE DEF B
      <4> QED  OBVIOUS
    <3>1. /\ f \in Seq(Piece) /\ Len(f) = l /\ b \in Piece
          /\ \A k \in 1..l : f[k] = B(k)
      <4> HIDE DEF f, b
      <4>1. f \in Seq(Piece) /\ b \in Piece
        BY <2>1, <2>3 DEF f, b
      <4>2. Len(f) = l
        BY <3>0, <4>1
      <4> QED  BY <3>0, <4>1, <4>2
    <3>2. first(l + 1) \in [1..l + 1 -> Piece]
      <4> SUFFICES ASSUME NEW k \in 1..l + 1 PROVE B(k) \in Piece
        OBVIOUS
      <4>1. k \in 1..l => f[k] \in Piece
        BY <3>1
      <4>2. k \in 1..l \/ k = l + 1
        OBVIOUS
      <4> HIDE DEF B
      <4> QED  BY <3>1, <4>1, <4>2
    <3>3. first(l + 1) \in Seq(Piece) /\ Len(first(l + 1)) = l + 1
      BY <3>2
    <3>4. \A k \in 1..l + 1 : first(l + 1)[k] = B(k)
      OBVIOUS
    <3> HIDE DEF f, b, first
    <3>5. Append(f, b) \in Seq(Piece) /\ Len(Append(f, b)) = l + 1
          /\ Append(f, b)[l + 1] = b /\ \A k \in 1..l : Append(f, b)[k] = f[k]
      BY <3>1, AppendProperties
    <3>6. ASSUME NEW k \in 1..l + 1
          PROVE  first(l + 1)[k] = Append(f, b)[k]
      <4>1. CASE k = l + 1
        BY <3>4, <3>5, <4>1 DEF b
      <4>2. CASE k # l + 1
        <5>1. k \in 1..l
          BY <4>2
        <5> QED  BY <3>1, <3>4, <3>5, <5>1
      <4> QED  BY <4>1, <4>2
    <3>7. first(l + 1) = Append(f, b)
      BY <3>3, <3>5, <3>6, SeqEqual
    <3> QED  BY <3>3, <3>7 DEF f, b
  <2>5. first(l) \in Seq(Seq(Bit)) /\ B(l + 1) \in Seq(Bit)
    BY <2>1, <2>3, PiecesAreBits DEF Piece
  <2> HIDE DEF first, B
  <2>6. FlattenSeq(first(l + 1)) = FlattenSeq(first(l)) \o B(l + 1)
    BY <2>4, <2>5, FlattenAppend
  <2> QED  BY <2>1, <2>3, <2>4, <2>6
<1>4. T = Nat
  <2>1. T \subseteq Nat
    OBVIOUS
  <2> HIDE DEF T
  <2> QED  BY <1>2, <1>3, <2>1, Induction
<1>5. FlattenSeq(first(m)) = Top(data, m * ByteBits)
  <2> HIDE DEF first
  <2>1. m \in T /\ m <= m
    <3> HIDE DEF m, T
    <3> QED  BY <1>1, <1>4
  <2> QED  BY <2>1
<1>6. first(m) = DataBytes
  BY DEF DataBytes
<1> HIDE DEF first, T
<1>7. m * ByteBits = Len(data)
  <2>1. PICK k \in Nat : Len(data) = k * ByteBits
    BY DEF Whole
  <2>2. m = k
    <3>1. ByteBits \in Nat /\ ByteBits > 0
      BY Widths
    <3> QED  BY <2>1, <3>1, DivExact DEF m
  <2> QED  BY <2>1, <2>2
<1>8. Top(data, Len(data)) = data
  <2>1. data = SubSeq(data, 1, Len(data))
    BY SubSeqFull
  <2> QED  BY <2>1 DEF Top
<1>9. FlattenSeq(DataBytes) = data
  BY <1>5, <1>6, <1>7, <1>8
<1>10. DataBytes \in Seq(Seq(Bit)) /\ Rest \in Seq(Seq(Bit))
  BY BytesArePieces, PiecesAreBits
<1>11. FlattenSeq(DataBytes \o Rest) = data \o FlattenSeq(Rest)
  BY <1>9, <1>10, FlattenConcat
<1>12. FlattenSeq(Rest) = Top(bbuf, bnbits)
  <2>1. bnbits \in 0..AccBits
    BY Widths
  <2>2. Top(bbuf, bnbits) \in Seq(Bit) /\ Len(Top(bbuf, bnbits)) = bnbits
    BY <2>1, TopFacts
  <2>3. CASE bnbits > 0
    BY <2>2, <2>3, FlattenOne DEF Rest
  <2>4. CASE ~(bnbits > 0)
    <3>1. Top(bbuf, bnbits) = << >> /\ Rest = << >>
      BY <2>2, <2>4, Widths DEF Rest
    <3> QED  BY <3>1, FlattenEmpty
  <2> QED  BY <2>3, <2>4
<1> QED  BY <1>11, <1>12 DEF BufferExact

\* A byte that goes out, or fails to (bitio.go:28-33, 51-61).
LEMMA WriteOutFacts ==
    ASSUME WriterSound, NEW left \in Nat, WriteOut(left),
           left = IF nbits >= ByteBits THEN nbits - ByteBits ELSE 0
    PROVE  /\ buf' \in Acc /\ nbits' \in 0..AccBits /\ Clean(buf', nbits')
           /\ err' \in BOOLEAN
           /\ out' \in Seq(Bit) /\ Whole(Len(out'))
<1> USE DEF WriterSound
<1>1. ByteBits \in 0..AccBits /\ nbits \in Nat /\ AccBits \in Nat /\ ByteBits \in Nat
  BY Widths
<1>2. CASE out' = out /\ buf' = buf /\ nbits' = nbits /\ err' = TRUE
  BY <1>2
<1>3. CASE /\ out' = out \o Top(buf, ByteBits) /\ buf' = Shift(buf, ByteBits)
           /\ nbits' = left /\ err' = FALSE
  <2>1. Top(buf, ByteBits) \in Seq(Bit) /\ Len(Top(buf, ByteBits)) = ByteBits
    BY <1>1, TopFacts
  <2>2. out' \in Seq(Bit) /\ Len(out') = Len(out) + ByteBits
    BY <1>3, <2>1, ConcatProperties
  <2>3. Whole(Len(out'))
    BY <2>2, WholeNext
  <2>4. Shift(buf, ByteBits) \in Acc /\ Clean(Shift(buf, ByteBits), left)
    <3>1. CASE nbits >= ByteBits
      <4>1. ByteBits \in 0..nbits /\ left = nbits - ByteBits
        BY <1>1, <3>1
      <4> QED  BY <4>1, ShiftFacts
    <3>2. CASE ~(nbits >= ByteBits)
      <4>1. nbits <= ByteBits /\ left = 0
        BY <1>1, <3>2
      <4> QED  BY <1>1, <4>1, ShiftAllFacts
    <3> QED  BY <3>1, <3>2
  <2>5. left \in 0..AccBits
    BY <1>1
  <2> QED  BY <1>3, <2>2, <2>3, <2>4, <2>5
<1> QED  BY <1>2, <1>3 DEF WriteOut

LEMMA WriterStays ==
    ASSUME IInv, [Next]_vars
    PROVE  WriterSound'
<1> USE DEF IInv
<1>1. CASE \E v \in Value : BufferBits(v)
  BY <1>1 DEF BufferBits, writerVars, WriterSound
<1>2. ASSUME NEW v \in Value, WriteBits(v)
      PROVE  WriterSound'
  <2>1. << v >> \in Seq(Piece)
    BY ValueFacts
  <2> QED  BY <1>2, <2>1 DEF WriteBits, WriterSound
<1>3. CASE WriteTo
  <2>1. DataBytes \o Rest \in Seq(Piece)
    BY BytesArePieces, ConcatProperties DEF BufferSound
  <2> QED  BY <1>3, <2>1 DEF WriteTo, WriterSound
<1>4. CASE PutValue
  <2>1. todo \in Seq(Piece) /\ todo # << >>
    BY <1>4 DEF PutValue, WriterSound
  <2>2. Head(todo) \in Piece /\ Tail(todo) \in Seq(Piece)
    BY <2>1
  <2>3. CASE err
    BY <1>4, <2>2, <2>3 DEF PutValue, Dead, WriterSound
  <2>4. CASE ~err
    <3>1. nbits < ByteBits /\ nbits \in Nat /\ nbits \in 0..AccBits
      BY <1>4, <2>4, Widths DEF PutValue, Dead, WriterSound
    <3>2. Head(todo) \in Seq(Bit) /\ Len(Head(todo)) \in 1..AccBits - ByteBits + 1
      BY <2>2 DEF Piece
    <3>3. nbits + Len(Head(todo)) <= AccBits /\ nbits + Len(Head(todo)) \in 0..AccBits
      BY <3>1, <3>2, Widths
    <3>4. buf \in Acc /\ Clean(buf, nbits)
      BY DEF WriterSound
    <3>5. /\ Place(buf, nbits, Head(todo)) \in Acc
          /\ Clean(Place(buf, nbits, Head(todo)), nbits + Len(Head(todo)))
      BY <3>1, <3>2, <3>3, <3>4, PlaceFacts
    <3> QED  BY <1>4, <2>2, <2>4, <3>3, <3>5 DEF PutValue, Dead, WriterSound
  <2> QED  BY <2>3, <2>4
<1>5. CASE DrainByte
  <2>1. nbits >= ByteBits /\ WriteOut(nbits - ByteBits) /\ pc' = pc /\ todo' = todo
    BY <1>5 DEF DrainByte
  <2>2. nbits - ByteBits \in Nat
    BY <2>1, Widths DEF WriterSound
  <2>3. /\ buf' \in Acc /\ nbits' \in 0..AccBits /\ Clean(buf', nbits')
        /\ err' \in BOOLEAN
        /\ out' \in Seq(Bit) /\ Whole(Len(out'))
    BY <2>1, <2>2, WriteOutFacts
  <2> QED  BY <2>1, <2>3 DEF WriterSound
<1>6. CASE FlushByte
  <2>1. WriteOut(Left) /\ pc' = pc /\ todo' = todo
    BY <1>6 DEF FlushByte
  <2>2. Left \in Nat /\ Left = IF nbits >= ByteBits THEN nbits - ByteBits ELSE 0
    BY Widths DEF WriterSound, Left
  <2>3. /\ buf' \in Acc /\ nbits' \in 0..AccBits /\ Clean(buf', nbits')
        /\ err' \in BOOLEAN
        /\ out' \in Seq(Bit) /\ Whole(Len(out'))
    BY <2>1, <2>2, WriteOutFacts
  <2> QED  BY <2>1, <2>3 DEF WriterSound
<1>7. CASE WriteReturns \/ Flush \/ FlushReturns
  BY <1>7 DEF WriteReturns, Flush, FlushReturns, writerVars, WriterSound
<1>8. CASE \E n \in 1..MaxBits : ReadBits(n)
  BY <1>8 DEF ReadBits, writerVars, WriterSound
<1>9. CASE FetchByte \/ FetchFails \/ ReadReturns
  BY <1>9 DEF FetchByte, FetchFails, ReadReturns, writerVars, WriterSound
<1>10. CASE UNCHANGED vars
  BY <1>10 DEF vars, writerVars, WriterSound
<1> QED
  BY <1>1, <1>2, <1>3, <1>4, <1>5, <1>6, <1>7, <1>8, <1>9, <1>10 DEF Next

\* The bits of the bitWriter that are still to come, by their parts.
LEMMA WaitingFacts ==
    ASSUME WriterSound
    PROVE  /\ Top(buf, nbits) \in Seq(Bit) /\ Len(Top(buf, nbits)) = nbits
           /\ todo \in Seq(Seq(Bit)) /\ FlattenSeq(todo) \in Seq(Bit)
           /\ todo = << >> => Waiting = Top(buf, nbits)
<1>1. Top(buf, nbits) \in Seq(Bit) /\ Len(Top(buf, nbits)) = nbits
  BY TopFacts DEF WriterSound
<1>2. todo \in Seq(Seq(Bit))
  BY PiecesAreBits DEF WriterSound
<1>3. FlattenSeq(todo) \in Seq(Bit)
  BY <1>2, FlattenType
<1>4. ASSUME todo = << >>
      PROVE  Waiting = Top(buf, nbits)
  <2>1. Top(buf, nbits) \o << >> = Top(buf, nbits)
    BY <1>1
  <2> QED  BY <1>4, <2>1, FlattenEmpty DEF Waiting
<1> QED  BY <1>1, <1>2, <1>3, <1>4

\* A call begins: what it was given is still to come (bitio.go:18-27, 108-119).
LEMMA CallBegins ==
    ASSUME IInv, NEW given \in Seq(Bit), pc = "idle", pc' = "write",
           FlattenSeq(todo') = given, asked' = asked \o given,
           UNCHANGED <<buf, nbits, err, out>>
    PROVE  AskedSound'
<1>1. /\ Top(buf, nbits) \in Seq(Bit) /\ out \in Seq(Bit) /\ asked \in Seq(Bit)
      /\ ~err => out \o Top(buf, nbits) = asked
  BY WaitingFacts DEF IInv, WriterSound, AskedSound, ExactBits
<1>2. asked' \in Seq(Bit)
  BY <1>1
<1>3. ASSUME ~err
      PROVE  out' \o Waiting' = asked'
  <2>1. out' \o Waiting' = out \o (Top(buf, nbits) \o given)
    BY DEF Waiting
  <2>2. out \o (Top(buf, nbits) \o given) = (out \o Top(buf, nbits)) \o given
    BY <1>1, Assoc
  <2> QED  BY <1>1, <1>3, <2>1, <2>2
<1> QED  BY <1>2, <1>3 DEF AskedSound, ExactBits

\* The next value goes behind the bits of the accumulator (bitio.go:23).
LEMMA ValuePut ==
    ASSUME IInv, PutValue
    PROVE  AskedSound'
<1> USE DEF IInv
<1>1. /\ pc = "write" /\ pc' = "write" /\ todo # << >> /\ UNCHANGED <<err, out, asked>>
      /\ asked \in Seq(Bit)
  BY DEF PutValue, AskedSound
<1>2. ASSUME ~err
      PROVE  out' \o Waiting' = asked'
  <2>1. /\ buf' = Place(buf, nbits, Head(todo)) /\ nbits' = nbits + Len(Head(todo))
        /\ todo' = Tail(todo) /\ nbits < ByteBits
    BY <1>2 DEF PutValue, Dead
  <2>2. /\ buf \in Acc /\ nbits \in Nat /\ Clean(buf, nbits) /\ out \in Seq(Bit)
        /\ todo \in Seq(Piece)
    BY Widths DEF WriterSound
  <2>3. Head(todo) \in Piece /\ Tail(todo) \in Seq(Piece)
    BY <1>1, <2>2
  <2>4. Head(todo) \in Seq(Bit) /\ nbits + Len(Head(todo)) <= AccBits
    <3>1. Head(todo) \in Seq(Bit) /\ Len(Head(todo)) \in 1..AccBits - ByteBits + 1
      BY <2>3 DEF Piece
    <3> QED  BY <2>1, <2>2, <3>1, Widths
  <2>5. Top(buf', nbits') = Top(buf, nbits) \o Head(todo)
    BY <2>1, <2>2, <2>4, PlaceFacts
  <2>6. FlattenSeq(todo) = Head(todo) \o FlattenSeq(Tail(todo))
    BY <1>1, WaitingFacts, FlattenHead
  <2>7. Top(buf, nbits) \in Seq(Bit) /\ FlattenSeq(Tail(todo)) \in Seq(Bit)
    <3>1. Tail(todo) \in Seq(Seq(Bit))
      BY <2>3, PiecesAreBits
    <3> QED  BY <3>1, WaitingFacts, FlattenType
  <2>8. Waiting' = Waiting
    <3>1. (Top(buf, nbits) \o Head(todo)) \o FlattenSeq(Tail(todo))
          = Top(buf, nbits) \o (Head(todo) \o FlattenSeq(Tail(todo)))
      BY <2>4, <2>7, Assoc
    <3> QED  BY <2>1, <2>5, <2>6, <3>1 DEF Waiting
  <2> QED  BY <1>1, <1>2, <2>8 DEF AskedSound, ExactBits
<1> QED  BY <1>1, <1>2 DEF AskedSound, ExactBits

\* A byte moves from the accumulator to the destination (bitio.go:28-33).
LEMMA ByteDrained ==
    ASSUME IInv, DrainByte
    PROVE  AskedSound'
<1> USE DEF IInv
<1>1. /\ pc = "write" /\ pc' = "write" /\ ~err /\ nbits >= ByteBits
      /\ WriteOut(nbits - ByteBits) /\ todo' = todo /\ asked' = asked /\ asked \in Seq(Bit)
  BY DEF DrainByte, Dead, AskedSound
<1>2. ASSUME ~err'
      PROVE  out' \o Waiting' = asked'
  <2>1. /\ out' = out \o Top(buf, ByteBits) /\ buf' = Shift(buf, ByteBits)
        /\ nbits' = nbits - ByteBits
    BY <1>1, <1>2 DEF WriteOut
  <2>2. ByteBits \in 0..nbits /\ ByteBits \in 0..AccBits /\ nbits - ByteBits \in 0..AccBits
    BY <1>1, Widths DEF WriterSound
  <2>3. /\ Top(buf, ByteBits) \o Top(buf', nbits') = Top(buf, nbits)
        /\ buf' \in Acc
    BY <2>1, <2>2, ShiftFacts DEF WriterSound
  <2>4. Top(buf, ByteBits) \in Seq(Bit) /\ Top(buf', nbits') \in Seq(Bit)
        /\ out \in Seq(Bit) /\ FlattenSeq(todo) \in Seq(Bit)
    BY <2>1, <2>2, <2>3, TopFacts, WaitingFacts DEF WriterSound
  <2>5. out' \o Waiting' = out \o Waiting
    <3> DEFINE a == Top(buf, ByteBits)
               b == Top(buf', nbits')
               c == FlattenSeq(todo)
    <3>1. out' \o Waiting' = (out \o a) \o (b \o c)
      BY <1>1, <2>1 DEF Waiting
    <3>2. out \o Waiting = out \o ((a \o b) \o c)
      BY <2>3 DEF Waiting
    <3>3. a \in Seq(Bit) /\ b \in Seq(Bit) /\ c \in Seq(Bit) /\ out \in Seq(Bit)
      BY <2>4
    <3> HIDE DEF a, b, c
    <3>4. (a \o b) \o c = a \o (b \o c) /\ b \o c \in Seq(Bit)
      BY <3>3, Assoc
    <3>5. (out \o a) \o (b \o c) = out \o (a \o (b \o c))
      BY <3>3, <3>4, Assoc
    <3> QED  BY <3>1, <3>2, <3>4, <3>5
  <2> QED  BY <1>1, <2>5 DEF AskedSound, ExactBits
<1> QED  BY <1>1, <1>2 DEF AskedSound, ExactBits

\* The last bits go out with zeros behind them (bitio.go:49-67).
LEMMA LastByte ==
    ASSUME IInv, FlushByte
    PROVE  AskedSound'
<1> USE DEF IInv
<1>1. /\ pc = "flush" /\ pc' = "flush" /\ ~err /\ nbits > 0 /\ nbits < ByteBits
      /\ WriteOut(Left) /\ todo' = todo /\ asked' = asked /\ asked \in Seq(Bit)
      /\ todo = << >> /\ out \o Top(buf, nbits) = asked
  BY DEF FlushByte, More, AskedSound
<1>2. ASSUME ~err'
      PROVE  nbits' = 0 /\ Padded'
  <2>1. out' = out \o Top(buf, ByteBits) /\ nbits' = 0
    BY <1>1, <1>2, Widths DEF WriteOut, Left, WriterSound
  <2>2. nbits \in Nat /\ nbits \in 0..AccBits /\ ByteBits \in 0..AccBits /\ ByteBits \in Nat
        /\ AccBits \in Nat
    BY Widths DEF WriterSound
  <2>3. /\ Top(buf, nbits) \in Seq(Bit) /\ Len(Top(buf, nbits)) = nbits
        /\ \A k \in 1..nbits : Top(buf, nbits)[k] = buf[k]
    BY <2>2, TopFacts DEF WriterSound
  <2>4. /\ Top(buf, ByteBits) \in Seq(Bit) /\ Len(Top(buf, ByteBits)) = ByteBits
        /\ \A k \in 1..ByteBits : Top(buf, ByteBits)[k] = buf[k]
    BY <2>2, TopFacts DEF WriterSound
  <2>5. out \in Seq(Bit) /\ Len(out) \in Nat
    BY DEF WriterSound
  <2>6. /\ Len(asked) = Len(out) + nbits
        /\ \A k \in 1..Len(out) + nbits :
              asked[k] = IF k <= Len(out) THEN out[k] ELSE Top(buf, nbits)[k - Len(out)]
    BY <1>1, <2>3, <2>5, ConcatProperties
  <2>7. /\ out' \in Seq(Bit) /\ Len(out') = Len(out) + ByteBits
        /\ \A k \in 1..Len(out) + ByteBits :
              out'[k] = IF k <= Len(out) THEN out[k] ELSE Top(buf, ByteBits)[k - Len(out)]
    <3>1. LET s == out \o Top(buf, ByteBits)
          IN  /\ s \in Seq(Bit) /\ Len(s) = Len(out) + ByteBits
              /\ \A k \in 1..Len(out) + ByteBits :
                    s[k] = IF k <= Len(out) THEN out[k] ELSE Top(buf, ByteBits)[k - Len(out)]
      BY <2>4, <2>5, ConcatProperties
    <3> QED  BY <2>1, <3>1
  <2>8. Len(out') - Len(asked) \in 0..ByteBits - 1
    BY <1>1, <2>2, <2>5, <2>6, <2>7
  <2>9. ASSUME NEW k \in 1..Len(asked)
        PROVE  asked[k] = out'[k]
    <3>1. k \in 1..Len(out) + nbits /\ k \in 1..Len(out) + ByteBits
      BY <1>1, <2>2, <2>5, <2>6
    <3>2. CASE k <= Len(out)
      BY <2>6, <2>7, <3>1, <3>2
    <3>3. CASE ~(k <= Len(out))
      <4>1. k - Len(out) \in 1..nbits /\ k - Len(out) \in 1..ByteBits
        BY <1>1, <2>2, <2>5, <3>1, <3>3
      <4> QED  BY <2>3, <2>4, <2>6, <2>7, <3>1, <3>3, <4>1
    <3> QED  BY <3>2, <3>3
  <2>10. Top(out', Len(asked)) = asked
    <3>1. ASSUME NEW u \in Seq(Bit), Len(asked) <= Len(u),
                 \A k \in 1..Len(asked) : asked[k] = u[k]
          PROVE  Top(u, Len(asked)) = asked
      BY <1>1, <3>1, BeginningOf
    <3>2. Len(asked) <= Len(out')
      BY <1>1, <2>2, <2>5, <2>6, <2>7
    <3> QED  BY <2>7, <2>9, <3>1, <3>2
  <2>11. ASSUME NEW k \in Len(asked) + 1..Len(out')
         PROVE  out'[k] = 0
    <3>1. k \in 1..Len(out) + ByteBits /\ ~(k <= Len(out)) /\ k - Len(out) \in 1..ByteBits
          /\ k - Len(out) \in nbits + 1..AccBits
      BY <1>1, <2>2, <2>5, <2>6, <2>7
    <3>2. buf[k - Len(out)] = 0
      BY <3>1 DEF WriterSound, Clean
    <3> QED  BY <2>4, <2>7, <3>1, <3>2
  <2> QED  BY <1>1, <2>1, <2>8, <2>10, <2>11 DEF Padded
<1>3. 0 < ByteBits /\ ~(0 > 0)
  BY Widths
<1> QED  BY <1>1, <1>2, <1>3 DEF AskedSound, ExactBits

LEMMA AskedStays ==
    ASSUME IInv, [Next]_vars
    PROVE  AskedSound'
<1> USE DEF IInv
<1>1. ASSUME NEW v \in Value, WriteBits(v)
      PROVE  AskedSound'
  <2>1. v \in Seq(Bit) /\ FlattenSeq(<< v >>) = v
    BY ValueFacts, FlattenOne
  <2> QED  BY <1>1, <2>1, CallBegins DEF WriteBits
<1>2. CASE WriteTo
  <2>1. buffered \in Seq(Bit)
    BY DEF BufferSound
  <2> QED  BY <1>2, <2>1, BytesJoined, CallBegins DEF WriteTo
<1>3. CASE PutValue
  BY <1>3, ValuePut
<1>4. CASE DrainByte
  BY <1>4, ByteDrained
<1>5. CASE WriteReturns
  BY <1>5 DEF WriteReturns, Dead, writerVars, AskedSound, ExactBits, Waiting
<1>6. CASE Flush
  <2>1. /\ pc = "idle" /\ pc' = "flush" /\ UNCHANGED <<writerVars, asked>>
        /\ asked \in Seq(Bit) /\ todo = << >>
    BY <1>6 DEF Flush, AskedSound
  <2>2. ASSUME ~err
        PROVE  /\ nbits < ByteBits /\ out \o Top(buf, nbits) = asked
               /\ ~(nbits > 0) => Padded
    <3>1. nbits < ByteBits /\ out \o Top(buf, nbits) = asked
      BY <2>1, <2>2, WaitingFacts DEF AskedSound, ExactBits
    <3>2. ASSUME ~(nbits > 0)
          PROVE  Padded
      <4>1. Top(buf, nbits) = << >> /\ out \in Seq(Bit) /\ nbits = 0
        BY <3>2, WaitingFacts, Widths DEF WriterSound
      <4>2. out = asked
        BY <3>1, <4>1
      <4>3. Len(out) \in Nat /\ Len(out) - Len(out) = 0 /\ 0 \in 0..ByteBits - 1
        BY <4>1, Widths
      <4>4. Top(out, Len(out)) = out
        <5>1. \A k \in 1..Len(out) : out[k] = out[k]
          OBVIOUS
        <5>2. Len(out) <= Len(out)
          BY <4>3
        <5> QED  BY <4>1, <5>1, <5>2, BeginningOf
      <4>5. Len(out) + 1..Len(out) = {}
        BY <4>3
      <4> QED  BY <4>2, <4>3, <4>4, <4>5 DEF Padded
    <3> QED  BY <3>1, <3>2
  <2> QED
    BY <2>1, <2>2 DEF writerVars, AskedSound, ExactBits, Padded
<1>7. CASE FlushByte
  BY <1>7, LastByte
<1>8. CASE FlushReturns
  BY <1>8 DEF FlushReturns, More, writerVars, AskedSound, ExactBits, Padded
<1>9. CASE /\ UNCHANGED <<writerVars, asked>>
           /\ \/ pc' = pc
              \/ pc \in {"flushed", "read"} /\ pc' \in {"flushed", "read"}
  BY <1>9 DEF writerVars, AskedSound, ExactBits, Waiting, Padded
<1>10. ASSUME NEW v \in Value, BufferBits(v)
       PROVE  AskedSound'
  <2>1. UNCHANGED <<writerVars, asked>> /\ pc' = pc
    BY <1>10 DEF BufferBits
  <2> QED  BY <1>9, <2>1
<1>11. CASE (\E n \in 1..MaxBits : ReadBits(n)) \/ FetchByte \/ FetchFails \/ ReadReturns
  BY <1>9, <1>11 DEF ReadBits, FetchByte, FetchFails, ReadReturns
<1>12. CASE UNCHANGED vars
  <2>1. UNCHANGED <<writerVars, asked>> /\ pc' = pc
    BY <1>12 DEF vars
  <2> QED  BY <1>9, <2>1
<1> QED
  BY <1>1, <1>2, <1>3, <1>4, <1>5, <1>6, <1>7, <1>8, <1>10, <1>11, <1>12 DEF Next

-----------------------------------------------------------------------------
(* The bitBuffer. *)

\* What writeBits adds is behind what was there (bitio.go:86-95).
LEMMA BufferGrows ==
    ASSUME BufferSound, NEW v \in Value, BufferBits(v)
    PROVE  BufferSound'
<1> DEFINE acc == Place(bbuf, bnbits, v)
           bits == bnbits + Len(v)
           whole == ByteBits * (bits \div ByteBits)
<1> USE DEF BufferSound
<1>1. /\ data' = data \o Top(acc, whole) /\ bbuf' = Shift(acc, whole)
      /\ bnbits' = bits % ByteBits
      /\ total' = total + Len(v) /\ buffered' = buffered \o v
  BY DEF BufferBits
<1>2. v \in Seq(Bit) /\ Len(v) \in 1..MaxBits /\ bnbits \in Nat
  BY ValueFacts, Widths
<1>3. bits \in Nat /\ bits <= AccBits /\ AccBits \in Nat
  BY <1>2, Widths
<1>4. acc \in Acc /\ Clean(acc, bits) /\ Top(acc, bits) = Top(bbuf, bnbits) \o v
  BY <1>2, <1>3, PlaceFacts
<1>5. bnbits \in 0..AccBits
  BY <1>2, Widths
<1>6. Top(bbuf, bnbits) \in Seq(Bit)
  BY <1>5, TopFacts
<1> HIDE DEF acc, bits
<1>7. /\ bits % ByteBits \in 0..ByteBits - 1
      /\ whole \in Nat /\ whole <= bits /\ bits - whole = bits % ByteBits
  BY <1>3, DivFacts
<1> HIDE DEF whole
<1>8. bits \in 0..AccBits /\ whole \in 0..bits /\ whole \in 0..AccBits
  BY <1>3, <1>7
<1>9. /\ Shift(acc, whole) \in Acc
      /\ Clean(Shift(acc, whole), bits - whole)
      /\ Top(acc, whole) \o Top(Shift(acc, whole), bits - whole) = Top(acc, bits)
  BY <1>4, <1>8, ShiftFacts
<1>10. Top(acc, whole) \in Seq(Bit)
  BY <1>4, <1>8, TopFacts
<1>11. bits - whole \in 0..AccBits
  BY <1>3, <1>7
<1>12. Top(Shift(acc, whole), bits - whole) \in Seq(Bit)
  BY <1>9, <1>11, TopFacts
<1>13. data' \o Top(bbuf', bnbits') = buffered'
  <2>1. data' \o Top(bbuf', bnbits')
        = (data \o Top(acc, whole)) \o Top(Shift(acc, whole), bits - whole)
    BY <1>1, <1>7
  <2>0. ASSUME NEW s \in Seq(Bit), NEW t \in Seq(Bit)
        PROVE  (data \o s) \o t = data \o (s \o t)
    BY Assoc
  <2>2. (data \o Top(acc, whole)) \o Top(Shift(acc, whole), bits - whole)
        = data \o Top(acc, bits)
    <3> DEFINE s == Top(acc, whole)
               t == Top(Shift(acc, whole), bits - whole)
    <3>1. s \in Seq(Bit) /\ t \in Seq(Bit) /\ s \o t = Top(acc, bits)
      BY <1>9, <1>10, <1>12
    <3> HIDE DEF s, t
    <3>2. (data \o s) \o t = data \o (s \o t)
      BY <2>0, <3>1
    <3>3. (data \o s) \o t = data \o Top(acc, bits)
      BY <3>1, <3>2
    <3> QED  BY <3>3 DEF s, t
  <2>3. data \o Top(acc, bits) = (data \o Top(bbuf, bnbits)) \o v
    BY <1>2, <1>4, <1>6, <2>0
  <2>4. data \o Top(bbuf, bnbits) = buffered
    BY DEF BufferExact
  <2> QED  BY <1>1, <2>1, <2>2, <2>3, <2>4
<1>14. buffered' \in Seq(Bit) /\ Len(buffered') = Len(buffered) + Len(v)
  BY <1>1, <1>2, ConcatProperties
<1>15. data' \in Seq(Bit) /\ Whole(Len(data'))
  <2>1. data' \in Seq(Bit) /\ Len(data') = Len(data) + Len(Top(acc, whole))
    BY <1>1, <1>10, ConcatProperties
  <2>2. Len(Top(acc, whole)) = whole
    BY <1>4, <1>8, TopFacts
  <2>3. Whole(whole)
    <3>1. bits \div ByteBits \in Nat /\ ByteBits \in Nat
      BY <1>3, DivFacts, Widths
    <3>2. whole = (bits \div ByteBits) * ByteBits
      BY <3>1 DEF whole
    <3> QED  BY <3>1, <3>2 DEF Whole
  <2>4. Whole(Len(data) + whole)
    BY <1>7, <2>3, WholeSum
  <2> QED  BY <2>1, <2>2, <2>4
<1>16. total' = Len(buffered') /\ total' \in Nat
  BY <1>1, <1>2, <1>14 DEF BufferExact
<1>17. bnbits' \in 0..ByteBits - 1 /\ Clean(bbuf', bnbits') /\ bbuf' \in Acc
  BY <1>1, <1>7, <1>9
<1> QED  BY <1>13, <1>14, <1>15, <1>16, <1>17 DEF BufferExact

LEMMA BufferStays ==
    ASSUME IInv, [Next]_vars
    PROVE  BufferSound'
<1> USE DEF IInv
<1>1. CASE UNCHANGED bufferVars
  BY <1>1 DEF bufferVars, BufferSound, BufferExact
<1>2. CASE \E v \in Value : BufferBits(v)
  BY <1>2, BufferGrows
<1>3. CASE WriteTo
  <2>1. data' = << >> /\ bbuf' = Empty /\ bnbits' = 0 /\ total' = 0 /\ buffered' = << >>
    BY <1>3 DEF WriteTo
  <2>2. bnbits' \in 0..ByteBits - 1
    BY <2>1, Widths
  <2>3. << >> \in Seq(Bit) /\ Len(<< >>) = 0 /\ << >> \o << >> = << >>
    OBVIOUS
  <2> QED  BY <2>1, <2>2, <2>3, EmptyFacts, WholeZero DEF BufferSound, BufferExact
<1>4. Next => \/ \E v \in Value : BufferBits(v)
              \/ WriteTo
              \/ UNCHANGED bufferVars
  BY DEF Next, WriteBits, PutValue, DrainByte, WriteReturns, Flush, FlushByte,
         FlushReturns, ReadBits, FetchByte, FetchFails, ReadReturns
<1>5. UNCHANGED vars => UNCHANGED bufferVars
  BY DEF vars
<1> QED  BY <1>1, <1>2, <1>3, <1>4, <1>5

-----------------------------------------------------------------------------
(* The bitReader. *)

\* A byte fetched is the source's next (bitio.go:140-149).
LEMMA Fetched ==
    ASSUME WriterSound, ReaderSound, FetchByte
    PROVE  ReaderSound'
<1> DEFINE b == SubSeq(out, rpos + 1, rpos + ByteBits)
<1>1. /\ rnbits < want /\ rpos < Len(out) /\ pc = "read" /\ pc' = pc /\ out' = out
      /\ rbuf' = Place(rbuf, rnbits, b)
      /\ rnbits' = rnbits + ByteBits /\ rpos' = rpos + ByteBits
      /\ rerr' = rerr /\ want' = want /\ got' = got
  BY DEF FetchByte, ErrorKept, writerVars
<1>a. /\ rbuf \in Acc /\ Clean(rbuf, rnbits) /\ got \in Seq(Bit) /\ ReadsBack
      /\ rerr \in {"none", "unexpected EOF", "fault"} /\ want \in 0..MaxBits
      /\ rpos \in 0..Len(out) /\ Whole(rpos) /\ rnbits \in 0..AccBits
  BY DEF ReaderSound
<1>b. out \in Seq(Bit) /\ Whole(Len(out))
  BY DEF WriterSound
<1>c. Len(out) \in Nat
  BY <1>b
<1>f. rnbits \in 0..AccBits
  BY <1>a
<1>g. want \in 0..MaxBits
  BY <1>a
<1>h. rpos \in 0..Len(out)
  BY <1>a
<1>d. rnbits \in Nat /\ want \in Nat /\ want <= MaxBits
  BY <1>f, <1>g, Widths
<1>e. rpos \in Nat
  BY <1>h, <1>c
<1>2. out \in Seq(Bit) /\ Whole(Len(out)) /\ Len(out) \in Nat /\ rpos \in Nat
      /\ ByteBits \in Nat /\ rnbits \in Nat /\ AccBits \in Nat
  BY <1>b, <1>c, <1>d, <1>e, Widths
<1>3. rpos + ByteBits <= Len(out)
  BY <1>1, <1>2, <1>a, WholeRoom
<1>4. b \in Seq(Bit) /\ Len(b) = ByteBits /\ Top(out, rpos) \o b = Top(out, rpos + ByteBits)
  BY <1>2, <1>3, Longer
<1> HIDE DEF b
<1>5. rnbits + ByteBits <= AccBits
  BY <1>1, <1>d, Widths
<1>6. /\ rbuf' \in Acc /\ Clean(rbuf', rnbits')
      /\ Top(rbuf', rnbits') = Top(rbuf, rnbits) \o b
  BY <1>1, <1>2, <1>4, <1>5, <1>a, PlaceFacts
<1>7. Top(rbuf, rnbits) \in Seq(Bit)
  BY <1>a, TopFacts
<1>8. ReadsBack'
  <2>1. ASSUME rerr = "none"
        PROVE  got \o (Top(rbuf, rnbits) \o b) = Top(out, rpos + ByteBits)
    <3>1. got \o Top(rbuf, rnbits) = Top(out, rpos)
      BY <1>a, <2>1 DEF ReadsBack
    <3>2. (got \o Top(rbuf, rnbits)) \o b = got \o (Top(rbuf, rnbits) \o b)
      <4>1. ASSUME NEW s \in Seq(Bit), NEW t \in Seq(Bit)
            PROVE  (got \o s) \o t = got \o (s \o t)
        BY <1>a, Assoc
      <4> QED  BY <1>4, <1>7, <4>1
    <3> QED  BY <1>4, <3>1, <3>2
  <2> QED  BY <1>1, <1>6, <2>1 DEF ReadsBack
<1>9. rpos' \in 0..Len(out') /\ Whole(rpos')
  <2>1. Whole(rpos + ByteBits)
    BY <1>2, <1>a, WholeNext
  <2>2. rpos + ByteBits \in 0..Len(out)
    BY <1>2, <1>3
  <2> QED  BY <1>1, <2>1, <2>2
<1>10. rnbits + ByteBits \in 0..AccBits
  BY <1>2, <1>5
<1> QED  BY <1>1, <1>a, <1>6, <1>8, <1>9, <1>10 DEF ReaderSound

\* What readBits returns is the next of the source (bitio.go:150-154).
LEMMA Returned ==
    ASSUME WriterSound, ReaderSound, ReadReturns
    PROVE  ReaderSound'
<1>1. /\ rnbits >= want /\ pc = "read" /\ pc' = "flushed" /\ out' = out
      /\ got' = got \o Top(rbuf, want)
      /\ rbuf' = Shift(rbuf, want) /\ rnbits' = rnbits - want
      /\ rerr' = rerr /\ want' = want /\ rpos' = rpos
  BY DEF ReadReturns, Unread, writerVars
<1>a. /\ rbuf \in Acc /\ Clean(rbuf, rnbits) /\ got \in Seq(Bit) /\ ReadsBack
      /\ rerr \in {"none", "unexpected EOF", "fault"} /\ want \in 0..MaxBits
      /\ rpos \in 0..Len(out) /\ Whole(rpos) /\ rnbits \in 0..AccBits
  BY DEF ReaderSound
<1>b. out \in Seq(Bit) /\ Len(out) \in Nat
  BY DEF WriterSound
<1>d. rnbits \in 0..AccBits
  BY <1>a
<1>e. want \in 0..MaxBits
  BY <1>a
<1>c. rnbits \in Nat /\ want \in Nat /\ AccBits \in Nat /\ rnbits <= AccBits
  BY <1>d, <1>e, Widths
<1>f. rnbits >= want
  BY <1>1
<1>2. want \in 0..rnbits /\ want \in 0..AccBits /\ rnbits - want \in 0..AccBits
  BY <1>c, <1>f
<1>3. /\ rbuf' \in Acc /\ Clean(rbuf', rnbits')
      /\ Top(rbuf, want) \o Top(rbuf', rnbits') = Top(rbuf, rnbits)
  BY <1>1, <1>2, <1>a, ShiftFacts
<1>4. Top(rbuf, want) \in Seq(Bit)
  BY <1>2, <1>a, TopFacts
<1>5. Top(rbuf', rnbits') \in Seq(Bit)
  <2>1. rnbits' \in 0..AccBits
    BY <1>1, <1>2
  <2> QED  BY <1>3, <2>1, TopFacts
<1>6. got' \in Seq(Bit)
  BY <1>1, <1>4, <1>a, ConcatProperties
<1>7. ReadsBack'
  <2>1. CASE rerr = "none"
    <3>1. (got \o Top(rbuf, want)) \o Top(rbuf', rnbits')
          = got \o (Top(rbuf, want) \o Top(rbuf', rnbits'))
      <4>1. ASSUME NEW s \in Seq(Bit), NEW t \in Seq(Bit)
            PROVE  (got \o s) \o t = got \o (s \o t)
        BY <1>a, Assoc
      <4> QED  BY <1>4, <1>5, <4>1
    <3> QED  BY <1>1, <1>3, <1>a, <2>1, <3>1 DEF ReadsBack
  <2>2. CASE rerr # "none"
    BY <1>1, <1>a, <2>2 DEF ReadsBack
  <2> QED  BY <2>1, <2>2
<1> QED  BY <1>1, <1>2, <1>3, <1>6, <1>7, <1>a DEF ReaderSound

LEMMA ReaderStays ==
    ASSUME IInv, [Next]_vars
    PROVE  ReaderSound'
<1> USE DEF IInv
<1>1. CASE FetchByte
  BY <1>1, Fetched
<1>2. CASE ReadReturns
  BY <1>2, Returned
<1>3. CASE FetchFails
  <2>1. /\ rerr' \in {"unexpected EOF", "fault", rerr} /\ (rerr' = "none" => rerr = "none")
        /\ pc' = "flushed" /\ got' = got \o [k \in 1..want |-> 0]
        /\ UNCHANGED <<out, rbuf, rnbits, rpos, want>>
    BY <1>3 DEF FetchFails, FirstError, writerVars
  <2>2. rerr' # "none"
    BY <1>3 DEF FetchFails, FirstError
  <2>3. got' \in Seq(Bit)
    <3>1. want \in Nat
      <4>1. want \in 0..MaxBits
        BY DEF ReaderSound
      <4> QED  BY <4>1, Widths
    <3>2. [k \in 1..want |-> 0] \in Seq(Bit)
      BY <3>1 DEF Bit
    <3> QED  BY <2>1, <3>2, ConcatProperties DEF ReaderSound
  <2>4. ReadsBack' /\ rerr' \in {"none", "unexpected EOF", "fault"}
    BY <2>1, <2>2 DEF ReaderSound, ReadsBack
  <2> QED  BY <2>1, <2>3, <2>4 DEF ReaderSound
<1>4. ASSUME NEW n \in 1..MaxBits, ReadBits(n)
      PROVE  ReaderSound'
  <2>1. n \in 0..MaxBits
    BY Widths
  <2> QED  BY <1>4, <2>1 DEF ReadBits, writerVars, ReaderSound, ReadsBack
<1>5. CASE UNCHANGED <<readerVars, out>> /\ (pc' \in {"idle", "write", "flush"}
                                             => pc \in {"idle", "write", "flush"})
  BY <1>5 DEF readerVars, ReaderSound, ReadsBack
<1>6. CASE UNCHANGED readerVars /\ pc \in {"write", "flush"} /\ pc' = pc
  <2>1. out' \in Seq(Bit) /\ Len(out') \in Nat
    BY WriterStays DEF WriterSound
  <2>2. /\ got' = << >> /\ rpos' = 0 /\ rnbits' = 0 /\ rbuf' = rbuf /\ rerr' = rerr
        /\ want' = want /\ rbuf \in Acc /\ Clean(rbuf, 0)
    BY <1>6 DEF readerVars, ReaderSound
  <2>3. ReadsBack'
    <3>1. Top(rbuf, 0) = << >> /\ << >> \o << >> = << >> /\ Len(<< >>) = 0
      <4>1. Top(rbuf, 0) \in Seq(Bit) /\ Len(Top(rbuf, 0)) = 0
        BY <2>2, Widths, TopFacts
      <4> QED  BY <4>1
    <3>2. Top(out', 0) = << >>
      BY <2>1, NoBits
    <3> QED  BY <2>2, <3>1, <3>2 DEF ReadsBack
  <2>4. rpos' \in 0..Len(out') /\ Whole(rpos') /\ rnbits' \in 0..AccBits /\ got' \in Seq(Bit)
    BY <2>1, <2>2, WholeZero, Widths
  <2> QED  BY <2>2, <2>3, <2>4 DEF ReaderSound
<1>7. Next => \/ FetchByte \/ FetchFails \/ ReadReturns
              \/ \E n \in 1..MaxBits : ReadBits(n)
              \/ /\ UNCHANGED <<readerVars, out>>
                 /\ pc' \in {"idle", "write", "flush"} => pc \in {"idle", "write", "flush"}
              \/ UNCHANGED readerVars /\ pc \in {"write", "flush"} /\ pc' = pc
  BY DEF Next, BufferBits, WriteBits, WriteTo, PutValue, DrainByte, WriteReturns, Flush,
         FlushByte, FlushReturns, writerVars
<1>8. UNCHANGED vars => UNCHANGED <<readerVars, out>> /\ pc' = pc
  BY DEF vars, writerVars
<1> QED  BY <1>1, <1>2, <1>3, <1>4, <1>5, <1>6, <1>7, <1>8

-----------------------------------------------------------------------------
(* Theorems. *)

LEMMA Starts == Init => IInv
<1> SUFFICES ASSUME Init PROVE IInv
  OBVIOUS
<1>1. << >> \in Seq(Bit) /\ Len(<< >>) = 0 /\ << >> \o << >> = << >> /\ << >> \in Seq(Piece)
  OBVIOUS
<1>2. Empty \in Acc /\ Clean(Empty, 0) /\ Top(Empty, 0) = << >> /\ Whole(0)
  BY EmptyFacts, WholeZero
<1>3. /\ 0 \in 0..ByteBits - 1 /\ 0 \in 0..AccBits /\ 0 \in 0..0 /\ 0 \in 0..MaxBits
      /\ FALSE \in BOOLEAN
  BY Widths
<1>4. WriterSound
  BY <1>1, <1>2, <1>3 DEF Init, WriterSound
<1>5. BufferSound
  BY <1>1, <1>2, <1>3 DEF Init, BufferSound, BufferExact
<1>6. ReadsBack
  <2>1. Top(<< >>, 0) = << >>
    BY <1>1, NoBits
  <2> QED  BY <1>1, <1>2, <2>1 DEF Init, ReadsBack
<1>7. ReaderSound
  BY <1>1, <1>2, <1>3, <1>6 DEF Init, ReaderSound
<1>8. AskedSound
  <2>1. nbits < ByteBits
    BY Widths DEF Init
  <2>2. out \o Waiting = asked
    BY <1>1, <1>2, FlattenEmpty DEF Init, Waiting
  <2> QED  BY <1>1, <2>1, <2>2 DEF Init, AskedSound, ExactBits
<1> QED  BY <1>4, <1>5, <1>7, <1>8 DEF IInv

\* Whatever the widths, whoever fails: each of the three streams keeps its bits in order
\* and zeros behind them.
THEOREM Invariance == Spec => []IInv
<1>1. IInv /\ [Next]_vars => IInv'
  BY WriterStays, BufferStays, ReaderStays, AskedStays DEF IInv
<1> QED  BY Starts, <1>1, PTL DEF Spec

\* The fills of the accumulators never exceed their width, and the calls' values fit.
THEOREM TypeCorrect == Spec => []TypeOK
<1>1. IInv => TypeOK
  <2> SUFFICES ASSUME IInv PROVE TypeOK
    OBVIOUS
  <2>1. ASSUME NEW k \in DOMAIN todo
        PROVE  todo[k] \in Seq(Bit) /\ Len(todo[k]) \in 1..AccBits
    <3>1. todo[k] \in Piece
      BY <2>1 DEF IInv, WriterSound
    <3> QED  BY <3>1, Widths DEF Piece
  <2> QED  BY <2>1 DEF IInv, WriterSound, BufferSound, ReaderSound, TypeOK
<1> QED  BY <1>1, Invariance, PTL

\* What the next value is OR-ed into is zero, in all three accumulators: a stray bit
\* would corrupt the value after it (bitio.go:23, 87, 147).
THEOREM Zeros == Spec => []NoStrayBits
<1>1. IInv => NoStrayBits
  BY DEF IInv, WriterSound, BufferSound, ReaderSound, Clean, NoStrayBits
<1> QED  BY <1>1, Invariance, PTL

\* A block's bitBuffer has exactly the bits of the block (bitio.go:86-95).
THEOREM BlockIsExact == Spec => []BufferExact
<1>1. IInv => BufferExact
  BY DEF IInv, BufferSound
<1> QED  BY <1>1, Invariance, PTL

\* What the encoder wrote, by single values or by blocks spliced in at any bit, is at the
\* destination or on its way there, bit for bit and in order, for values of any length up
\* to MaxBits and streams of any length (bitio.go:18-34, 108-119).
THEOREM NothingBetween == Spec => []ExactBits
<1>1. IInv => ExactBits
  BY DEF IInv, AskedSound
<1> QED  BY <1>1, Invariance, PTL

\* flush leaves the destination with all the bits written, and fewer than a byte of zeros
\* behind them (bitio.go:49-67).
THEOREM PaddedAtTheEnd == Spec => []FlushPads
<1>1. IInv => FlushPads
  BY DEF IInv, AskedSound, Padded, FlushPads
<1> QED  BY <1>1, Invariance, PTL

\* As long as Err() is nil, everything readBits has returned is what the source holds, in
\* order, however the reads are cut: no failed read is forgotten when the source works
\* again (bitio.go:134-154, 162-165).
THEOREM ReadsWhatIsThere == Spec => []ReadsBack
<1>1. IInv => ReadsBack
  BY DEF IInv, ReaderSound
<1> QED  BY <1>1, Invariance, PTL

\* After a failed write the destination gets nothing more and the error stays
\* (bitio.go:19-21, 51-53).
THEOREM ErrorIsFinal == Spec => StopsAtError
<1>1. [Next]_vars => [err => out' = out /\ err']_vars
  <2> SUFFICES ASSUME Next, err PROVE out' = out /\ err'
    BY DEF vars, writerVars
  <2> QED
    BY DEF Next, BufferBits, WriteBits, WriteTo, PutValue, DrainByte, WriteReturns, Flush,
           FlushByte, FlushReturns, ReadBits, FetchByte, FetchFails, ReadReturns, Dead,
           writerVars
<1> QED  BY <1>1, PTL DEF Spec, StopsAtError
=============================================================================
