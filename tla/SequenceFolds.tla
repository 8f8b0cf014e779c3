---------------------------- MODULE SequenceFolds ----------------------------
(***************************************************************************)
(* Facts the proofs share.  About FlattenSeq, by which the modules join    *)
(* the data of blocks or the values of a call, for sequences of any        *)
(* length; about functions on 0 .. n that are defined step by step; about  *)
(* least and greatest numbers, the places of things in an order, sums over *)
(* sets and sequences, and where the parts of joined sequences stand.      *)
(* They rest on induction over the natural numbers, told with a set of     *)
(* numbers in place of a predicate.                                        *)
(***************************************************************************)
EXTENDS Integers, FiniteSets, SequencesExt, SequenceTheorems, FiniteSetTheorems, TLAPS

\* A set of numbers with 0 and, with each, the next is that of all numbers: otherwise
\* the successor would map the finite set of its members below a gap into itself, one
\* to one and not onto.
LEMMA Induction ==
    ASSUME NEW T, T \subseteq Nat, 0 \in T, \A k \in T : k + 1 \in T
    PROVE  T = Nat
<1> SUFFICES ASSUME NEW gap \in Nat, gap \notin T PROVE FALSE
  OBVIOUS
<1> DEFINE below == {k \in T : k <= gap}
           next == [k \in below |-> k + 1]
<1>1. IsFiniteSet(below)
  <2>1. below \in SUBSET Nat /\ \A k \in below : k <= gap
    OBVIOUS
  <2> QED  BY <2>1, FS_BoundedSetOfNaturals
<1>2. \A k \in below : k + 1 \in below
  <2> SUFFICES ASSUME NEW k \in below PROVE k + 1 \in below
    OBVIOUS
  <2>1. k # gap /\ k \in Nat /\ k <= gap
    OBVIOUS
  <2>2. k + 1 <= gap
    BY <2>1
  <2> QED  BY <2>2
<1>3. next \in Injection(below, below)
  <2>1. next \in [below -> below]
    BY <1>2
  <2>2. ASSUME NEW a \in below, NEW b \in below, next[a] = next[b]
        PROVE  a = b
    <3>1. a + 1 = b + 1 /\ a \in Nat /\ b \in Nat
      BY <2>2
    <3> QED  BY <3>1
  <2> QED  BY <2>1, <2>2 DEF Injection, IsInjective
<1>4. next \in Surjection(below, below)
  BY <1>1, <1>3, FS_Injection
<1>5. 0 \in below
  OBVIOUS
<1>6. PICK k \in below : next[k] = 0
  BY <1>4, <1>5 DEF Surjection
<1> QED  BY <1>6

\* The items of two sequences laid end to end.
LEMMA JoinedItems ==
    ASSUME NEW S, NEW a \in Seq(S), NEW b \in Seq(S)
    PROVE  /\ Len(a) \in Nat /\ Len(b) \in Nat /\ Len(a \o b) = Len(a) + Len(b)
           /\ a \o b \in Seq(S)
           /\ \A k \in 1 .. Len(a) : (a \o b)[k] = a[k] /\ k \in 1 .. Len(a \o b)
           /\ \A k \in 1 .. Len(b) : (a \o b)[Len(a) + k] = b[k] /\ Len(a) + k \in 1 .. Len(a \o b)
<1>1. a \o b \in Seq(S) /\ Len(a \o b) = Len(a) + Len(b)
  BY ConcatProperties
<1>2. Len(a) \in Nat /\ Len(b) \in Nat
  OBVIOUS
<1>3. \A k \in 1 .. Len(a) : (a \o b)[k] = a[k]
  BY ConcatProperties
<1>4. \A k \in 1 .. Len(b) : (a \o b)[Len(a) + k] = b[k]
  BY ConcatProperties
<1>5. /\ \A k \in 1 .. Len(a) : k \in 1 .. Len(a) + Len(b)
      /\ \A k \in 1 .. Len(b) : Len(a) + k \in 1 .. Len(a) + Len(b)
  BY <1>2
<1> QED  BY <1>1, <1>2, <1>3, <1>4, <1>5

LEMMA JoinedSecond ==
    ASSUME NEW S, NEW a \in Seq(S), NEW b \in Seq(S), NEW k \in 1 .. Len(b)
    PROVE  (a \o b)[Len(a) + k] = b[k]
BY JoinedItems

LEMMA SeqIn ==
    ASSUME NEW S, NEW T, S \subseteq T, NEW x \in Seq(S)
    PROVE  x \in Seq(T)
<1>1. x \in [1 .. Len(x) -> S] /\ Len(x) \in Nat
  OBVIOUS
<1>2. x \in [1 .. Len(x) -> T]
  BY <1>1
<1> QED  BY <1>1, <1>2

-----------------------------------------------------------------------------
(* FlattenSeq. *)

\* The sequences joined up to each of them.
JoinedUpTo(seqs, n, f) ==
    f = [i \in 1..n |-> IF i = 1 THEN seqs[i] ELSE f[i - 1] \o seqs[i]]

\* There is such a function for every length.
LEMMA JoinedExists ==
    ASSUME NEW seqs, NEW n \in Nat
    PROVE  \E f : JoinedUpTo(seqs, n, f)
<1> DEFINE T == {k \in Nat : \E f : JoinedUpTo(seqs, k, f)}
<1>1. 0 \in T
  <2>1. JoinedUpTo(seqs, 0, [i \in 1..0 |-> seqs[i]])
    BY DEF JoinedUpTo
  <2> QED  BY <2>1
<1>2. ASSUME NEW k \in T
      PROVE  k + 1 \in T
  <2>1. PICK f : JoinedUpTo(seqs, k, f)
    OBVIOUS
  <2> DEFINE g == [i \in 1..k + 1 |->
                     IF i \in 1..k THEN f[i]
                     ELSE IF i = 1 THEN seqs[i] ELSE f[i - 1] \o seqs[i]]
  <2>2. ASSUME NEW i \in 1..k + 1
        PROVE  g[i] = IF i = 1 THEN seqs[i] ELSE g[i - 1] \o seqs[i]
    <3>1. CASE i \in 1..k
      <4>1. g[i] = f[i] /\ (i # 1 => i - 1 \in 1..k /\ i - 1 \in 1..k + 1)
        BY <3>1
      <4>2. f[i] = IF i = 1 THEN seqs[i] ELSE f[i - 1] \o seqs[i]
        BY <2>1, <3>1 DEF JoinedUpTo
      <4> QED  BY <4>1, <4>2
    <3>2. CASE i \notin 1..k
      <4>1. i # 1 => i - 1 \in 1..k /\ i - 1 \in 1..k + 1
        BY <3>2
      <4> QED  BY <3>2, <4>1
    <3> QED  BY <3>1, <3>2
  <2>3. JoinedUpTo(seqs, k + 1, g)
    BY <2>2 DEF JoinedUpTo
  <2> QED  BY <2>3
<1>3. T = Nat
  BY <1>1, <1>2, Induction
<1> QED  BY <1>3

SameUpTo(s, t, n) == \A i \in 1..n : s[i] = t[i]

\* It depends on the sequences up to there alone.
LEMMA JoinedAgrees ==
    ASSUME NEW seqs, NEW other, NEW n \in Nat, NEW m \in Nat, NEW f, NEW g,
           JoinedUpTo(seqs, n, f), JoinedUpTo(other, m, g),
           n <= m, SameUpTo(seqs, other, n)
    PROVE  SameUpTo(f, g, n)
<1> DEFINE T == {j \in Nat : j \in 1..n => f[j] = g[j]}
<1>1. 0 \in T
  OBVIOUS
<1>2. ASSUME NEW j \in T
      PROVE  j + 1 \in T
  <2> SUFFICES ASSUME j + 1 \in 1..n PROVE f[j + 1] = g[j + 1]
    OBVIOUS
  <2>1. j + 1 \in 1..n /\ j + 1 \in 1..m /\ other[j + 1] = seqs[j + 1] /\ (j + 1) - 1 = j
    BY DEF SameUpTo
  <2>2. f[j + 1] = IF j + 1 = 1 THEN seqs[j + 1] ELSE f[j] \o seqs[j + 1]
    BY <2>1 DEF JoinedUpTo
  <2>3. g[j + 1] = IF j + 1 = 1 THEN other[j + 1] ELSE g[j] \o other[j + 1]
    BY <2>1 DEF JoinedUpTo
  <2>4. CASE j = 0
    BY <2>1, <2>2, <2>3, <2>4
  <2>5. CASE j # 0
    <3>1. f[j] = g[j]
      BY <2>5
    <3> QED  BY <2>1, <2>2, <2>3, <3>1, <2>5
  <2> QED  BY <2>4, <2>5
<1>3. T = Nat
  BY <1>1, <1>2, Induction
<1> QED  BY <1>3 DEF SameUpTo

\* FlattenSeq is the last value of that function.
LEMMA FlattenIsJoined ==
    ASSUME NEW seqs, Len(seqs) \in Nat, Len(seqs) # 0
    PROVE  \E f : JoinedUpTo(seqs, Len(seqs), f) /\ FlattenSeq(seqs) = f[Len(seqs)]
<1> DEFINE n == Len(seqs)
           chosen == CHOOSE f : f = [i \in 1..n |-> IF i = 1 THEN seqs[i] ELSE f[i - 1] \o seqs[i]]
<1>1. \E f : f = [i \in 1..n |-> IF i = 1 THEN seqs[i] ELSE f[i - 1] \o seqs[i]]
  BY JoinedExists DEF JoinedUpTo
<1>2. JoinedUpTo(seqs, n, chosen)
  BY <1>1 DEF JoinedUpTo
<1>3. FlattenSeq(seqs) = chosen[n]
  BY DEF FlattenSeq
<1> QED  BY <1>2, <1>3

\* Nothing joined is nothing.
LEMMA FlattenEmpty == FlattenSeq(<< >>) = << >>
  BY DEF FlattenSeq

\* One more is joined at the end.
LEMMA FlattenAppend ==
    ASSUME NEW S, NEW seqs \in Seq(Seq(S)), NEW s \in Seq(S)
    PROVE  FlattenSeq(Append(seqs, s)) = FlattenSeq(seqs) \o s
<1> DEFINE more == Append(seqs, s)
           n == Len(seqs)
<1>1. /\ n \in Nat /\ Len(more) = n + 1 /\ more[n + 1] = s
      /\ \A i \in 1..n : more[i] = seqs[i]
  OBVIOUS
<1> HIDE DEF more, n
<1>2. PICK g : JoinedUpTo(more, n + 1, g) /\ FlattenSeq(more) = g[n + 1]
  <2>1. Len(more) \in Nat /\ Len(more) # 0
    BY <1>1
  <2>2. \E g : JoinedUpTo(more, Len(more), g) /\ FlattenSeq(more) = g[Len(more)]
    BY <2>1, FlattenIsJoined
  <2> QED  BY <1>1, <2>2
<1>3. CASE n = 0
  <2>1. seqs = << >> /\ FlattenSeq(seqs) = << >> /\ << >> \o s = s
    BY <1>3, FlattenEmpty DEF n
  <2>2. g[1] = more[1]
    BY <1>2, <1>3 DEF JoinedUpTo
  <2> QED  BY <1>1, <1>2, <1>3, <2>1, <2>2 DEF more
<1>4. CASE n # 0
  <2>1. PICK f : JoinedUpTo(seqs, n, f) /\ FlattenSeq(seqs) = f[n]
    BY <1>1, <1>4, FlattenIsJoined DEF n
  <2>2. n \in 1..n /\ n <= n + 1 /\ n + 1 \in 1..n + 1 /\ (n + 1) - 1 = n /\ n + 1 # 1
    BY <1>1, <1>4
  <2>3. f[n] = g[n]
    <3>1. PICK m \in Nat : m = n + 1
      BY <1>1
    <3>2. JoinedUpTo(more, m, g) /\ n <= n /\ n <= m /\ n \in Nat
      BY <1>1, <1>2, <3>1
    <3>3. JoinedUpTo(seqs, n, f) /\ SameUpTo(seqs, more, n)
      BY <1>1, <2>1 DEF SameUpTo
    <3>4. SameUpTo(f, g, n)
      BY <3>2, <3>3, JoinedAgrees
    <3> QED  BY <2>2, <3>4 DEF SameUpTo
  <2>4. g[n + 1] = g[n] \o more[n + 1]
    BY <1>2, <2>2 DEF JoinedUpTo
  <2> QED  BY <1>1, <1>2, <2>1, <2>3, <2>4 DEF more
<1> QED  BY <1>3, <1>4

\* A sequence that is not empty is its last element behind the others.
Others(s) == [i \in 1..Len(s) - 1 |-> s[i]]

LEMMA LastAppended ==
    ASSUME NEW S, NEW s \in Seq(S), Len(s) # 0
    PROVE  /\ Others(s) \in Seq(S) /\ Len(Others(s)) = Len(s) - 1 /\ s[Len(s)] \in S
           /\ s = Append(Others(s), s[Len(s)])
<1> DEFINE e == s[Len(s)]
<1>1. Others(s) \in Seq(S) /\ Len(Others(s)) = Len(s) - 1 /\ e \in S
  BY DEF Others
<1>2. Append(Others(s), e) \in Seq(S) /\ Len(Append(Others(s), e)) = Len(s)
  BY <1>1
<1>3. \A i \in 1..Len(s) : s[i] = Append(Others(s), e)[i]
  BY <1>1 DEF Others
<1>4. s = Append(Others(s), e)
  BY <1>2, <1>3, SeqEqual
<1> QED  BY <1>1, <1>4

\* What is appended to the second of two sequences is appended to both.
LEMMA AppendLast ==
    ASSUME NEW S, NEW a \in Seq(S), NEW r \in Seq(S), NEW e \in S
    PROVE  a \o r \in Seq(S) /\ a \o Append(r, e) = Append(a \o r, e)
<1>1. a \o r \in Seq(S) /\ Append(r, e) \in Seq(S) /\ Len(a \o r) = Len(a) + Len(r)
  OBVIOUS
<1>2. /\ a \o Append(r, e) \in Seq(S) /\ Append(a \o r, e) \in Seq(S)
      /\ Len(a \o Append(r, e)) = Len(Append(a \o r, e))
  BY <1>1
<1>3. \A i \in 1..Len(a \o Append(r, e)) : (a \o Append(r, e))[i] = Append(a \o r, e)[i]
  BY <1>1
<1> QED  BY <1>1, <1>2, <1>3, SeqEqual

\* What is joined is of the same elements.
LEMMA FlattenType ==
    ASSUME NEW S, NEW seqs \in Seq(Seq(S))
    PROVE  FlattenSeq(seqs) \in Seq(S)
<1> DEFINE T == {k \in Nat : \A q \in Seq(Seq(S)) : Len(q) = k => FlattenSeq(q) \in Seq(S)}
<1>1. 0 \in T
  BY FlattenEmpty
<1>2. ASSUME NEW k \in Nat, k \in T
      PROVE  k + 1 \in T
  <2> SUFFICES ASSUME NEW q \in Seq(Seq(S)), Len(q) = k + 1 PROVE FlattenSeq(q) \in Seq(S)
    OBVIOUS
  <2>0. Len(q) = k + 1
    OBVIOUS
  <2> DEFINE r == Others(q)
             e == q[Len(q)]
  <2>1. r \in Seq(Seq(S)) /\ Len(r) = k /\ e \in Seq(S) /\ q = Append(r, e)
    <3> HIDE DEF T
    <3> DEFINE Q == Seq(S)
    <3>1. q \in Seq(Q)
      OBVIOUS
    <3> HIDE DEF Q
    <3>2. r \in Seq(Q) /\ Len(r) = Len(q) - 1 /\ e \in Q /\ q = Append(r, e)
      BY <2>0, <3>1, LastAppended
    <3>3. Len(q) - 1 = k
      BY <2>0
    <3> HIDE DEF r, e
    <3> QED  BY <3>2, <3>3 DEF Q
  <2> HIDE DEF r, e
  <2>2. FlattenSeq(r) \in Seq(S)
    BY <1>2, <2>1
  <2>3. FlattenSeq(q) = FlattenSeq(r) \o e
    BY <2>1, FlattenAppend
  <2> QED  BY <2>1, <2>2, <2>3
<1>3. T = Nat
  <2>1. T \subseteq Nat
    OBVIOUS
  <2> HIDE DEF T
  <2> QED  BY <1>1, <1>2, <2>1, Induction
<1>4. Len(seqs) \in Nat
  OBVIOUS
<1> QED  BY <1>3, <1>4

\* Joining is done in any two halves.
LEMMA FlattenConcat ==
    ASSUME NEW S, NEW a \in Seq(Seq(S)), NEW b \in Seq(Seq(S))
    PROVE  FlattenSeq(a \o b) = FlattenSeq(a) \o FlattenSeq(b)
<1> DEFINE T == {k \in Nat : \A q \in Seq(Seq(S)) :
                   Len(q) = k => FlattenSeq(a \o q) = FlattenSeq(a) \o FlattenSeq(q)}
<1>1. 0 \in T
  <2> SUFFICES ASSUME NEW q \in Seq(Seq(S)), Len(q) = 0
               PROVE  FlattenSeq(a \o q) = FlattenSeq(a) \o FlattenSeq(q)
    OBVIOUS
  <2>1. q = << >> /\ a \o q = a
    OBVIOUS
  <2>2. FlattenSeq(a) \in Seq(S)
    BY FlattenType
  <2> QED  BY <2>1, <2>2, FlattenEmpty
<1>2. ASSUME NEW k \in Nat, k \in T
      PROVE  k + 1 \in T
  <2> SUFFICES ASSUME NEW q \in Seq(Seq(S)), Len(q) = k + 1
               PROVE  FlattenSeq(a \o q) = FlattenSeq(a) \o FlattenSeq(q)
    OBVIOUS
  <2>0. Len(q) = k + 1
    OBVIOUS
  <2> DEFINE r == Others(q)
             e == q[Len(q)]
  <2>1. r \in Seq(Seq(S)) /\ Len(r) = k /\ e \in Seq(S) /\ q = Append(r, e)
    <3> HIDE DEF T
    <3> DEFINE Q == Seq(S)
    <3>1. q \in Seq(Q)
      OBVIOUS
    <3> HIDE DEF Q
    <3>2. r \in Seq(Q) /\ Len(r) = Len(q) - 1 /\ e \in Q /\ q = Append(r, e)
      BY <2>0, <3>1, LastAppended
    <3>3. Len(q) - 1 = k
      BY <2>0
    <3> HIDE DEF r, e
    <3> QED  BY <3>2, <3>3 DEF Q
  <2> HIDE DEF r, e
  <2>2. FlattenSeq(a \o r) = FlattenSeq(a) \o FlattenSeq(r)
    BY <1>2, <2>1
  <2>3. a \o q = Append(a \o r, e) /\ a \o r \in Seq(Seq(S))
    <3> HIDE DEF T
    <3> DEFINE Q == Seq(S)
    <3>1. a \in Seq(Q) /\ r \in Seq(Q) /\ e \in Q
      BY <2>1
    <3> HIDE DEF Q
    <3>2. a \o r \in Seq(Q) /\ a \o Append(r, e) = Append(a \o r, e)
      BY <3>1, AppendLast
    <3> QED  BY <2>1, <3>2 DEF Q
  <2>4. FlattenSeq(a \o q) = FlattenSeq(a \o r) \o e /\ FlattenSeq(q) = FlattenSeq(r) \o e
    BY <2>1, <2>3, FlattenAppend
  <2>5. FlattenSeq(a) \in Seq(S) /\ FlattenSeq(r) \in Seq(S)
    BY <2>1, FlattenType
  <2>6. (FlattenSeq(a) \o FlattenSeq(r)) \o e = FlattenSeq(a) \o (FlattenSeq(r) \o e)
    BY <2>1, <2>5, ConcatAssociative, SMTT(30)
  <2> QED  BY <2>2, <2>4, <2>6
<1>3. T = Nat
  <2>1. T \subseteq Nat
    OBVIOUS
  <2> HIDE DEF T
  <2> QED  BY <1>1, <1>2, <2>1, Induction
<1>4. Len(b) \in Nat
  OBVIOUS
<1> QED  BY <1>3, <1>4

\* One sequence joined is itself.
LEMMA FlattenOne ==
    ASSUME NEW S, NEW s \in Seq(S)
    PROVE  FlattenSeq(<< s >>) = s
<1>1. << >> \in Seq(Seq(S)) /\ Append(<< >>, s) = << s >> /\ << >> \o s = s
  OBVIOUS
<1>2. FlattenSeq(Append(<< >>, s)) = FlattenSeq(<< >>) \o s
  BY <1>1, FlattenAppend
<1> QED  BY <1>1, <1>2, FlattenEmpty

\* What is joined begins with the first.
LEMMA FlattenHead ==
    ASSUME NEW S, NEW seqs \in Seq(Seq(S)), seqs # << >>
    PROVE  FlattenSeq(seqs) = Head(seqs) \o FlattenSeq(Tail(seqs))
<1>1. Head(seqs) \in Seq(S) /\ Tail(seqs) \in Seq(Seq(S)) /\ << Head(seqs) >> \in Seq(Seq(S))
  OBVIOUS
<1>2. seqs = << Head(seqs) >> \o Tail(seqs)
  <2>1. Len(<< Head(seqs) >> \o Tail(seqs)) = Len(seqs)
    BY <1>1
  <2>2. \A i \in 1..Len(seqs) : seqs[i] = (<< Head(seqs) >> \o Tail(seqs))[i]
    BY <1>1
  <2>3. << Head(seqs) >> \o Tail(seqs) \in Seq(Seq(S))
    BY <1>1
  <2> QED  BY <2>1, <2>2, <2>3, SeqEqual
<1>3. FlattenSeq(seqs) = FlattenSeq(<< Head(seqs) >>) \o FlattenSeq(Tail(seqs))
  BY <1>1, <1>2, FlattenConcat
<1> QED  BY <1>1, <1>3, FlattenOne

-----------------------------------------------------------------------------
(* Functions on 0..n defined by recursion.                                 *)

\* A step F on the values in St, started from b, is taken n times.
StepsTaken(n, St, b, F) ==
    \E g \in [0..n -> St] : g[0] = b /\ \A k \in 1..n : g[k] = F[<< g[k - 1], k >>]

LEMMA RecursionExists ==
    ASSUME NEW n \in Nat, NEW St, NEW b \in St, NEW F \in [St \X (1..n) -> St]
    PROVE  StepsTaken(n, St, b, F)
<1> DEFINE Upto(m, g) == \A k \in 0..m : g[k] = IF k = 0 THEN b ELSE F[<< g[k - 1], k >>]
           T == {m \in Nat : m <= n => \E g \in [0..m -> St] : Upto(m, g)}
<1>1. 0 \in T
  <2>1. [k \in 0..0 |-> b] \in [0..0 -> St] /\ Upto(0, [k \in 0..0 |-> b])
    OBVIOUS
  <2> QED  BY <2>1
<1>2. ASSUME NEW m \in Nat, m \in T PROVE m + 1 \in T
  <2> SUFFICES ASSUME m + 1 <= n PROVE \E g \in [0..m + 1 -> St] : Upto(m + 1, g)
    OBVIOUS
  <2>1. PICK f \in [0..m -> St] : Upto(m, f)
    BY <1>2
  <2> DEFINE g == [k \in 0..m + 1 |-> IF k = m + 1 THEN F[<< f[m], m + 1 >>] ELSE f[k]]
  <2>2. f[m] \in St /\ m + 1 \in 1..n
    BY <2>1
  <2>3. F[<< f[m], m + 1 >>] \in St
    BY <2>2
  <2>4. g \in [0..m + 1 -> St]
    BY <2>1, <2>3
  <2>5. Upto(m + 1, g)
    <3> SUFFICES ASSUME NEW k \in 0..m + 1
                 PROVE  g[k] = IF k = 0 THEN b ELSE F[<< g[k - 1], k >>]
      OBVIOUS
    <3>1. CASE k = m + 1
      <4>1. m \in 0..m + 1 /\ m # m + 1 /\ k # 0 /\ k - 1 = m
        BY <3>1
      <4>2. g[k - 1] = f[m]
        BY <4>1
      <4> QED  BY <3>1, <4>1, <4>2
    <3>2. CASE k # m + 1
      <4>1. k \in 0..m /\ g[k] = f[k]
        BY <3>2
      <4>2. k # 0 => k - 1 \in 0..m + 1 /\ k - 1 # m + 1
        BY <4>1
      <4>3. k # 0 => g[k - 1] = f[k - 1]
        BY <4>2
      <4> QED  BY <2>1, <4>1, <4>3
    <3> QED  BY <3>1, <3>2
  <2> QED  BY <2>4, <2>5
<1>3. T = Nat
  <2>1. T \subseteq Nat
    OBVIOUS
  <2> HIDE DEF T
  <2> QED  BY <1>1, <1>2, <2>1, Induction
<1>4. \E g \in [0..n -> St] : Upto(n, g)
  <2>1. n \in T
    <3> HIDE DEF T
    <3> QED  BY <1>3
  <2> HIDE DEF Upto
  <2> QED  BY <2>1
<1>5. PICK g \in [0..n -> St] : Upto(n, g)
  BY <1>4
<1>6. g[0] = b
  <2>1. 0 \in 0..n
    OBVIOUS
  <2> QED  BY <1>5, <2>1
<1>7. ASSUME NEW k \in 1..n PROVE g[k] = F[<< g[k - 1], k >>]
  <2>1. k \in 0..n /\ k # 0
    OBVIOUS
  <2> QED  BY <1>5, <2>1
<1> QED  BY <1>6, <1>7 DEF StepsTaken

\* What holds of the first value and is kept by every step holds of all.
LEMMA RecursionInvariant ==
    ASSUME NEW n \in Nat, NEW St, NEW g, g[0] \in St[0],
           \A k \in 1..n : g[k - 1] \in St[k - 1] => g[k] \in St[k]
    PROVE  \A k \in 0..n : g[k] \in St[k]
<1> DEFINE T == {k \in Nat : k <= n => g[k] \in St[k]}
<1>1. 0 \in T
  OBVIOUS
<1>2. ASSUME NEW k \in Nat, k \in T PROVE k + 1 \in T
  <2>1. k + 1 <= n => k + 1 \in 1..n /\ (k + 1) - 1 = k /\ k <= n
    OBVIOUS
  <2> QED  BY <1>2, <2>1
<1>3. T = Nat
  <2>1. T \subseteq Nat
    OBVIOUS
  <2> HIDE DEF T
  <2> QED  BY <1>1, <1>2, <2>1, Induction
<1> QED  BY <1>3

\* Two functions that start alike and step alike are alike.
StepAlike(n, f, g) == f[0] = g[0] /\ \A k \in 1..n : f[k - 1] = g[k - 1] => f[k] = g[k]

LEMMA RecursionSame ==
    ASSUME NEW n \in Nat, NEW f, NEW g, StepAlike(n, f, g)
    PROVE  \A k \in 0..n : f[k] = g[k]
<1> DEFINE St == [k \in 0..n |-> {g[k]}]
<1>1. f[0] \in St[0]
  BY DEF StepAlike
<1>2. ASSUME NEW k \in 1..n, f[k - 1] \in St[k - 1] PROVE f[k] \in St[k]
  <2>1. k - 1 \in 0..n /\ k \in 0..n
    OBVIOUS
  <2> QED  BY <1>2, <2>1 DEF StepAlike
<1>3. \A k \in 0..n : f[k] \in St[k]
  <2> HIDE DEF St
  <2> QED  BY <1>1, <1>2, RecursionInvariant
<1> QED  BY <1>3

\* What holds of a number when it holds of all smaller ones holds of all.
LEMMA StrongInduction ==
    ASSUME NEW T, \A k \in Nat : (\A j \in Nat : j < k => j \in T) => k \in T
    PROVE  \A k \in Nat : k \in T
<1> DEFINE U == {k \in Nat : \A j \in Nat : j <= k => j \in T}
<1>1. 0 \in U
  <2>1. \A j \in Nat : j <= 0 => j = 0
    OBVIOUS
  <2>2. \A j \in Nat : ~ (j < 0)
    OBVIOUS
  <2> QED  BY <2>1, <2>2
<1>2. ASSUME NEW k \in Nat, k \in U PROVE k + 1 \in U
  <2>1. \A j \in Nat : j < k + 1 => j <= k
    OBVIOUS
  <2>2. k + 1 \in Nat
    OBVIOUS
  <2>3. \A j \in Nat : j < k + 1 => j \in T
    BY <1>2, <2>1
  <2>4. k + 1 \in T
    BY <2>2, <2>3
  <2>5. \A j \in Nat : j <= k + 1 => j < k + 1 \/ j = k + 1
    OBVIOUS
  <2> QED  BY <2>2, <2>3, <2>4, <2>5
<1>3. U \subseteq Nat
  OBVIOUS
<1>4. U = Nat
  <2> HIDE DEF U
  <2> QED  BY <1>1, <1>2, <1>3, Induction
<1>5. \A k \in U : k \in T
  OBVIOUS
<1> QED
  <2> HIDE DEF U
  <2> QED  BY <1>4, <1>5

\* A function whose value at a number depends on that at a smaller one, P[z].
Backward(P) == P \in [Nat \ {0} -> Nat] /\ \A z \in Nat \ {0} : P[z] < z
BackTo(n, P, b, F, f) == f[0] = b /\ \A z \in 1 .. n : f[z] = F[<< f[P[z]], z >>]

LEMMA BackExistsTo ==
    ASSUME NEW St, NEW b \in St, NEW F \in [St \X (Nat \ {0}) -> St], NEW P, Backward(P),
           NEW n \in Nat
    PROVE  \E f \in [0 .. n -> St] : BackTo(n, P, b, F, f)
<1> DEFINE T == {m \in Nat : \E f \in [0 .. m -> St] : BackTo(m, P, b, F, f)}
<1>1. 0 \in T
  <2> DEFINE f == [k \in 0 .. 0 |-> b]
  <2>1. f \in [0 .. 0 -> St] /\ f[0] = b /\ 1 .. 0 = {}
    OBVIOUS
  <2>2. BackTo(0, P, b, F, f)
    BY <2>1 DEF BackTo
  <2> QED  BY <2>1, <2>2
<1>2. ASSUME NEW m \in Nat, m \in T PROVE m + 1 \in T
  <2>1. PICK f \in [0 .. m -> St] : BackTo(m, P, b, F, f)
    BY <1>2
  <2>2. P[m + 1] \in 0 .. m /\ m + 1 \in Nat \ {0}
    BY DEF Backward
  <2> DEFINE v == F[<< f[P[m + 1]], m + 1 >>]
             g == [k \in 0 .. m + 1 |-> IF k = m + 1 THEN v ELSE f[k]]
  <2>3. v \in St
    BY <2>2
  <2>4. g \in [0 .. m + 1 -> St]
    <3>1. \A k \in 0 .. m + 1 : k # m + 1 => k \in 0 .. m
      OBVIOUS
    <3> HIDE DEF v
    <3> QED  BY <2>3, <3>1
  <2>5. g[0] = b
    <3>1. 0 \in 0 .. m + 1 /\ 0 # m + 1 /\ f[0] = b
      BY <2>1 DEF BackTo
    <3> QED  BY <3>1
  <2>6. ASSUME NEW z \in 1 .. m + 1 PROVE g[z] = F[<< g[P[z]], z >>]
    <3>1. z \in Nat \ {0} /\ P[z] \in Nat /\ P[z] < z
      BY DEF Backward
    <3>2. P[z] \in 0 .. m + 1 /\ P[z] # m + 1 /\ z \in 0 .. m + 1
      BY <3>1
    <3>3. g[P[z]] = f[P[z]]
      BY <3>2
    <3>4. CASE z = m + 1
      BY <3>2, <3>3, <3>4
    <3>5. CASE z # m + 1
      <4>1. z \in 1 .. m
        BY <3>5
      <4>2. f[z] = F[<< f[P[z]], z >>]
        BY <2>1, <4>1 DEF BackTo
      <4>3. g[z] = f[z]
        BY <3>2, <3>5
      <4> QED  BY <3>3, <4>2, <4>3
    <3> QED  BY <3>4, <3>5
  <2>7. BackTo(m + 1, P, b, F, g)
    <3> HIDE DEF g
    <3> QED  BY <2>5, <2>6 DEF BackTo
  <2> HIDE DEF g
  <2> QED  BY <2>4, <2>7
<1>3. T \subseteq Nat
  OBVIOUS
<1>4. T = Nat
  <2> HIDE DEF T
  <2> QED  BY <1>1, <1>2, <1>3, Induction
<1> QED  BY <1>4

LEMMA BackSame ==
    ASSUME NEW P, Backward(P), NEW b, NEW F, NEW n \in Nat, NEW m \in Nat, NEW f, NEW g,
           BackTo(n, P, b, F, f), BackTo(m, P, b, F, g), NEW z \in Nat, z <= n, z <= m
    PROVE  f[z] = g[z]
<1> DEFINE T == {k \in Nat : k <= n /\ k <= m => f[k] = g[k]}
<1>1. ASSUME NEW k \in Nat, \A j \in Nat : j < k => j \in T PROVE k \in T
  <2> SUFFICES ASSUME k <= n, k <= m PROVE f[k] = g[k]
    OBVIOUS
  <2>1. CASE k = 0
    BY <2>1 DEF BackTo
  <2>2. CASE k # 0
    <3>1. k \in 1 .. n /\ k \in 1 .. m /\ k \in Nat \ {0}
      BY <2>2
    <3>2. P[k] \in Nat /\ P[k] < k
      BY <3>1 DEF Backward
    <3>3. P[k] <= n /\ P[k] <= m
      BY <3>2
    <3>4. f[P[k]] = g[P[k]]
      BY <1>1, <3>2, <3>3
    <3>5. f[k] = F[<< f[P[k]], k >>] /\ g[k] = F[<< g[P[k]], k >>]
      BY <3>1 DEF BackTo
    <3> QED  BY <3>4, <3>5
  <2> QED  BY <2>1, <2>2
<1>2. \A k \in Nat : k \in T
  <2> HIDE DEF T
  <2> QED  BY <1>1, StrongInduction
<1> QED  BY <1>2

LEMMA BackExists ==
    ASSUME NEW St, NEW b \in St, NEW F \in [St \X (Nat \ {0}) -> St], NEW P, Backward(P)
    PROVE  \E f \in [Nat -> St] :
               f[0] = b /\ \A z \in Nat \ {0} : f[z] = F[<< f[P[z]], z >>]
<1> DEFINE c(n) == CHOOSE f : f \in [0 .. n -> St] /\ BackTo(n, P, b, F, f)
           g == [z \in Nat |-> c(z)[z]]
<1>1. ASSUME NEW n \in Nat PROVE c(n) \in [0 .. n -> St] /\ BackTo(n, P, b, F, c(n))
  <2>1. \E f : f \in [0 .. n -> St] /\ BackTo(n, P, b, F, f)
    BY BackExistsTo
  <2> QED  BY <2>1
<1> HIDE DEF c
<1>2. g \in [Nat -> St]
  <2>1. ASSUME NEW z \in Nat PROVE c(z)[z] \in St
    <3>1. z \in 0 .. z
      OBVIOUS
    <3> QED  BY <1>1, <3>1
  <2> QED  BY <2>1
<1>3. g[0] = b
  BY <1>1 DEF BackTo
<1>4. ASSUME NEW z \in Nat \ {0} PROVE g[z] = F[<< g[P[z]], z >>]
  <2>1. P[z] \in Nat /\ P[z] <= P[z] /\ P[z] <= z /\ z \in 1 .. z /\ z \in Nat
    BY DEF Backward
  <2>2. BackTo(z, P, b, F, c(z)) /\ BackTo(P[z], P, b, F, c(P[z]))
    BY <1>1, <2>1
  <2>3. c(z)[P[z]] = c(P[z])[P[z]]
    <3>1. PICK u \in Nat : u = P[z]
      BY <2>1
    <3>2. u <= z /\ u <= u /\ z \in Nat
      BY <2>1, <3>1
    <3>3. BackTo(z, P, b, F, c(z)) /\ BackTo(u, P, b, F, c(u))
      BY <2>2, <3>1
    <3>4. c(z)[u] = c(u)[u]
      BY <3>2, <3>3, BackSame
    <3> QED  BY <3>1, <3>4
  <2>4. c(z)[z] = F[<< c(z)[P[z]], z >>]
    BY <2>1, <2>2 DEF BackTo
  <2> QED  BY <2>1, <2>3, <2>4
<1> HIDE DEF g
<1> QED  BY <1>2, <1>3, <1>4

-----------------------------------------------------------------------------
(* Least numbers and ranks.                                                *)

LEMMA MinIsLeast ==
    ASSUME NEW S \in SUBSET Nat, S # {}
    PROVE  Min(S) \in S /\ \A y \in S : Min(S) <= y
<1> DEFINE T == {k \in Nat : \A y \in S : y >= k}
<1>1. \E x \in S : \A y \in S : x <= y
  <2> SUFFICES ASSUME \A x \in S : \E y \in S : ~(x <= y) PROVE FALSE
    OBVIOUS
  <2>1. 0 \in T
    OBVIOUS
  <2>2. ASSUME NEW k \in Nat, k \in T PROVE k + 1 \in T
    <3>1. k \notin S
      BY <2>2
    <3>2. \A y \in S : y \in Nat /\ y >= k /\ y # k
      BY <2>2, <3>1
    <3> QED  BY <3>2
  <2>3. T = Nat
    <3>1. T \subseteq Nat
      OBVIOUS
    <3> HIDE DEF T
    <3> QED  BY <2>1, <2>2, <3>1, Induction
  <2>4. PICK x \in S : TRUE
    OBVIOUS
  <2>5. x + 1 \in T
    BY <2>3
  <2> QED  BY <2>4, <2>5
<1> QED  BY <1>1 DEF Min

LEMMA MaxIsGreatest ==
    ASSUME NEW b \in Nat, NEW S \in SUBSET (0..b), S # {}
    PROVE  Max(S) \in S /\ \A y \in S : Max(S) >= y
<1> DEFINE D == {k \in Nat : b - k \in S}
<1>1. D \in SUBSET Nat /\ D # {}
  <2>1. PICK x \in S : TRUE
    OBVIOUS
  <2>2. x \in Nat /\ x <= b
    BY <2>1
  <2>3. b - x \in Nat /\ b - (b - x) = x
    BY <2>2
  <2> QED  BY <2>1, <2>3
<1>2. Min(D) \in D /\ \A k \in D : Min(D) <= k
  <2> HIDE DEF D
  <2> QED  BY <1>1, MinIsLeast
<1>3. \E x \in S : \A y \in S : x >= y
  <2>1. Min(D) \in Nat /\ b - Min(D) \in S
    BY <1>2
  <2>2. ASSUME NEW y \in S PROVE b - Min(D) >= y
    <3>1. y \in Nat /\ y <= b
      OBVIOUS
    <3>2. b - y \in Nat /\ b - (b - y) = y
      BY <3>1
    <3>3. Min(D) <= b - y
      BY <1>2, <3>2
    <3> QED  BY <2>1, <3>1, <3>3
  <2> QED  BY <2>1, <2>2
<1> QED  BY <1>3 DEF Max

\* In a finite set with a strict order R every rank is taken.
StrictlyOrders(R, S) ==
    /\ \A x \in S : << x, x >> \notin R
    /\ \A x, y \in S : x # y => << x, y >> \in R \/ << y, x >> \in R
    /\ \A x, y, z \in S : << x, y >> \in R /\ << y, z >> \in R => << x, z >> \in R
Rank(R, S, x) == Cardinality({y \in S : << y, x >> \in R})

LEMMA RankTaken ==
    ASSUME NEW S, IsFiniteSet(S), NEW R, StrictlyOrders(R, S),
           NEW k \in 0..Cardinality(S) - 1
    PROVE  \E x \in S : k = Rank(R, S, x)
<1> DEFINE below(x) == {y \in S : << y, x >> \in R}
           rank == [x \in S |-> Cardinality(below(x))]
           ranks == 0..Cardinality(S) - 1
<1>1. Cardinality(S) \in Nat
  BY FS_CardinalityType
<1>2. ASSUME NEW x \in S PROVE IsFiniteSet(below(x)) /\ rank[x] \in ranks
  <2>1. below(x) \in SUBSET S /\ below(x) # S
    BY DEF StrictlyOrders
  <2> HIDE DEF below
  <2>2. /\ IsFiniteSet(below(x)) /\ Cardinality(below(x)) <= Cardinality(S)
        /\ Cardinality(below(x)) # Cardinality(S)
    BY <2>1, FS_Subset
  <2>3. Cardinality(below(x)) \in Nat
    BY <2>2, FS_CardinalityType
  <2> QED  BY <1>1, <2>2, <2>3
<1>3. ASSUME NEW x \in S, NEW z \in S, << x, z >> \in R PROVE rank[x] # rank[z]
  <2>1. below(x) \in SUBSET below(z) /\ below(x) # below(z)
    <3>1. x \in below(z) /\ x \notin below(x)
      BY <1>3 DEF StrictlyOrders
    <3>2. below(x) \subseteq below(z)
      BY <1>3 DEF StrictlyOrders
    <3> QED  BY <3>1, <3>2
  <2>2. IsFiniteSet(below(z))
    BY <1>2
  <2> HIDE DEF below
  <2> QED  BY <2>1, <2>2, FS_Subset
<1>4. rank \in Injection(S, ranks)
  <2>1. rank \in [S -> ranks]
    BY <1>2
  <2>2. ASSUME NEW x \in S, NEW z \in S, rank[x] = rank[z] PROVE x = z
    BY <1>3, <2>2 DEF StrictlyOrders
  <2> QED  BY <2>1, <2>2 DEF Injection, IsInjective
<1>5. IsFiniteSet(ranks) /\ Cardinality(ranks) = Cardinality(S)
  <2>1. 0 \in Int /\ Cardinality(S) - 1 \in Int
    BY <1>1
  <2>2. IsFiniteSet(ranks) /\ Cardinality(ranks)
                             = IF 0 > Cardinality(S) - 1 THEN 0 ELSE (Cardinality(S) - 1) - 0 + 1
    BY <2>1, FS_Interval
  <2> QED  BY <1>1, <2>2
<1>6. rank \in Surjection(S, ranks)
  <2> HIDE DEF rank, ranks
  <2> QED  BY <1>4, <1>5, FS_Injection
<1>7. PICK x \in S : rank[x] = k
  BY <1>6 DEF Surjection
<1> QED  BY <1>7 DEF Rank
\* Of two things the one that comes first has the lower rank.
LEMMA RankGrows ==
    ASSUME NEW S, IsFiniteSet(S), NEW R, StrictlyOrders(R, S),
           NEW x \in S, NEW z \in S, << x, z >> \in R
    PROVE  Rank(R, S, x) \in Nat /\ Rank(R, S, x) < Rank(R, S, z)
<1> DEFINE below(y) == {w \in S : << w, y >> \in R}
<1>1. below(x) \in SUBSET below(z) /\ below(x) # below(z)
  <2>1. x \in below(z) /\ x \notin below(x)
    BY DEF StrictlyOrders
  <2>2. below(x) \subseteq below(z)
    BY DEF StrictlyOrders
  <2> QED  BY <2>1, <2>2
<1>2. IsFiniteSet(below(z))
  <2>1. below(z) \in SUBSET S
    OBVIOUS
  <2> HIDE DEF below
  <2> QED  BY <2>1, FS_Subset
<1>3. Rank(R, S, x) = Cardinality(below(x)) /\ Rank(R, S, z) = Cardinality(below(z))
  BY DEF Rank
<1> HIDE DEF below
<1>4. /\ IsFiniteSet(below(x)) /\ Cardinality(below(x)) <= Cardinality(below(z))
      /\ Cardinality(below(x)) # Cardinality(below(z))
  BY <1>1, <1>2, FS_Subset
<1>5. Cardinality(below(x)) \in Nat /\ Cardinality(below(z)) \in Nat
  BY <1>2, <1>4, FS_CardinalityType
<1> QED  BY <1>3, <1>4, <1>5

\* No two things have the same rank.
LEMMA RankDecides ==
    ASSUME NEW S, IsFiniteSet(S), NEW R, StrictlyOrders(R, S),
           NEW x \in S, NEW z \in S, Rank(R, S, x) = Rank(R, S, z)
    PROVE  x = z
<1>1. ASSUME x # z PROVE FALSE
  <2>1. << x, z >> \in R \/ << z, x >> \in R
    BY <1>1 DEF StrictlyOrders
  <2>2. Rank(R, S, x) \in Nat /\ ~(Rank(R, S, x) < Rank(R, S, x))
    BY <2>1, RankGrows
  <2> QED  BY <2>1, <2>2, RankGrows
<1> QED  BY <1>1

-----------------------------------------------------------------------------
(* Sequences from functions, and with one item more.                       *)

\* A function on 1 .. n is a sequence.
LEMMA SeqFrom ==
    ASSUME NEW S, NEW n \in Nat, NEW f \in [1 .. n -> S]
    PROVE  f \in Seq(S) /\ Len(f) = n
OBVIOUS

\* One item more, at the end.
LEMMA OneBehind ==
    ASSUME NEW S, NEW a \in Seq(S), NEW x \in S
    PROVE  /\ a \o << x >> \in Seq(S) /\ Len(a \o << x >>) = Len(a) + 1
           /\ (a \o << x >>)[Len(a) + 1] = x
           /\ \A k \in 1 .. Len(a) : (a \o << x >>)[k] = a[k]
OBVIOUS

LEMMA Appended ==
    ASSUME NEW S, NEW a \in Seq(S), NEW x \in S
    PROVE  /\ Append(a, x) \in Seq(S) /\ Len(Append(a, x)) = Len(a) + 1
           /\ Append(a, x)[Len(a) + 1] = x
           /\ \A k \in 1 .. Len(a) : Append(a, x)[k] = a[k]
OBVIOUS

-----------------------------------------------------------------------------
(* Sums.                                                                   *)

\* g[1] + ... + g[n].
Total(n, g) ==
    LET sum[k \in 0 .. n] == IF k = 0 THEN 0 ELSE sum[k - 1] + g[k]
    IN  sum[n]

Integral(n, g) == \A i \in 1 .. n : g[i] \in Int
SumsUp(n, g, f) == f[0] = 0 /\ \A k \in 1 .. n : f[k] = f[k - 1] + g[k]

LEMMA SumExists ==
    ASSUME NEW n \in Nat, NEW g, Integral(n, g)
    PROVE  \E f \in [0 .. n -> Int] : SumsUp(n, g, f) /\ Total(n, g) = f[n]
<1> DEFINE F == [x \in Int \X (1 .. n) |-> x[1] + g[x[2]]]
           Is(f) == f = [k \in 0 .. n |-> IF k = 0 THEN 0 ELSE f[k - 1] + g[k]]
<1>1. F \in [Int \X (1 .. n) -> Int]
  BY DEF Integral
<1>2. StepsTaken(n, Int, 0, F)
  <2>1. 0 \in Int
    OBVIOUS
  <2> HIDE DEF F
  <2> QED  BY <1>1, <2>1, RecursionExists
<1>3. PICK f \in [0 .. n -> Int] : f[0] = 0 /\ \A k \in 1 .. n : f[k] = F[<< f[k - 1], k >>]
  <2> HIDE DEF F
  <2> QED  BY <1>2 DEF StepsTaken
<1>4. ASSUME NEW k \in 1 .. n PROVE f[k] = f[k - 1] + g[k]
  <2>1. k - 1 \in 0 .. n
    OBVIOUS
  <2>2. << f[k - 1], k >> \in Int \X (1 .. n)
    BY <2>1
  <2> QED  BY <1>3, <2>2
<1>5. SumsUp(n, g, f)
  BY <1>3, <1>4 DEF SumsUp
<1>6. Is(f)
  <2>1. f = [k \in 0 .. n |-> f[k]]
    OBVIOUS
  <2>2. \A k \in 0 .. n : k = 0 \/ k \in 1 .. n
    OBVIOUS
  <2>3. \A k \in 0 .. n : f[k] = IF k = 0 THEN 0 ELSE f[k - 1] + g[k]
    BY <1>3, <1>4, <2>2
  <2> QED  BY <2>1, <2>3
<1> DEFINE sum == CHOOSE h : Is(h)
<1>7. Is(sum)
  <2> HIDE DEF Is
  <2> QED  BY <1>6
<1>8. Total(n, g) = sum[n]
  BY DEF Total
<1> HIDE DEF sum
<1>9. sum[0] = 0 /\ \A k \in 1 .. n : sum[k] = sum[k - 1] + g[k]
  BY <1>7
<1>10. StepAlike(n, sum, f)
  BY <1>3, <1>4, <1>9 DEF StepAlike
<1>11. sum[n] = f[n]
  <2>1. \A k \in 0 .. n : sum[k] = f[k]
    BY <1>10, RecursionSame
  <2> QED  BY <2>1
<1> QED  BY <1>5, <1>8, <1>11

\* What is summed up step by step is the sum.
LEMMA TotalIs ==
    ASSUME NEW n \in Nat, NEW g, Integral(n, g), NEW f, SumsUp(n, g, f)
    PROVE  Total(n, g) = f[n] /\ f[n] \in Int
<1>1. PICK h \in [0 .. n -> Int] : SumsUp(n, g, h) /\ Total(n, g) = h[n]
  BY SumExists
<1>2. StepAlike(n, f, h)
  BY <1>1 DEF StepAlike, SumsUp
<1>3. f[n] = h[n]
  <2>1. \A k \in 0 .. n : f[k] = h[k]
    BY <1>2, RecursionSame
  <2> QED  BY <2>1
<1> QED  BY <1>1, <1>3

LEMMA TotalSteps ==
    ASSUME NEW n \in Nat, NEW g, Integral(n, g)
    PROVE  /\ Total(0, g) = 0
           /\ \A k \in 0 .. n : Total(k, g) \in Int
           /\ \A k \in 1 .. n : Total(k, g) = Total(k - 1, g) + g[k]
<1>1. PICK f \in [0 .. n -> Int] : SumsUp(n, g, f)
  BY SumExists
<1>2. ASSUME NEW k \in 0 .. n PROVE Total(k, g) = f[k]
  <2>1. k \in Nat /\ Integral(k, g) /\ SumsUp(k, g, f)
    BY <1>1 DEF Integral, SumsUp
  <2> QED  BY <2>1, TotalIs
<1>3. 0 \in 0 .. n /\ \A k \in 1 .. n : k \in 0 .. n /\ k - 1 \in 0 .. n
  OBVIOUS
<1>4. \A k \in 1 .. n : Total(k, g) = Total(k - 1, g) + g[k]
  BY <1>1, <1>2, <1>3 DEF SumsUp
<1> QED  BY <1>1, <1>2, <1>3, <1>4 DEF SumsUp

LEMMA TotalSame ==
    ASSUME NEW n \in Nat, NEW g, Integral(n, g), NEW h, \A i \in 1 .. n : h[i] = g[i]
    PROVE  Total(n, h) = Total(n, g)
<1>1. Integral(n, h)
  BY DEF Integral
<1>2. PICK f \in [0 .. n -> Int] : SumsUp(n, g, f) /\ Total(n, g) = f[n]
  BY SumExists
<1>3. SumsUp(n, h, f)
  BY <1>2 DEF SumsUp
<1> QED  BY <1>1, <1>2, <1>3, TotalIs

\* The sum of natural numbers is one, and no summand is greater.
LEMMA TotalNat ==
    ASSUME NEW n \in Nat, NEW g, \A i \in 1 .. n : g[i] \in Nat
    PROVE  Total(n, g) \in Nat /\ \A i \in 1 .. n : g[i] <= Total(n, g)
<1>1. Integral(n, g)
  BY DEF Integral
<1>2. PICK f \in [0 .. n -> Int] : SumsUp(n, g, f) /\ Total(n, g) = f[n]
  BY <1>1, SumExists
<1> DEFINE St == [k \in 0 .. n |-> {x \in Nat : \A i \in 1 .. k : g[i] <= x}]
<1>3. f[0] \in St[0]
  BY <1>2 DEF SumsUp
<1>4. ASSUME NEW k \in 1 .. n, f[k - 1] \in St[k - 1] PROVE f[k] \in St[k]
  <2>1. k - 1 \in 0 .. n /\ k \in 0 .. n /\ f[k] = f[k - 1] + g[k]
    BY <1>2 DEF SumsUp
  <2>2. f[k - 1] \in Nat /\ \A i \in 1 .. k - 1 : g[i] <= f[k - 1]
    BY <1>4, <2>1
  <2>3. g[k] \in Nat /\ f[k] \in Nat
    BY <2>1, <2>2
  <2>4. ASSUME NEW i \in 1 .. k PROVE g[i] <= f[k]
    <3>1. CASE i = k
      BY <2>1, <2>2, <2>3, <3>1
    <3>2. CASE i # k
      <4>1. i \in 1 .. k - 1 /\ i \in 1 .. n
        BY <3>2
      <4>2. g[i] <= f[k - 1] /\ g[i] \in Nat
        BY <2>2, <4>1
      <4> QED  BY <2>1, <2>2, <2>3, <4>2
    <3> QED  BY <3>1, <3>2
  <2> QED  BY <2>1, <2>3, <2>4
<1>5. \A k \in 0 .. n : f[k] \in St[k]
  <2> HIDE DEF St
  <2> QED  BY <1>3, <1>4, RecursionInvariant
<1>6. f[n] \in St[n] /\ n \in 0 .. n
  BY <1>5
<1> QED  BY <1>2, <1>6

LEMMA TotalSum ==
    ASSUME NEW n \in Nat, NEW a, Integral(n, a), NEW b, Integral(n, b),
           NEW c, \A i \in 1 .. n : c[i] = a[i] + b[i]
    PROVE  Total(n, c) = Total(n, a) + Total(n, b)
<1>1. PICK f \in [0 .. n -> Int] : SumsUp(n, a, f) /\ Total(n, a) = f[n]
  BY SumExists
<1>2. PICK h \in [0 .. n -> Int] : SumsUp(n, b, h) /\ Total(n, b) = h[n]
  BY SumExists
<1> DEFINE s == [k \in 0 .. n |-> f[k] + h[k]]
<1>3. SumsUp(n, c, s)
  <2>1. ASSUME NEW k \in 1 .. n PROVE s[k] = s[k - 1] + c[k]
    <3>1. k - 1 \in 0 .. n /\ k \in 0 .. n
      OBVIOUS
    <3>2. f[k] = f[k - 1] + a[k] /\ h[k] = h[k - 1] + b[k] /\ a[k] \in Int /\ b[k] \in Int
      BY <1>1, <1>2 DEF SumsUp, Integral
    <3>3. f[k - 1] \in Int /\ h[k - 1] \in Int /\ c[k] = a[k] + b[k]
      BY <3>1
    <3> QED  BY <3>1, <3>2, <3>3, SMTT(30)
  <2>2. s[0] = 0
    BY <1>1, <1>2 DEF SumsUp
  <2> QED  BY <2>1, <2>2 DEF SumsUp
<1>4. Integral(n, c)
  <2>1. ASSUME NEW i \in 1 .. n PROVE c[i] \in Int
    <3>1. a[i] \in Int /\ b[i] \in Int
      BY DEF Integral
    <3> QED  BY <3>1
  <2> QED  BY <2>1 DEF Integral
<1>5. Total(n, c) = s[n]
  <2> HIDE DEF s
  <2> QED  BY <1>3, <1>4, TotalIs
<1> QED  BY <1>1, <1>2, <1>5

LEMMA TotalTimes ==
    ASSUME NEW n \in Nat, NEW a, Integral(n, a), NEW m \in Int,
           NEW c, \A i \in 1 .. n : c[i] = m * a[i]
    PROVE  Total(n, c) = m * Total(n, a)
<1>1. PICK f \in [0 .. n -> Int] : SumsUp(n, a, f) /\ Total(n, a) = f[n]
  BY SumExists
<1> DEFINE s == [k \in 0 .. n |-> m * f[k]]
<1>2. SumsUp(n, c, s)
  <2>1. ASSUME NEW k \in 1 .. n PROVE s[k] = s[k - 1] + c[k]
    <3>1. k - 1 \in 0 .. n /\ k \in 0 .. n
      OBVIOUS
    <3>2. f[k] = f[k - 1] + a[k] /\ a[k] \in Int /\ f[k - 1] \in Int
      BY <1>1, <3>1 DEF SumsUp, Integral
    <3>3. m * (f[k - 1] + a[k]) = m * f[k - 1] + m * a[k]
      BY <3>2
    <3> QED  BY <3>1, <3>2, <3>3
  <2>2. s[0] = 0
    BY <1>1 DEF SumsUp
  <2> QED  BY <2>1, <2>2 DEF SumsUp
<1>3. Integral(n, c)
  <2>1. ASSUME NEW i \in 1 .. n PROVE c[i] \in Int
    <3>1. a[i] \in Int
      BY DEF Integral
    <3> QED  BY <3>1
  <2> QED  BY <2>1 DEF Integral
<1>4. Total(n, c) = s[n]
  <2> HIDE DEF s
  <2> QED  BY <1>2, <1>3, TotalIs
<1> QED  BY <1>1, <1>4

\* Summands that are all 0 but one.
LEMMA TotalSingle ==
    ASSUME NEW n \in Nat, NEW at \in 1 .. n, NEW x \in Int,
           NEW c, \A i \in 1 .. n : c[i] = IF i = at THEN x ELSE 0
    PROVE  Total(n, c) = x
<1> DEFINE s == [k \in 0 .. n |-> IF k < at THEN 0 ELSE x]
<1>1. SumsUp(n, c, s)
  BY DEF SumsUp
<1>2. Integral(n, c)
  BY DEF Integral
<1>3. Total(n, c) = s[n]
  <2> HIDE DEF s
  <2> QED  BY <1>1, <1>2, TotalIs
<1> QED  BY <1>3

LEMMA TotalZero ==
    ASSUME NEW n \in Nat, NEW c, \A i \in 1 .. n : c[i] = 0
    PROVE  Total(n, c) = 0
<1> DEFINE s == [k \in 0 .. n |-> 0]
<1>1. SumsUp(n, c, s) /\ Integral(n, c)
  BY DEF SumsUp, Integral
<1>2. Total(n, c) = s[n]
  <2> HIDE DEF s
  <2> QED  BY <1>1, TotalIs
<1> QED  BY <1>2

\* Nothing comes behind the first n.
LEMMA TotalPadded ==
    ASSUME NEW n \in Nat, NEW m \in Nat, n <= m, NEW c, Integral(m, c),
           \A i \in n + 1 .. m : c[i] = 0
    PROVE  Total(m, c) = Total(n, c)
<1> DEFINE St == [k \in 0 .. m |-> {x \in Int : k >= n => Total(k, c) = Total(n, c)}]
           T == {k \in Nat : k >= n /\ k <= m => Total(k, c) = Total(n, c)}
<1>1. \A k \in 1 .. m : Total(k, c) = Total(k - 1, c) + c[k] /\ Total(k - 1, c) \in Int
  <2>1. \A k \in 1 .. m : k - 1 \in 0 .. m
    OBVIOUS
  <2> QED  BY <2>1, TotalSteps
<1>2. 0 \in T
  OBVIOUS
<1>3. ASSUME NEW k \in T PROVE k + 1 \in T
  <2> SUFFICES ASSUME k + 1 >= n, k + 1 <= m PROVE Total(k + 1, c) = Total(n, c)
    OBVIOUS
  <2>1. CASE k + 1 = n
    BY <2>1
  <2>2. CASE k + 1 # n
    <3>1. k \in Nat /\ k >= n /\ k <= m /\ k + 1 \in n + 1 .. m /\ k + 1 \in 1 .. m /\ (k + 1) - 1 = k
      BY <2>2
    <3>2. Total(k, c) = Total(n, c)
      BY <3>1
    <3>3. Total(k + 1, c) = Total(k, c) + c[k + 1] /\ Total(k, c) \in Int /\ c[k + 1] = 0
      BY <1>1, <3>1
    <3> QED  BY <3>2, <3>3
  <2> QED  BY <2>1, <2>2
<1>4. T = Nat
  <2>1. T \subseteq Nat
    OBVIOUS
  <2> HIDE DEF T
  <2> QED  BY <1>2, <1>3, <2>1, Induction
<1>5. m \in T
  BY <1>4
<1> QED  BY <1>5

\* The same summand for each member of a set.
LEMMA TotalCount ==
    ASSUME NEW n \in Nat, NEW S \in SUBSET (0 .. n - 1), NEW x \in Int,
           NEW c, \A i \in 1 .. n : c[i] = IF i - 1 \in S THEN x ELSE 0
    PROVE  Total(n, c) = x * Cardinality(S)
<1> DEFINE upTo(k) == S \cap (0 .. k - 1)
           s == [k \in 0 .. n |-> x * Cardinality(upTo(k))]
<1>1. ASSUME NEW k \in 0 .. n PROVE IsFiniteSet(upTo(k)) /\ Cardinality(upTo(k)) \in Nat
  <2>1. IsFiniteSet(0 .. k - 1)
    BY FS_Interval
  <2>2. IsFiniteSet(upTo(k))
    BY <2>1, FS_Subset
  <2> QED  BY <2>2, FS_CardinalityType
<1>2. upTo(0) = {} /\ upTo(n) = S
  <2>1. 0 .. 0 - 1 = {}
    OBVIOUS
  <2>2. S \cap (0 .. 0 - 1) = {}
    BY ONLY <2>1
  <2>3. S \cap (0 .. n - 1) = S
    <3> DEFINE all == 0 .. n - 1
    <3>1. S \in SUBSET all
      OBVIOUS
    <3> HIDE DEF all
    <3>2. S \cap all = S
      BY ONLY <3>1
    <3> QED  BY <3>2 DEF all
  <2> QED  BY <2>2, <2>3
<1>3. ASSUME NEW k \in 1 .. n
      PROVE  Cardinality(upTo(k)) = Cardinality(upTo(k - 1)) + (IF k - 1 \in S THEN 1 ELSE 0)
  <2>1. k - 1 \in 0 .. n
    OBVIOUS
  <2>2. CASE k - 1 \in S
    <3>1. upTo(k) = upTo(k - 1) \cup {k - 1} /\ k - 1 \notin upTo(k - 1)
      BY <2>2
    <3>2. IsFiniteSet(upTo(k - 1))
      BY <1>1, <2>1
    <3> HIDE DEF upTo
    <3> QED  BY <2>2, <3>1, <3>2, FS_AddElement
  <2>3. CASE k - 1 \notin S
    <3>1. upTo(k) = upTo(k - 1)
      BY <2>3
    <3>2. Cardinality(upTo(k - 1)) \in Nat
      BY <1>1, <2>1
    <3> HIDE DEF upTo
    <3> QED  BY <2>3, <3>1, <3>2
  <2> QED  BY <2>2, <2>3
<1> HIDE DEF upTo
<1>4. SumsUp(n, c, s)
  <2>1. s[0] = 0
    <3>1. Cardinality(upTo(0)) = 0 /\ 0 \in 0 .. n
      BY <1>2, FS_EmptySet
    <3> QED  BY <3>1
  <2>2. ASSUME NEW k \in 1 .. n PROVE s[k] = s[k - 1] + c[k]
    <3>1. k - 1 \in 0 .. n /\ k \in 0 .. n
      OBVIOUS
    <3> DEFINE a == Cardinality(upTo(k - 1))
               b == Cardinality(upTo(k))
    <3>2. a \in Nat /\ s[k - 1] = x * a /\ s[k] = x * b
      BY <1>1, <3>1
    <3>3. b = a + (IF k - 1 \in S THEN 1 ELSE 0)
      BY <1>3
    <3>4. ASSUME NEW y \in Nat PROVE x * (y + 1) = x * y + x /\ x * (y + 0) = x * y + 0
      OBVIOUS
    <3> HIDE DEF a, b, s
    <3>5. x * (a + 1) = x * a + x /\ x * (a + 0) = x * a + 0
      BY <3>2, <3>4
    <3> QED  BY <3>2, <3>3, <3>5
  <2> QED  BY <2>1, <2>2 DEF SumsUp
<1>5. Integral(n, c)
  BY DEF Integral
<1>6. Total(n, c) = s[n]
  <2> HIDE DEF s
  <2> QED  BY <1>4, <1>5, TotalIs
<1>7. s[n] = x * Cardinality(upTo(n))
  OBVIOUS
<1> QED  BY <1>2, <1>6, <1>7

\* The least of numbers that are not below b.
LEMMA MinFrom ==
    ASSUME NEW b \in Int, NEW S \in SUBSET Int, S # {}, \A x \in S : x >= b
    PROVE  Min(S) \in S /\ \A y \in S : Min(S) <= y
<1> DEFINE T == {k \in Nat : b + k \in S}
<1>1. T \in SUBSET Nat /\ T # {}
  <2>1. PICK x \in S : x >= b
    OBVIOUS
  <2>2. x - b \in Nat /\ b + (x - b) = x
    BY <2>1
  <2>3. x - b \in T
    BY <2>2
  <2> QED  BY <2>3
<1>2. Min(T) \in T /\ \A k \in T : Min(T) <= k
  <2> HIDE DEF T
  <2> QED  BY <1>1, MinIsLeast
<1>3. PICK m \in S : \A y \in S : m <= y
  <2> DEFINE k == Min(T)
  <2>1. b + k \in S /\ k \in Nat
    BY <1>2
  <2> HIDE DEF k
  <2>2. ASSUME NEW y \in S PROVE b + k <= y
    <3>1. y - b \in Nat /\ b + (y - b) = y
      OBVIOUS
    <3>2. y - b \in T
      BY <3>1
    <3>3. k <= y - b
      BY <1>2, <3>2 DEF k
    <3> QED  BY <2>1, <3>3
  <2> QED  BY <2>1, <2>2
<1> QED  BY <1>3 DEF Min

-----------------------------------------------------------------------------
(* Where a sequence stands within another.                                 *)

\* From place p on, a goes like bits.
Standing(a, p, bits) ==
    /\ p \in Nat \ {0} /\ p + Len(bits) <= Len(a) + 1
    /\ \A i \in 1 .. Len(bits) : a[p + i - 1] = bits[i]

\* A sequence stands in itself.
LEMMA StandingWhole ==
    ASSUME NEW S, NEW a \in Seq(S)
    PROVE  Standing(a, 1, a)
<1>1. Len(a) \in Nat
  OBVIOUS
<1>2. \A i \in 1 .. Len(a) : 1 + i - 1 = i
  BY <1>1
<1> QED  BY <1>1, <1>2 DEF Standing

\* Of two joined sequences each stands where it should.
LEMMA StandingParts ==
    ASSUME NEW S, NEW a \in Seq(S), NEW b \in Seq(S), NEW c \in Seq(S), NEW p,
           Standing(a, p, b \o c)
    PROVE  Standing(a, p, b) /\ Standing(a, p + Len(b), c)
<1> DEFINE n == Len(b)
           m == Len(c)
           w == Len(a)
           d == b \o c
<1>1. /\ n \in Nat /\ m \in Nat /\ w \in Nat /\ Len(d) = n + m
      /\ \A k \in 1 .. n : d[k] = b[k] /\ k \in 1 .. Len(d)
      /\ \A k \in 1 .. m : d[n + k] = c[k] /\ n + k \in 1 .. Len(d)
  BY JoinedItems
<1>2. p \in Nat \ {0} /\ p + Len(d) <= w + 1 /\ \A i \in 1 .. Len(d) : a[p + i - 1] = d[i]
  BY DEF Standing
<1> HIDE DEF n, m, w, d
<1>3. p + n <= w + 1 /\ p + n \in Nat \ {0} /\ (p + n) + m <= w + 1
  BY <1>1, <1>2
<1>4. \A i \in 1 .. n : a[p + i - 1] = b[i]
  BY <1>1, <1>2
<1>5. \A i \in 1 .. m : a[(p + n) + i - 1] = c[i]
  <2> SUFFICES ASSUME NEW i \in 1 .. m PROVE a[(p + n) + i - 1] = c[i]
    OBVIOUS
  <2>1. n + i \in 1 .. Len(d) /\ d[n + i] = c[i]
    BY <1>1
  <2>2. a[p + (n + i) - 1] = d[n + i]
    BY <1>2, <2>1
  <2>3. p + (n + i) - 1 = (p + n) + i - 1
    BY <1>1, <1>2
  <2> QED  BY <2>1, <2>2, <2>3
<1> QED  BY <1>2, <1>3, <1>4, <1>5 DEF Standing, n, m, w

\* How far the k-th of joined sequences is from the beginning.
Offset(seqs, k) == Len(FlattenSeq([i \in 1 .. k |-> seqs[i]]))

\* The first k of some sequences are the first k - 1 and the k-th.
LEMMA FirstOnes ==
    ASSUME NEW S, NEW seqs \in Seq(Seq(S)), NEW k \in 1 .. Len(seqs)
    PROVE  /\ [i \in 1 .. k |-> seqs[i]] \in Seq(Seq(S)) /\ [i \in 1 .. k - 1 |-> seqs[i]] \in Seq(Seq(S))
           /\ seqs[k] \in Seq(S)
           /\ [i \in 1 .. k |-> seqs[i]] = Append([i \in 1 .. k - 1 |-> seqs[i]], seqs[k])
<1> DEFINE T == Seq(S)
           f == [i \in 1 .. k |-> seqs[i]]
           g == [i \in 1 .. k - 1 |-> seqs[i]]
<1>1. Len(seqs) \in Nat /\ k \in Nat /\ k - 1 \in Nat /\ \A i \in 1 .. Len(seqs) : seqs[i] \in T
  <2> HIDE DEF T
  <2>1. seqs \in Seq(T)
    BY DEF T
  <2> QED  BY <2>1, ElementOfSeq
<1> HIDE DEF T
<1>2. f \in [1 .. k -> T] /\ g \in [1 .. k - 1 -> T]
  BY <1>1
<1>3. f \in Seq(T) /\ Len(f) = k /\ g \in Seq(T) /\ Len(g) = k - 1
  <2> HIDE DEF f, g
  <2> QED  BY <1>1, <1>2, SeqFrom
<1> DEFINE h == Append(g, seqs[k])
<1>4. h \in Seq(T) /\ Len(h) = k /\ h[k] = seqs[k] /\ \A i \in 1 .. k - 1 : h[i] = g[i]
  <2> HIDE DEF f, g
  <2>1. Append(g, seqs[k]) \in Seq(T) /\ Len(Append(g, seqs[k])) = Len(g) + 1
        /\ Append(g, seqs[k])[Len(g) + 1] = seqs[k]
        /\ \A i \in 1 .. Len(g) : Append(g, seqs[k])[i] = g[i]
    BY <1>1, <1>3, Appended
  <2> QED  BY <1>1, <1>3, <2>1
<1>5. \A i \in 1 .. k : f[i] = h[i]
  <2> SUFFICES ASSUME NEW i \in 1 .. k PROVE f[i] = h[i]
    OBVIOUS
  <2> HIDE DEF h
  <2>1. CASE i = k
    BY <1>4, <2>1
  <2>2. CASE i # k
    BY <1>1, <1>4, <2>2
  <2> QED  BY <2>1, <2>2
<1>6. f = h
  <2> HIDE DEF f, h
  <2> QED  BY <1>3, <1>4, <1>5, SeqEqual
<1> QED  BY <1>1, <1>3, <1>6 DEF T

\* Offsets add up to the length of the whole.
LEMMA OffsetSteps ==
    ASSUME NEW S, NEW seqs \in Seq(Seq(S))
    PROVE  /\ Offset(seqs, 0) = 0
           /\ \A k \in 0 .. Len(seqs) : Offset(seqs, k) \in Nat
           /\ \A k \in 1 .. Len(seqs) : Offset(seqs, k) = Offset(seqs, k - 1) + Len(seqs[k])
           /\ Offset(seqs, Len(seqs)) = Len(FlattenSeq(seqs))
<1>1. Offset(seqs, 0) = 0
  <2>1. [i \in 1 .. 0 |-> seqs[i]] = << >>
    OBVIOUS
  <2> QED  BY <2>1, FlattenEmpty DEF Offset
<1>2. ASSUME NEW k \in 1 .. Len(seqs)
      PROVE  Offset(seqs, k) = Offset(seqs, k - 1) + Len(seqs[k]) /\ Offset(seqs, k) \in Nat
  <2> DEFINE f == [i \in 1 .. k |-> seqs[i]]
             g == [i \in 1 .. k - 1 |-> seqs[i]]
  <2>1. g \in Seq(Seq(S)) /\ f = Append(g, seqs[k]) /\ seqs[k] \in Seq(S)
    BY FirstOnes
  <2> HIDE DEF f, g
  <2>2. FlattenSeq(f) = FlattenSeq(g) \o seqs[k] /\ FlattenSeq(g) \in Seq(S)
    BY <2>1, FlattenAppend, FlattenType
  <2>3. Len(FlattenSeq(f)) = Len(FlattenSeq(g)) + Len(seqs[k]) /\ Len(FlattenSeq(f)) \in Nat
    <3> DEFINE x == FlattenSeq(g)
    <3> HIDE DEF x
    <3>1. x \in Seq(S) /\ seqs[k] \in Seq(S)
      BY <2>1, <2>2 DEF x
    <3>2. Len(x \o seqs[k]) = Len(x) + Len(seqs[k]) /\ Len(x \o seqs[k]) \in Nat
      BY <3>1
    <3> QED  BY <2>2, <3>2 DEF x
  <2> QED  BY <2>3 DEF Offset, f, g
<1>3. \A k \in 0 .. Len(seqs) : Offset(seqs, k) \in Nat
  <2> SUFFICES ASSUME NEW k \in 0 .. Len(seqs) PROVE Offset(seqs, k) \in Nat
    OBVIOUS
  <2>1. CASE k = 0
    BY <1>1, <2>1
  <2>2. CASE k # 0
    <3>1. k \in 1 .. Len(seqs)
      BY <2>2
    <3> QED  BY <1>2, <3>1
  <2> QED  BY <2>1, <2>2
<1>4. Offset(seqs, Len(seqs)) = Len(FlattenSeq(seqs))
  <2>1. [i \in 1 .. Len(seqs) |-> seqs[i]] = seqs
    OBVIOUS
  <2> QED  BY <2>1 DEF Offset
<1> QED  BY <1>1, <1>2, <1>3, <1>4

\* Of joined sequences each stands at its offset.
LEMMA StandingEach ==
    ASSUME NEW S, NEW a \in Seq(S), NEW seqs \in Seq(Seq(S)), NEW p, Standing(a, p, FlattenSeq(seqs)),
           NEW k \in 1 .. Len(seqs)
    PROVE  Standing(a, p + Offset(seqs, k - 1), seqs[k])
<1> DEFINE T == Seq(S)
           f == [i \in 1 .. k |-> seqs[i]]
           g == [i \in 1 .. k - 1 |-> seqs[i]]
           n == Len(seqs)
           h == [i \in 1 .. n - k |-> seqs[k + i]]
<1>1. n \in Nat /\ k \in Nat /\ n - k \in Nat /\ \A i \in 1 .. n : seqs[i] \in T
  <2> HIDE DEF T
  <2>1. seqs \in Seq(T)
    BY DEF T
  <2> QED  BY <2>1, ElementOfSeq
<1>2. f \in Seq(T) /\ g \in Seq(T) /\ seqs[k] \in T /\ f = Append(g, seqs[k])
  BY FirstOnes
<1>3. Len(f) = k /\ Len(h) = n - k /\ h \in Seq(T)
  <2> HIDE DEF T
  <2>1. h \in [1 .. n - k -> T]
    BY <1>1
  <2>2. f \in [1 .. k -> T]
    BY <1>1
  <2> HIDE DEF f, h, n
  <2> QED  BY <1>1, <2>1, <2>2, SeqFrom
<1>4. seqs = f \o h
  <2>1. \A i \in 1 .. k : f[i] = seqs[i]
    OBVIOUS
  <2>2. \A i \in 1 .. n - k : h[i] = seqs[k + i]
    OBVIOUS
  <2>3. seqs \in Seq(T) /\ Len(seqs) = n
    OBVIOUS
  <2> HIDE DEF f, h, T, n
  <2>4. /\ Len(f \o h) = Len(f) + Len(h) /\ f \o h \in Seq(T)
        /\ \A i \in 1 .. Len(f) : (f \o h)[i] = f[i]
        /\ \A i \in 1 .. Len(h) : (f \o h)[Len(f) + i] = h[i]
    BY <1>2, <1>3, JoinedItems
  <2>5. Len(f \o h) = n
    BY <1>1, <1>3, <2>4
  <2>6. ASSUME NEW i \in 1 .. n PROVE seqs[i] = (f \o h)[i]
    <3>1. CASE i <= k
      <4>1. i \in 1 .. k
        BY <1>1, <3>1
      <4> QED  BY <1>3, <2>1, <2>4, <4>1
    <3>2. CASE ~(i <= k)
      <4>1. i - k \in 1 .. n - k /\ k + (i - k) = i
        BY <1>1, <3>2
      <4>2. h[i - k] = seqs[i]
        BY <2>2, <4>1
      <4>3. (f \o h)[k + (i - k)] = h[i - k]
        BY <1>3, <2>4, <4>1
      <4> QED  BY <4>1, <4>2, <4>3
    <3> QED  BY <3>1, <3>2
  <2> QED  BY <2>3, <2>4, <2>5, <2>6, SeqEqual
<1> HIDE DEF f, g, h, n
<1>5. /\ FlattenSeq(seqs) = FlattenSeq(f) \o FlattenSeq(h) /\ FlattenSeq(f) = FlattenSeq(g) \o seqs[k]
      /\ FlattenSeq(f) \in Seq(S) /\ FlattenSeq(g) \in Seq(S) /\ FlattenSeq(h) \in Seq(S)
  BY <1>2, <1>3, <1>4, FlattenConcat, FlattenAppend, FlattenType
<1>6. Standing(a, p, FlattenSeq(f))
  BY <1>5, StandingParts
<1>7. Standing(a, p + Len(FlattenSeq(g)), seqs[k])
  <2> DEFINE x == FlattenSeq(g)
             y == seqs[k]
  <2>1. x \in Seq(S) /\ y \in Seq(S) /\ Standing(a, p, x \o y)
    BY <1>2, <1>5, <1>6
  <2> HIDE DEF x, y
  <2>2. Standing(a, p + Len(x), y)
    BY <2>1, StandingParts
  <2> QED  BY <2>2 DEF x, y
<1> QED  BY <1>7 DEF Offset, g

\* A repetition more.
LEMMA OneTimesMore ==
    ASSUME NEW w \in Nat, NEW k \in Nat \ {0}
    PROVE  w * (k - 1) + w = w * k
OBVIOUS

\* Parts of the same length.
LEMMA EqualParts ==
    ASSUME NEW S, NEW seqs \in Seq(Seq(S)), NEW w \in Nat, \A i \in 1 .. Len(seqs) : Len(seqs[i]) = w
    PROVE  /\ \A k \in 0 .. Len(seqs) : Offset(seqs, k) = w * k
           /\ Len(FlattenSeq(seqs)) = w * Len(seqs)
<1> DEFINE n == Len(seqs)
           g == [k \in 0 .. n |-> w * k]
           f == [k \in 0 .. n |-> Offset(seqs, k)]
<1>1. n \in Nat
  OBVIOUS
<1>2. Offset(seqs, 0) = 0 /\ Offset(seqs, n) = Len(FlattenSeq(seqs))
      /\ \A k \in 1 .. n : Offset(seqs, k) = Offset(seqs, k - 1) + w
  BY OffsetSteps
<1>3. StepAlike(n, f, g)
  <2>1. f[0] = g[0]
    <3>1. w * 0 = 0 /\ 0 \in 0 .. n
      BY <1>1
    <3> QED  BY <1>2, <3>1
  <2>2. ASSUME NEW k \in 1 .. n, f[k - 1] = g[k - 1] PROVE f[k] = g[k]
    <3>1. k - 1 \in 0 .. n /\ k \in 0 .. n /\ k \in Nat \ {0}
      BY <1>1
    <3>2. Offset(seqs, k) = Offset(seqs, k - 1) + w
      BY <1>2
    <3>3. w * (k - 1) + w = w * k
      BY <3>1, OneTimesMore
    <3>4. Offset(seqs, k - 1) = w * (k - 1)
      BY <2>2, <3>1
    <3> QED  BY <3>1, <3>2, <3>3, <3>4
  <2> HIDE DEF f, g, n
  <2> QED  BY <2>1, <2>2 DEF StepAlike
<1>4. \A k \in 0 .. n : f[k] = g[k]
  <2> HIDE DEF f, g, n
  <2> QED  BY <1>1, <1>3, RecursionSame
<1>5. \A k \in 0 .. n : Offset(seqs, k) = w * k
  BY <1>4
<1>6. n \in 0 .. n
  BY <1>1
<1> QED  BY <1>2, <1>5, <1>6

\* An item of a joined sequence.
LEMMA PartItems ==
    ASSUME NEW S, NEW seqs \in Seq(Seq(S)), NEW k \in 1 .. Len(seqs)
    PROVE  \A i \in 1 .. Len(seqs[k]) : FlattenSeq(seqs)[Offset(seqs, k - 1) + i] = seqs[k][i]
<1> DEFINE a == FlattenSeq(seqs)
           q == Offset(seqs, k - 1)
           b == seqs[k]
<1>1. a \in Seq(S)
  BY FlattenType
<1>2. Standing(a, 1, a)
  <2> HIDE DEF a
  <2> QED  BY <1>1, StandingWhole
<1>3. Standing(a, 1 + q, b)
  <2>1. Standing(a, 1, FlattenSeq(seqs))
    BY <1>2
  <2> HIDE DEF a
  <2> QED  BY <1>1, <2>1, StandingEach
<1>4. q \in Nat /\ \A i \in 1 .. Len(b) : (1 + q) + i - 1 = q + i
  <2>1. k - 1 \in 0 .. Len(seqs)
    OBVIOUS
  <2>2. q \in Nat
    BY <2>1, OffsetSteps
  <2> HIDE DEF q
  <2> QED  BY <2>2
<1> HIDE DEF a, b, q
<1>5. \A i \in 1 .. Len(b) : a[q + i] = b[i]
  BY <1>3, <1>4 DEF Standing
<1> QED  BY <1>5 DEF a, b, q

\* How many members are below a number, and below the next.
Below(U, k) == Cardinality({q \in U : q < k})

\* Below the next number there may be one more.
LEMMA NextBelow ==
    ASSUME NEW n \in Nat, NEW U \in SUBSET (0 .. n - 1), NEW k \in 1 .. n
    PROVE  /\ Below(U, 0) = 0 /\ Below(U, n) = Cardinality(U)
           /\ Below(U, k - 1) \in Nat
           /\ k - 1 \in U => Below(U, k) = Below(U, k - 1) + 1
           /\ k - 1 \notin U => Below(U, k) = Below(U, k - 1)
<1> USE DEF Below
<1>0. \A u \in U : u \in Nat /\ u <= n - 1
  OBVIOUS
<1>1. IsFiniteSet({q \in U : q < k - 1})
  <2>1. IsFiniteSet(0 .. n - 1)
    BY FS_Interval
  <2>2. {q \in U : q < k - 1} \in SUBSET (0 .. n - 1)
    OBVIOUS
  <2> QED  BY <2>1, <2>2, FS_Subset
<1>2. {q \in U : q < 0} = {} /\ {q \in U : q < n} = U
  <2>1. \A q \in U : ~(q < 0) /\ q < n
    BY <1>0
  <2> QED  BY ONLY <2>1
<1>3. Cardinality({q \in U : q < k - 1}) \in Nat
  BY <1>1, FS_CardinalityType
<1>4. CASE k - 1 \in U
  <2>1. {q \in U : q < k} = {q \in U : q < k - 1} \cup {k - 1}
    <3>1. \A q \in U : q < k <=> q < k - 1 \/ q = k - 1
      BY <1>0
    <3> QED  BY ONLY <1>4, <3>1
  <2>2. k - 1 \notin {q \in U : q < k - 1}
    OBVIOUS
  <2>3. Cardinality({q \in U : q < k - 1} \cup {k - 1}) = Cardinality({q \in U : q < k - 1}) + 1
    BY <1>1, <2>2, FS_AddElement
  <2> QED  BY <1>2, <1>3, <1>4, <2>1, <2>3, FS_EmptySet
<1>5. CASE k - 1 \notin U
  <2>1. {q \in U : q < k} = {q \in U : q < k - 1}
    <3>1. \A q \in U : q < k <=> q < k - 1
      BY <1>0, <1>5
    <3> QED  BY ONLY <3>1
  <2> DEFINE x == Cardinality({q \in U : q < k - 1})
             e == Cardinality({q \in U : q < 0})
  <2>2. Cardinality({q \in U : q < k}) = x /\ x \in Nat
    BY <1>3, <2>1
  <2>3. e = 0
    BY <1>2, FS_EmptySet
  <2> HIDE DEF x, e
  <2>4. Cardinality({q \in U : q < k}) = x + (IF k - 1 \in U THEN 1 ELSE 0)
    BY <1>5, <2>2
  <2> QED  BY <1>2, <2>2, <2>3, <2>4 DEF x, e
<1> QED  BY <1>4, <1>5

\* Numbers written with a row and a column.
LEMMA RowAndColumn ==
    ASSUME NEW w \in Nat \ {0}, NEW c \in 0 .. w * w - 1
    PROVE  /\ c \div w \in 0 .. w - 1 /\ c % w \in 0 .. w - 1
           /\ c = (c \div w) * w + (c % w)
<1> DEFINE q == c \div w
           r == c % w
<1>1. c \in Nat /\ c < w * w
  <2> DEFINE x == w * w
  <2>1. x \in Nat
    OBVIOUS
  <2> HIDE DEF x
  <2>2. c \in 0 .. x - 1
    BY DEF x
  <2>3. c \in Nat /\ c < x
    BY <2>1, <2>2
  <2> QED  BY <2>3 DEF x
<1>2. q \in Nat /\ r \in 0 .. w - 1 /\ c = w * q + r
  BY <1>1
<1> HIDE DEF q, r
<1>3. ASSUME q >= w PROVE FALSE
  <2>1. w * q >= w * w
    BY <1>2, <1>3
  <2> DEFINE x == w * q
             y == w * w
  <2>2. x \in Nat /\ y \in Nat
    BY <1>2
  <2>3. x >= y /\ c = x + r /\ c < y
    BY <1>1, <1>2, <2>1
  <2> HIDE DEF x, y
  <2> QED  BY <1>2, <2>2, <2>3
<1>4. q \in 0 .. w - 1 /\ q * w = w * q
  BY <1>2, <1>3
<1> QED  BY <1>2, <1>4 DEF q, r
=============================================================================
