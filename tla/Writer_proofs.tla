----------------------------- MODULE Writer_proofs -----------------------------
(***************************************************************************)
(* What the run of Writer checks for three byte values and short inputs,   *)
(* proved for any bytes, run limit, block size and length of the input.    *)
(***************************************************************************)
EXTENDS Writer, SequenceFolds

-----------------------------------------------------------------------------
(* The inductive invariant. *)

Items ==
    [kind : {"header"}]
    \cup [kind : {"block"}, bytes : Seq(Byte), crc : Seq(Byte), inUse : SUBSET Byte]
    \cup [kind : {"trailer"}, combined : Seq(Seq(Byte))]

\* An item, and the destination, as the promise has them.
AsPromised(item) ==
    CASE item.kind = "header" -> <<"header">>
      [] item.kind = "block" -> <<"block", item.crc>>
      [] item.kind = "trailer" -> <<"trailer", item.combined>>
Mapped(items) == [k \in DOMAIN items |-> AsPromised(items[k])]

\* How many items are delivered so far, when all of them were, and that they are the
\* right ones.
Due == IF pc \in {"return", "closed"} THEN Len(combined) + 2
       ELSE IF headerWritten THEN Len(combined) + 1 ELSE 0
Delivered ==
    ~bwErr => /\ Len(dst) = Due
              /\ \A k \in 1..Due : AsPromised(dst[k]) = Promise!Item(combined, k)

\* Where an error can have been noticed and a header be missing.
Placed ==
    /\ err => bwErr /\ pc \in {"idle", "closed"}
    /\ pc = "closed" => err = bwErr
    /\ pc = "header" => ~headerWritten
    /\ pc \in {"block", "check", "trailer", "return", "closed"} => headerWritten
    /\ ~headerWritten => combined = << >>

\* Between calls the block has room for another pair.
Room ==
    /\ Len(block) <= BlockMax + 4
    /\ pc = "idle" /\ ~err => Len(block) < BlockMax

\* The reader's state machine after the bytes of a block.
Scan(bytes) == FoldLeft(UnRLEByte, UnRLEStart, bytes)

\* The run that is not yet in the block begins a run for the decoder too: the block
\* ends neither in the middle of a long run nor in bytes the new run would prolong.
\* There is no run before the first byte and from Close on.
RunBegins ==
    /\ Scan(block).seen <= 3
    /\ Scan(block).seen > 0 => Scan(block).k0 # inCh
    /\ inCh = NoCh => block = << >> \/ isLast
    /\ isLast => pc # "idle" \/ err

\* Only Close flushes a block without bytes and writes a trailer.
Ending ==
    /\ block = << >> => pc = "idle" \/ isLast
    /\ pc \in {"trailer", "return", "closed"} => isLast

Types == TypeOK /\ dst \in Seq(Items)

IInv ==
    /\ Types /\ AlphabetExact /\ Delivered /\ Placed /\ Room
    /\ RunBegins /\ Ending /\ BlockDecodes /\ NothingLost

-----------------------------------------------------------------------------
(* Runs and blocks. *)

\* A byte so many times.
LEMMA RepeatFacts ==
    ASSUME NEW ch \in Byte, NEW k \in Nat \ {0}
    PROVE  /\ Repeat(ch, k) \in Seq(Byte) /\ Len(Repeat(ch, k)) = k
           /\ Range(Repeat(ch, k)) = {ch}
<1>1. Repeat(ch, k) \in [1..k -> Byte]
  BY DEF Repeat
<1>2. Repeat(ch, k) \in Seq(Byte) /\ Len(Repeat(ch, k)) = k
  BY <1>1
<1>3. \A j \in 1..k : Repeat(ch, k)[j] = ch
  BY DEF Repeat
<1>4. DOMAIN Repeat(ch, k) = 1..k /\ 1 \in 1..k
  BY DEF Repeat
<1> QED  BY <1>2, <1>3, <1>4 DEF Range

\* Any number of times, none included.
LEMMA RepeatType ==
    ASSUME NEW ch \in Byte, NEW k \in Nat
    PROVE  Repeat(ch, k) \in Seq(Byte)
<1>1. Repeat(ch, k) \in [1..k -> Byte]
  BY DEF Repeat
<1> QED  BY <1>1

\* None, one, and one more.
LEMMA RepeatLonger ==
    /\ \A ch : Repeat(ch, 0) = << >>
    /\ \A ch : Repeat(ch, 1) = << ch >>
    /\ \A ch \in Byte : \A k \in Nat : Repeat(ch, k + 1) = Append(Repeat(ch, k), ch)
<1>1. ASSUME NEW ch PROVE Repeat(ch, 0) = << >>
  BY DEF Repeat
<1>2. ASSUME NEW ch PROVE Repeat(ch, 1) = << ch >>
  BY DEF Repeat
<1>3. ASSUME NEW ch \in Byte, NEW k \in Nat
      PROVE  Repeat(ch, k + 1) = Append(Repeat(ch, k), ch)
  <2>1. Repeat(ch, k) \in Seq(Byte) /\ Len(Repeat(ch, k)) = k
    <3>1. Repeat(ch, k) \in [1..k -> Byte]
      BY DEF Repeat
    <3> QED  BY <3>1
  <2>2. Repeat(ch, k + 1) \in Seq(Byte) /\ Len(Repeat(ch, k + 1)) = k + 1
    <3>1. Repeat(ch, k + 1) \in [1..k + 1 -> Byte]
      BY DEF Repeat
    <3> QED  BY <3>1
  <2>3. Append(Repeat(ch, k), ch) \in Seq(Byte) /\ Len(Append(Repeat(ch, k), ch)) = k + 1
    BY <2>1
  <2>4. ASSUME NEW i \in 1..k + 1
        PROVE  Repeat(ch, k + 1)[i] = Append(Repeat(ch, k), ch)[i]
    <3>1. Repeat(ch, k + 1)[i] = ch
      BY DEF Repeat
    <3>2. i \in 1..k => Repeat(ch, k)[i] = ch
      BY DEF Repeat
    <3>3. Append(Repeat(ch, k), ch)[i] = ch
      <4> HIDE DEF Repeat
      <4> QED  BY <2>1, <3>2
    <3> QED  BY <3>1, <3>3
  <2> QED  BY <2>2, <2>3, <2>4, SeqEqual
<1> QED  BY <1>1, <1>2, <1>3

\* A run that addPairToBlock can meet: code, data and marks (writer.go:194-229).
LEMMA RunFacts ==
    ASSUME NEW ch \in Byte, NEW len \in 1..MaxRun
    PROVE  /\ RunCode(ch, len) \in Seq(Byte) /\ Repeat(ch, len) \in Seq(Byte)
           /\ Len(RunCode(ch, len)) \in Nat /\ Len(RunCode(ch, len)) <= 5
           /\ Range(RunCode(ch, len))
              = {ch} \cup (IF len >= 4 THEN {len - 4} ELSE {})
<1>1. MaxRun \in Nat /\ ByteTop \in Nat /\ MaxRun <= ByteTop + 4
  BY RunAssumption
<1>2. len \in Nat \ {0}
  BY <1>1
<1>3. CASE ~(len >= 4)
  <2>1. RunCode(ch, len) = Repeat(ch, len) /\ len <= 5
    BY <1>2, <1>3 DEF RunCode
  <2>2. {ch} \cup (IF len >= 4 THEN {len - 4} ELSE {}) = {ch}
    BY <1>3
  <2> QED  BY <1>2, <2>1, <2>2, RepeatFacts
<1>4. CASE len >= 4
  <2>1. len - 4 \in Byte
    BY <1>1, <1>4 DEF Byte
  <2>2. RunCode(ch, len) = Append(Repeat(ch, 4), len - 4)
    BY <1>1, <1>4 DEF RunCode
  <2>3. Repeat(ch, 4) \in Seq(Byte) /\ Len(Repeat(ch, 4)) = 4 /\ Range(Repeat(ch, 4)) = {ch}
    <3>1. 4 \in Nat \ {0}
      OBVIOUS
    <3> QED  BY <3>1, RepeatFacts
  <2>4. RunCode(ch, len) \in Seq(Byte) /\ Len(RunCode(ch, len)) = 5
    BY <2>1, <2>2, <2>3
  <2>5. Range(RunCode(ch, len)) = Range(Repeat(ch, 4)) \cup {len - 4}
    BY <2>1, <2>2, <2>3 DEF Range
  <2>6. Repeat(ch, len) \in Seq(Byte)
    BY <1>2, RepeatFacts
  <2> QED  BY <1>4, <2>3, <2>4, <2>5, <2>6
<1> QED  BY <1>3, <1>4

\* The bytes of two blocks put together.
LEMMA RangeConcat ==
    ASSUME NEW s \in Seq(Byte), NEW t \in Seq(Byte)
    PROVE  Range(s \o t) = Range(s) \cup Range(t)
<1>1. s \o t \in Seq(Byte) /\ Len(s \o t) = Len(s) + Len(t)
      /\ Len(s) \in Nat /\ Len(t) \in Nat
  OBVIOUS
<1>2. \A k \in 1..Len(s) : (s \o t)[k] = s[k]
  BY <1>1
<1>3. \A k \in 1..Len(t) : (s \o t)[k + Len(s)] = t[k]
  BY <1>1
<1>4. \A k \in 1..Len(s) + Len(t) :
         k \in 1..Len(s) \/ (k - Len(s) \in 1..Len(t) /\ (k - Len(s)) + Len(s) = k)
  BY <1>1
<1>5. /\ DOMAIN s = 1..Len(s) /\ DOMAIN t = 1..Len(t)
      /\ DOMAIN (s \o t) = 1..Len(s) + Len(t)
  BY <1>1
<1>6. Range(s \o t) \subseteq Range(s) \cup Range(t)
  <2> SUFFICES ASSUME NEW k \in 1..Len(s) + Len(t)
               PROVE  (s \o t)[k] \in Range(s) \cup Range(t)
    BY <1>5 DEF Range
  <2> QED  BY <1>2, <1>3, <1>4, <1>5 DEF Range
<1>7. Range(s) \subseteq Range(s \o t)
  <2> SUFFICES ASSUME NEW k \in 1..Len(s)
               PROVE  s[k] \in Range(s \o t)
    BY <1>5 DEF Range
  <2>1. k \in 1..Len(s) + Len(t)
    BY <1>1
  <2> QED  BY <1>2, <1>5, <2>1 DEF Range
<1>8. Range(t) \subseteq Range(s \o t)
  <2> SUFFICES ASSUME NEW k \in 1..Len(t)
               PROVE  t[k] \in Range(s \o t)
    BY <1>5 DEF Range
  <2>1. k + Len(s) \in 1..Len(s) + Len(t)
    BY <1>1
  <2> QED  BY <1>3, <1>5, <2>1 DEF Range
<1> QED  BY <1>6, <1>7, <1>8

\* addPairToBlock keeps block, checksum and alphabet what they are, and adds five bytes
\* at most (writer.go:194-229).
LEMMA AddPairKeeps ==
    ASSUME TypeOK, AlphabetExact, AddPair
    PROVE  /\ block' \in Seq(Byte) /\ crc' \in Seq(Byte) /\ inUse' \subseteq Byte
           /\ inUse' = Range(block')
           /\ Len(block') <= Len(block) + 5
<1>0. /\ inCh \in 0..NoCh /\ inLen \in 0..MaxRun /\ (inCh = NoCh <=> inLen = 0)
      /\ block \in Seq(Byte) /\ crc \in Seq(Byte) /\ inUse \subseteq Byte
      /\ inUse = Range(block) /\ ByteTop \in Nat /\ MaxRun \in Nat
  BY RunAssumption DEF TypeOK, AlphabetExact
<1>1. CASE inCh = NoCh
  <2>1. UNCHANGED <<block, crc, inUse>>
    BY <1>1 DEF AddPair
  <2> QED  BY <1>0, <2>1
<1>2. CASE inCh # NoCh
  <2>1. inCh \in Byte /\ inLen \in 1..MaxRun
    BY <1>0, <1>2 DEF Byte, NoCh
  <2>2. /\ block' = block \o RunCode(inCh, inLen)
        /\ crc' = crc \o Repeat(inCh, inLen)
        /\ inUse' = inUse \cup Marks
    BY <1>2 DEF AddPair
  <2>3. RunCode(inCh, inLen) \in Seq(Byte) /\ Repeat(inCh, inLen) \in Seq(Byte)
        /\ Len(RunCode(inCh, inLen)) \in Nat /\ Len(RunCode(inCh, inLen)) <= 5
        /\ Range(RunCode(inCh, inLen)) = Marks
    BY <2>1, RunFacts DEF Marks
  <2>4. inUse' = Range(block')
    BY <1>0, <2>2, <2>3, RangeConcat
  <2>5. block' \in Seq(Byte) /\ Len(block') = Len(block) + Len(RunCode(inCh, inLen))
    BY <1>0, <2>2, <2>3
  <2>6. crc' \in Seq(Byte)
    BY <1>0, <2>2, <2>3
  <2>7. inUse' \subseteq Byte
    BY <2>4, <2>5 DEF Range
  <2>8. Len(block') <= Len(block) + 5
    <3>1. Len(block) \in Nat
      BY <1>0
    <3>2. Len(RunCode(inCh, inLen)) \in Nat /\ Len(RunCode(inCh, inLen)) <= 5
      BY <2>3
    <3>3. Len(block') = Len(block) + Len(RunCode(inCh, inLen))
      BY <2>5
    <3> QED  BY <3>1, <3>2, <3>3
  <2> QED  BY <2>4, <2>5, <2>6, <2>7, <2>8
<1> QED  BY <1>1, <1>2

-----------------------------------------------------------------------------
(* The reader's state machine over a block, byte by byte. *)

\* Its state over each set of positions, the largest taken last.
ScannedUpTo(bytes, n, f) ==
    f = [s \in SUBSET (1..n) |->
            IF s = {} THEN UnRLEStart ELSE UnRLEByte(f[s \ {Max(s)}], bytes[Max(s)])]

\* The largest of the first numbers, and of a set of them that has it.
LEMMA MaxFacts ==
    ASSUME NEW k \in Nat, NEW s \in SUBSET (1..k + 1), k + 1 \in s
    PROVE  Max(s) = k + 1
<1>1. \A y \in s : y \in Int /\ k + 1 >= y
  OBVIOUS
<1>2. \E m : m \in s /\ \A y \in s : m >= y
  BY <1>1
<1>3. Max(s) \in s /\ \A y \in s : Max(s) >= y
  BY <1>2 DEF Max
<1> HIDE DEF Max
<1>4. PICK m : m = Max(s)
  OBVIOUS
<1>5. m \in Int /\ m <= k + 1 /\ m >= k + 1
  BY <1>1, <1>3, <1>4
<1> QED  BY <1>4, <1>5

\* There is such a function for every length.
LEMMA ScannedExists ==
    ASSUME NEW bytes, NEW n \in Nat
    PROVE  \E f : ScannedUpTo(bytes, n, f)
<1> DEFINE T == {k \in Nat : \E f : ScannedUpTo(bytes, k, f)}
<1>1. 0 \in T
  <2>1. ScannedUpTo(bytes, 0, [s \in SUBSET (1..0) |-> UnRLEStart])
    <3>1. \A s \in SUBSET (1..0) : s = {}
      OBVIOUS
    <3> QED  BY <3>1 DEF ScannedUpTo
  <2> QED  BY <2>1
<1>2. ASSUME NEW k \in Nat, k \in T
      PROVE  k + 1 \in T
  <2>1. PICK f : ScannedUpTo(bytes, k, f)
    BY <1>2
  <2> DEFINE g == [s \in SUBSET (1..k + 1) |->
                     IF k + 1 \in s THEN UnRLEByte(f[s \ {k + 1}], bytes[k + 1]) ELSE f[s]]
  <2>2. ASSUME NEW s \in SUBSET (1..k + 1)
        PROVE  g[s] = IF s = {} THEN UnRLEStart ELSE UnRLEByte(g[s \ {Max(s)}], bytes[Max(s)])
    <3>1. CASE k + 1 \in s
      <4>1. Max(s) = k + 1
        BY <3>1, MaxFacts
      <4>2. s \ {k + 1} \in SUBSET (1..k + 1) /\ k + 1 \notin s \ {k + 1} /\ s # {}
        BY <3>1
      <4>3. g[s \ {k + 1}] = f[s \ {k + 1}]
        BY <4>2
      <4>4. g[s] = UnRLEByte(f[s \ {k + 1}], bytes[k + 1])
        BY <3>1
      <4> HIDE DEF g
      <4> QED  BY <4>1, <4>2, <4>3, <4>4
    <3>2. CASE k + 1 \notin s
      <4>1. s \in SUBSET (1..k)
        BY <3>2
      <4>2. s \ {Max(s)} \in SUBSET (1..k + 1) /\ k + 1 \notin s \ {Max(s)}
        BY <3>2
      <4>3. g[s \ {Max(s)}] = f[s \ {Max(s)}]
        BY <4>2
      <4>4. g[s] = f[s]
        BY <3>2
      <4>5. f[s] = IF s = {} THEN UnRLEStart ELSE UnRLEByte(f[s \ {Max(s)}], bytes[Max(s)])
        BY <2>1, <4>1 DEF ScannedUpTo
      <4> HIDE DEF g
      <4> QED  BY <4>3, <4>4, <4>5
    <3> QED  BY <3>1, <3>2
  <2>3. ScannedUpTo(bytes, k + 1, g)
    <3>1. g = [s \in SUBSET (1..k + 1) |-> g[s]]
      OBVIOUS
    <3> HIDE DEF g
    <3> QED  BY <2>2, <3>1 DEF ScannedUpTo
  <2> QED  BY <2>3
<1>3. T = Nat
  <2>1. T \subseteq Nat
    OBVIOUS
  <2> HIDE DEF T
  <2> QED  BY <1>1, <1>2, <2>1, Induction
<1> QED  BY <1>3

\* On the first positions it takes one byte after the other.
LEMMA ScannedNext ==
    ASSUME NEW bytes, NEW n \in Nat, NEW f, ScannedUpTo(bytes, n, f)
    PROVE  /\ f[1..0] = UnRLEStart
           /\ \A k \in Nat : k < n => f[1..k + 1] = UnRLEByte(f[1..k], bytes[k + 1])
<1>1. f[1..0] = UnRLEStart
  <2>1. 1..0 = {} /\ 1..0 \in SUBSET (1..n)
    OBVIOUS
  <2> QED  BY <2>1 DEF ScannedUpTo
<1>2. ASSUME NEW k \in Nat, k < n
      PROVE  f[1..k + 1] = UnRLEByte(f[1..k], bytes[k + 1])
  <2> DEFINE s == 1..k + 1
  <2>1. s \in SUBSET (1..n) /\ s # {} /\ k + 1 \in s /\ s \in SUBSET (1..k + 1)
    BY <1>2
  <2>2. s \ {k + 1} = 1..k
    OBVIOUS
  <2> HIDE DEF s
  <2>3. Max(s) = k + 1
    BY <2>1, MaxFacts
  <2>4. f[s] = UnRLEByte(f[s \ {Max(s)}], bytes[Max(s)])
    BY <2>1 DEF ScannedUpTo
  <2> QED  BY <2>2, <2>3, <2>4 DEF s
<1> QED  BY <1>1, <1>2

\* Scan is its value over all positions.
LEMMA ScanIsScanned ==
    ASSUME NEW S, NEW bytes \in Seq(S)
    PROVE  \E f : ScannedUpTo(bytes, Len(bytes), f) /\ Scan(bytes) = f[1..Len(bytes)]
<1> DEFINE n == Len(bytes)
           chosen == CHOOSE f : f = [s \in SUBSET (1..n) |->
                        IF s = {} THEN UnRLEStart ELSE UnRLEByte(f[s \ {Max(s)}], bytes[Max(s)])]
<1>1. n \in Nat /\ DOMAIN bytes = 1..n
  OBVIOUS
<1>2. \E f : f = [s \in SUBSET (1..n) |->
                        IF s = {} THEN UnRLEStart ELSE UnRLEByte(f[s \ {Max(s)}], bytes[Max(s)])]
  BY <1>1, ScannedExists DEF ScannedUpTo
<1>3. ScannedUpTo(bytes, n, chosen)
  BY <1>2 DEF ScannedUpTo
<1>4. Scan(bytes) = chosen[1..n]
  BY <1>1 DEF Scan, FoldLeft, MapThenFoldSet
<1> QED  BY <1>3, <1>4

\* Nothing is read of an empty block, and the last byte of any other is read last.
LEMMA ScanEmpty == Scan(<< >>) = UnRLEStart
<1>1. << >> \in Seq(Byte) /\ Len(<< >>) = 0
  OBVIOUS
<1>2. PICK f : ScannedUpTo(<< >>, 0, f) /\ Scan(<< >>) = f[1..0]
  BY <1>1, ScanIsScanned
<1> QED  BY <1>2, ScannedNext

LEMMA ScanAppend ==
    ASSUME NEW bytes \in Seq(Byte), NEW e \in Byte
    PROVE  Scan(Append(bytes, e)) = UnRLEByte(Scan(bytes), e)
<1> DEFINE longer == Append(bytes, e)
           n == Len(bytes)
<1>1. /\ n \in Nat /\ longer \in Seq(Byte) /\ Len(longer) = n + 1 /\ longer[n + 1] = e
      /\ \A i \in 1..n : longer[i] = bytes[i]
  OBVIOUS
<1> HIDE DEF longer, n
<1>2. PICK f : ScannedUpTo(bytes, n, f) /\ Scan(bytes) = f[1..n]
  BY ScanIsScanned DEF n
<1>3. PICK g : ScannedUpTo(longer, n + 1, g) /\ Scan(longer) = g[1..n + 1]
  BY <1>1, ScanIsScanned
<1> DEFINE T == {k \in Nat : k <= n => f[1..k] = g[1..k]}
<1>4. 0 \in T
  <2>1. f[1..0] = UnRLEStart
    BY <1>1, <1>2, ScannedNext
  <2>2. g[1..0] = UnRLEStart
    <3>1. n + 1 \in Nat
      BY <1>1
    <3> QED  BY <1>3, <3>1, ScannedNext
  <2> QED  BY <2>1, <2>2
<1>5. \A k \in Nat : k < n + 1 => g[1..k + 1] = UnRLEByte(g[1..k], longer[k + 1])
  <2>1. n + 1 \in Nat
    BY <1>1
  <2> QED  BY <1>3, <2>1, ScannedNext
<1>6. \A k \in Nat : k < n => f[1..k + 1] = UnRLEByte(f[1..k], bytes[k + 1])
  BY <1>1, <1>2, ScannedNext
<1>7. ASSUME NEW k \in Nat, k \in T
      PROVE  k + 1 \in T
  <2> SUFFICES ASSUME k + 1 <= n PROVE f[1..k + 1] = g[1..k + 1]
    OBVIOUS
  <2>1. k < n /\ k <= n /\ k < n + 1 /\ k + 1 \in 1..n
    BY <1>1
  <2>2. f[1..k] = g[1..k]
    BY <1>7, <2>1
  <2>3. longer[k + 1] = bytes[k + 1]
    BY <1>1, <2>1
  <2>4. f[1..k + 1] = UnRLEByte(f[1..k], bytes[k + 1])
    BY <1>6, <2>1
  <2>5. g[1..k + 1] = UnRLEByte(g[1..k], longer[k + 1])
    BY <1>5, <2>1
  <2> QED  BY <2>2, <2>3, <2>4, <2>5
<1>8. T = Nat
  <2>1. T \subseteq Nat
    OBVIOUS
  <2> HIDE DEF T
  <2> QED  BY <1>4, <1>7, <2>1, Induction
<1>9. f[1..n] = g[1..n]
  <2>1. n \in T /\ n <= n
    <3> HIDE DEF T
    <3> QED  BY <1>1, <1>8
  <2> QED  BY <2>1
<1>10. g[1..n + 1] = UnRLEByte(g[1..n], longer[n + 1])
  BY <1>1, <1>5
<1> QED  BY <1>1, <1>2, <1>3, <1>9, <1>10 DEF longer

-----------------------------------------------------------------------------
(* What a decoder makes of a run behind a block. *)

States == [out : Seq(Byte), k0 : Byte, seen : 0..4]

\* A byte more leaves a state a state.
LEMMA ByteRead ==
    ASSUME NEW st \in States, NEW e \in Byte
    PROVE  UnRLEByte(st, e) \in States
<1>1. st.out \in Seq(Byte) /\ st.k0 \in Byte /\ st.seen \in 0..4
  BY DEF States
<1>2. ByteTop \in Nat
  BY RunAssumption
<1>3. CASE st.seen = 0
  <2>1. UnRLEByte(st, e) = [out |-> st.out, k0 |-> e, seen |-> 1]
    BY <1>3 DEF UnRLEByte, States
  <2> QED  BY <1>1, <2>1 DEF States
<1>4. CASE st.seen = 4
  <2> DEFINE more == st.out \o Repeat(st.k0, e + 4)
  <2>1. UnRLEByte(st, e) = [st EXCEPT !.out = more, !.seen = 0]
    BY <1>4 DEF UnRLEByte
  <2>2. e + 4 \in Nat
    BY <1>2 DEF Byte
  <2>3. more \in Seq(Byte)
    BY <1>1, <2>2, RepeatType
  <2> HIDE DEF more
  <2>4. [st EXCEPT !.out = more, !.seen = 0] \in States
    <3>1. [st EXCEPT !.out = more] \in States
      BY <2>3 DEF States
    <3>2. [st EXCEPT !.out = more, !.seen = 0] = [[st EXCEPT !.out = more] EXCEPT !.seen = 0]
      OBVIOUS
    <3>3. ASSUME NEW longer \in States PROVE [longer EXCEPT !.seen = 0] \in States
      BY DEF States
    <3> HIDE DEF States
    <3> QED  BY <3>1, <3>2, <3>3
  <2> QED  BY <2>1, <2>4
<1>5. CASE st.seen # 0 /\ st.seen # 4
  <2>1. Repeat(st.k0, st.seen) \in Seq(Byte)
    BY <1>1, <1>5, RepeatFacts
  <2>2. CASE e # st.k0
    <3>1. UnRLEByte(st, e) = [out |-> st.out \o Repeat(st.k0, st.seen), k0 |-> e, seen |-> 1]
      BY <1>5, <2>2 DEF UnRLEByte
    <3> QED  BY <1>1, <2>1, <3>1 DEF States
  <2>3. CASE e = st.k0
    <3>1. UnRLEByte(st, e) = [out |-> st.out, k0 |-> st.k0, seen |-> st.seen + 1]
      BY <1>5, <2>3 DEF UnRLEByte, States
    <3> QED  BY <1>1, <1>5, <3>1 DEF States
  <2> QED  BY <2>2, <2>3
<1> QED  BY <1>3, <1>4, <1>5

\* After any block the machine is in one of its states.
LEMMA ScanType == ASSUME NEW bytes \in Seq(Byte) PROVE Scan(bytes) \in States
<1> DEFINE T == {k \in Nat : \A q \in Seq(Byte) : Len(q) = k => Scan(q) \in States}
<1>1. 0 \in T
  <2> SUFFICES ASSUME NEW q \in Seq(Byte), Len(q) = 0 PROVE Scan(q) \in States
    OBVIOUS
  <2>1. q = << >>
    OBVIOUS
  <2>2. UnRLEStart \in States
    BY RunAssumption DEF UnRLEStart, States, Byte
  <2> QED  BY <2>1, <2>2, ScanEmpty
<1>2. ASSUME NEW k \in Nat, k \in T
      PROVE  k + 1 \in T
  <2> SUFFICES ASSUME NEW q \in Seq(Byte), Len(q) = k + 1 PROVE Scan(q) \in States
    OBVIOUS
  <2>0. Len(q) = k + 1
    OBVIOUS
  <2> DEFINE r == Others(q)
             e == q[Len(q)]
  <2>1. r \in Seq(Byte) /\ Len(r) = k /\ e \in Byte /\ q = Append(r, e)
    <3> HIDE DEF T
    <3>1. r \in Seq(Byte) /\ Len(r) = Len(q) - 1 /\ e \in Byte /\ q = Append(r, e)
      BY <2>0, LastAppended
    <3>2. Len(q) - 1 = k
      BY <2>0
    <3> HIDE DEF r, e
    <3> QED  BY <3>1, <3>2
  <2> HIDE DEF r, e
  <2>2. Scan(r) \in States
    BY <1>2, <2>1
  <2>3. Scan(q) = UnRLEByte(Scan(r), e)
    BY <2>1, ScanAppend
  <2> QED  BY <2>1, <2>2, <2>3, ByteRead
<1>3. T = Nat
  <2>1. T \subseteq Nat
    OBVIOUS
  <2> HIDE DEF T
  <2> QED  BY <1>1, <1>2, <2>1, Induction
<1>4. Len(bytes) \in Nat
  OBVIOUS
<1> QED  BY <1>3, <1>4

\* The data decoded so far, the run that is being read at its end.
Settled(st) == st.out \o Repeat(st.k0, st.seen)

\* The decoded data is what is settled after the last byte.
LEMMA UnRLEIsSettled ==
    ASSUME NEW bytes \in Seq(Byte)
    PROVE  UnRLE(bytes) = Settled(Scan(bytes)) /\ UnRLE(bytes) \in Seq(Byte)
<1>1. Scan(bytes) \in States
  BY ScanType
<1>2. UnRLE(bytes) = Settled(Scan(bytes))
  BY DEF UnRLE, Settled, Scan
<1>3. ASSUME NEW st \in States PROVE Settled(st) \in Seq(Byte)
  <2>1. st.out \in Seq(Byte) /\ st.k0 \in Byte /\ st.seen \in Nat
    BY DEF States
  <2>2. Repeat(st.k0, st.seen) \in Seq(Byte)
    BY <2>1, RepeatType
  <2> QED  BY <2>1, <2>2 DEF Settled
<1> QED  BY <1>1, <1>2, <1>3

\* Nothing decodes to nothing.
LEMMA UnRLEEmpty == UnRLE(<< >>) = << >>
<1>1. << >> \in Seq(Byte)
  OBVIOUS
<1>2. UnRLE(<< >>) = Settled(UnRLEStart)
  BY <1>1, UnRLEIsSettled, ScanEmpty
<1>3. Repeat(0, 0) = << >>
  BY RepeatLonger
<1>4. Settled(UnRLEStart) = << >> \o << >>
  BY <1>3 DEF Settled, UnRLEStart
<1> QED  BY <1>2, <1>4

\* Equal bytes behind a block that does not end in them are counted.
LEMMA EqualBytes ==
    ASSUME NEW bytes \in Seq(Byte), NEW ch \in Byte, NEW len \in 1..4,
           Scan(bytes).seen <= 3,
           Scan(bytes).seen > 0 => Scan(bytes).k0 # ch
    PROVE  /\ bytes \o Repeat(ch, len) \in Seq(Byte)
           /\ Scan(bytes \o Repeat(ch, len))
              = [out |-> Settled(Scan(bytes)), k0 |-> ch, seen |-> len]
<1> DEFINE st == Scan(bytes)
           After(k) == [out |-> Settled(st), k0 |-> ch, seen |-> k]
           Read(k) == bytes \o Repeat(ch, k) \in Seq(Byte)
                      /\ Scan(bytes \o Repeat(ch, k)) = After(k)
<1>0. st \in States /\ st.out \in Seq(Byte)
  BY ScanType DEF States
<1>1. Read(1)
  <2>1. Repeat(ch, 1) = << ch >> /\ bytes \o << ch >> = Append(bytes, ch)
        /\ Append(bytes, ch) \in Seq(Byte)
    BY RepeatLonger
  <2>2. Scan(Append(bytes, ch)) = UnRLEByte(st, ch)
    BY ScanAppend
  <2>3. UnRLEByte(st, ch) = After(1)
    <3>1. CASE st.seen = 0
      <4>1. Repeat(st.k0, 0) = << >>
        BY RepeatLonger
      <4>2. Settled(st) = st.out
        <5>1. Settled(st) = st.out \o << >>
          BY <3>1, <4>1 DEF Settled
        <5> HIDE DEF st
        <5> QED  BY <1>0, <5>1
      <4>3. UnRLEByte(st, ch) = [out |-> st.out, k0 |-> ch, seen |-> 1]
        BY <1>0, <3>1 DEF UnRLEByte, States
      <4> QED  BY <4>2, <4>3
    <3>2. CASE st.seen # 0
      <4>1. st.seen > 0 /\ st.seen # 4 /\ st.k0 # ch
        BY <1>0, <3>2 DEF States
      <4> QED  BY <3>2, <4>1 DEF UnRLEByte, Settled
    <3> QED  BY <3>1, <3>2
  <2> QED  BY <2>1, <2>2, <2>3
<1>2. ASSUME NEW k \in 1..3, Read(k)
      PROVE  Read(k + 1)
  <2> HIDE DEF Read
  <2>0. k \in Nat
    OBVIOUS
  <2>1. Repeat(ch, k + 1) = Append(Repeat(ch, k), ch) /\ Repeat(ch, k) \in Seq(Byte)
    BY <2>0, RepeatLonger, RepeatType
  <2>2. bytes \o Repeat(ch, k + 1) = Append(bytes \o Repeat(ch, k), ch)
        /\ bytes \o Repeat(ch, k) \in Seq(Byte)
    <3> DEFINE run == Repeat(ch, k)
    <3>1. run \in Seq(Byte) /\ Repeat(ch, k + 1) = Append(run, ch)
      BY <2>1
    <3> HIDE DEF run
    <3>2. bytes \o run \in Seq(Byte) /\ bytes \o Append(run, ch) = Append(bytes \o run, ch)
      BY <3>1, AppendLast
    <3> QED  BY <3>1, <3>2 DEF run
  <2>3. bytes \o Repeat(ch, k + 1) \in Seq(Byte)
    <3> DEFINE all == bytes \o Repeat(ch, k)
    <3>1. all \in Seq(Byte) /\ bytes \o Repeat(ch, k + 1) = Append(all, ch)
      BY <2>2
    <3> HIDE DEF all
    <3>2. Append(all, ch) \in Seq(Byte)
      BY <3>1
    <3> QED  BY <3>1, <3>2
  <2>4. Scan(bytes \o Repeat(ch, k + 1)) = UnRLEByte(After(k), ch)
    <3>1. Scan(Append(bytes \o Repeat(ch, k), ch))
          = UnRLEByte(Scan(bytes \o Repeat(ch, k)), ch)
      BY <2>2, ScanAppend
    <3> QED  BY <1>2, <2>2, <3>1 DEF Read
  <2>5. UnRLEByte(After(k), ch) = After(k + 1)
    BY DEF UnRLEByte
  <2> QED  BY <2>3, <2>4, <2>5 DEF Read
<1>3. Read(1) /\ Read(2) /\ Read(3) /\ Read(4)
  <2> HIDE DEF Read
  <2>1. 1 \in 1..3 /\ 2 \in 1..3 /\ 3 \in 1..3 /\ 1 + 1 = 2 /\ 2 + 1 = 3 /\ 3 + 1 = 4
    OBVIOUS
  <2>2. Read(2)
    BY <1>1, <1>2, <2>1
  <2>3. Read(3)
    BY <1>2, <2>1, <2>2
  <2>4. Read(4)
    BY <1>2, <2>1, <2>3
  <2> QED  BY <1>1, <2>2, <2>3, <2>4
<1>4. len = 1 \/ len = 2 \/ len = 3 \/ len = 4
  OBVIOUS
<1>5. Read(len)
  <2> HIDE DEF Read
  <2> QED  BY <1>3, <1>4
<1> QED  BY <1>5

\* The run that addPairToBlock appends is decoded behind what the block decodes to, and
\* its count, if it has one, ends it (writer.go:194-229, reader.go:494-556).
LEMMA RunScanned ==
    ASSUME NEW bytes \in Seq(Byte), NEW ch \in Byte, NEW len \in 1..MaxRun,
           Scan(bytes).seen <= 3,
           Scan(bytes).seen > 0 => Scan(bytes).k0 # ch
    PROVE  LET st == Scan(bytes \o RunCode(ch, len))
           IN  /\ Settled(st) = Settled(Scan(bytes)) \o Repeat(ch, len)
               /\ st.seen <= 3
               /\ st.seen > 0 => st.k0 = ch /\ len < 4
<1> DEFINE before == Settled(Scan(bytes))
<1>0. before \in Seq(Byte) /\ ByteTop \in Nat /\ MaxRun \in Nat /\ MaxRun <= ByteTop + 4
  BY UnRLEIsSettled, RunAssumption
<1> HIDE DEF before
<1>1. CASE len < 4
  <2>1. len \in 1..4 /\ RunCode(ch, len) = Repeat(ch, len)
    BY <1>0, <1>1 DEF RunCode
  <2>2. Scan(bytes \o RunCode(ch, len)) = [out |-> before, k0 |-> ch, seen |-> len]
    BY <2>1, EqualBytes DEF before
  <2>3. Settled(Scan(bytes \o RunCode(ch, len))) = before \o Repeat(ch, len)
    BY <2>2 DEF Settled
  <2> QED  BY <1>1, <2>1, <2>2, <2>3 DEF before
<1>2. CASE ~(len < 4)
  <2> DEFINE four == bytes \o Repeat(ch, 4)
             at4 == [out |-> before, k0 |-> ch, seen |-> 4]
             count == len - 4
             full == Repeat(ch, len)
  <2>1. count \in Byte /\ count + 4 = len /\ RunCode(ch, len) = Append(Repeat(ch, 4), count)
        /\ len \in Nat \ {0}
    BY <1>0, <1>2 DEF RunCode, Byte
  <2>2. full \in Seq(Byte)
    BY <2>1, RepeatType
  <2>3. 4 \in 1..4 /\ Repeat(ch, 4) \in Seq(Byte)
    BY RepeatType
  <2>4. four \in Seq(Byte) /\ Scan(four) = at4
    BY <2>3, EqualBytes DEF before
  <2>5. bytes \o RunCode(ch, len) = Append(four, count)
    <3> HIDE DEF count
    <3> QED  BY <2>1, <2>3, AppendLast
  <2>6. Scan(Append(four, count)) = UnRLEByte(at4, count)
    <3> HIDE DEF four, count, at4
    <3> QED  BY <2>1, <2>4, ScanAppend
  <2>7. UnRLEByte(at4, count) = [out |-> before \o full, k0 |-> ch, seen |-> 0]
    <3>1. count + 4 = len
      BY <2>1
    <3>2. UnRLEByte(at4, count) = [at4 EXCEPT !.out = before \o Repeat(ch, count + 4), !.seen = 0]
      <4> HIDE DEF count
      <4> QED  BY DEF UnRLEByte
    <3>3. before \o Repeat(ch, count + 4) = before \o full
      <4> HIDE DEF count
      <4> QED  BY <3>1
    <3> HIDE DEF count, full
    <3> QED  BY <3>2, <3>3
  <2>8. Repeat(ch, 0) = << >>
    BY RepeatLonger
  <2> HIDE DEF full, at4, four, count
  <2>9. before \o full \in Seq(Byte)
    BY <1>0, <2>2
  <2>10. Scan(bytes \o RunCode(ch, len)) = [out |-> before \o full, k0 |-> ch, seen |-> 0]
    BY <2>5, <2>6, <2>7
  <2>11. Settled(Scan(bytes \o RunCode(ch, len))) = before \o full
    <3> DEFINE whole == before \o full
    <3>1. Settled(Scan(bytes \o RunCode(ch, len))) = whole \o << >>
      <4> HIDE DEF whole
      <4>1. Scan(bytes \o RunCode(ch, len)) = [out |-> whole, k0 |-> ch, seen |-> 0]
        BY <2>10 DEF whole
      <4>2. Settled([out |-> whole, k0 |-> ch, seen |-> 0]) = whole \o Repeat(ch, 0)
        BY DEF Settled
      <4> QED  BY <2>8, <4>1, <4>2
    <3>2. whole \in Seq(Byte)
      BY <2>9
    <3> HIDE DEF whole
    <3>3. whole \o << >> = whole
      BY <3>2
    <3> QED  BY <3>1, <3>3 DEF whole
  <2>12. Scan(bytes \o RunCode(ch, len)).seen = 0
    BY <2>10
  <2> QED  BY <2>11, <2>12 DEF before, full
<1> QED  BY <1>1, <1>2

-----------------------------------------------------------------------------
(* The destination. *)

\* What compressBlockSingle writes is an item.
LEMMA ItemTypes ==
    ASSUME Types
    PROVE  HeaderItem \in Items /\ BlockItem \in Items /\ TrailerItem \in Items
  BY DEF Types, TypeOK, Items, HeaderItem, BlockItem, TrailerItem

\* And it is the promise's item of that kind.
LEMMA ItemsPromised ==
    /\ AsPromised(HeaderItem) = <<"header">>
    /\ AsPromised(BlockItem) = <<"block", crc>>
    /\ AsPromised(TrailerItem) = <<"trailer", combined>>
  BY DEF AsPromised, HeaderItem, BlockItem, TrailerItem

\* An item reaches the destination, or the failure stays (bitio.go:18-34).
LEMMA EmitFacts ==
    ASSUME Types, NEW item \in Items, Emit(item)
    PROVE  /\ dst' \in Seq(Items) /\ bwErr' \in BOOLEAN
           /\ bwErr => bwErr' /\ dst' = dst
           /\ bwErr' => dst' = dst
           /\ ~bwErr' => ~bwErr /\ dst' = Append(dst, item)
<1>1. dst \in Seq(Items) /\ bwErr \in BOOLEAN
  BY DEF Types, TypeOK
<1>2. CASE ~bwErr /\ dst' = Append(dst, item) /\ UNCHANGED bwErr
  BY <1>1, <1>2
<1>3. CASE (bwErr \/ SinkMayFail) /\ bwErr' = TRUE /\ UNCHANGED dst
  BY <1>1, <1>3
<1> QED  BY <1>2, <1>3 DEF Emit

\* The destination with an item more, as the promise has it.
LEMMA MappedAppend ==
    ASSUME dst \in Seq(Items), NEW item \in Items
    PROVE  /\ Mapped(Append(dst, item)) = Append(Mapped(dst), AsPromised(item))
           /\ Len(Mapped(dst)) = Len(dst)
<1> DEFINE S == {AsPromised(x) : x \in Items}
<1>1. Len(dst) \in Nat /\ DOMAIN dst = 1..Len(dst)
      /\ \A k \in 1..Len(dst) : dst[k] \in Items
  OBVIOUS
<1>2. Append(dst, item) \in Seq(Items) /\ Len(Append(dst, item)) = Len(dst) + 1
      /\ Append(dst, item)[Len(dst) + 1] = item
      /\ \A k \in 1..Len(dst) : Append(dst, item)[k] = dst[k]
  OBVIOUS
<1>3. Mapped(dst) \in Seq(S) /\ Len(Mapped(dst)) = Len(dst)
  <2>1. Mapped(dst) \in [1..Len(dst) -> S]
    BY <1>1 DEF Mapped
  <2> QED  BY <1>1, <2>1
<1>4. AsPromised(item) \in S
  OBVIOUS
<1>5. Mapped(Append(dst, item)) \in Seq(S) /\ Len(Mapped(Append(dst, item))) = Len(dst) + 1
  <2>1. Mapped(Append(dst, item)) \in [1..Len(dst) + 1 -> S]
    BY <1>1, <1>2 DEF Mapped
  <2> QED  BY <1>1, <2>1
<1>6. Append(Mapped(dst), AsPromised(item)) \in Seq(S)
      /\ Len(Append(Mapped(dst), AsPromised(item))) = Len(dst) + 1
  BY <1>3, <1>4
<1>7. ASSUME NEW k \in 1..Len(dst) + 1
      PROVE  Mapped(Append(dst, item))[k] = Append(Mapped(dst), AsPromised(item))[k]
  <2>1. Mapped(Append(dst, item))[k] = AsPromised(Append(dst, item)[k])
    BY <1>2 DEF Mapped
  <2>2. CASE k = Len(dst) + 1
    BY <1>2, <1>3, <1>4, <2>1, <2>2
  <2>3. CASE k # Len(dst) + 1
    <3>1. k \in 1..Len(dst)
      BY <1>1, <2>3
    <3>2. Mapped(dst)[k] = AsPromised(dst[k])
      BY <1>1, <3>1 DEF Mapped
    <3>3. Append(Mapped(dst), AsPromised(item))[k] = Mapped(dst)[k]
      BY <1>3, <1>4, <3>1
    <3> QED  BY <1>2, <2>1, <3>1, <3>2, <3>3
  <2> QED  BY <2>2, <2>3
<1> HIDE DEF S
<1> QED  BY <1>3, <1>5, <1>6, <1>7, SeqEqual

-----------------------------------------------------------------------------
(* Each part of the invariant is kept. *)

\* The types but those of the run and the block.
StreamTypes ==
    /\ headerWritten \in BOOLEAN /\ bwErr \in BOOLEAN
    /\ err \in BOOLEAN /\ isLast \in BOOLEAN
    /\ combined \in Seq(Seq(Byte))
    /\ pc \in {"idle", "header", "block", "check", "trailer", "return", "closed"}
    /\ dst \in Seq(Items)
    /\ input \in Seq(Byte)
BlockTypes ==
    /\ inCh \in 0..NoCh /\ inLen \in 0..MaxRun
    /\ inCh = NoCh <=> inLen = 0
    /\ block \in Seq(Byte) /\ crc \in Seq(Byte)
    /\ inUse \subseteq Byte /\ inUse = Range(block)

\* Together they are the types.
LEMMA SplitTypes == Types /\ AlphabetExact <=> StreamTypes /\ BlockTypes
<1>1. dst \in Seq(Items) =>
         \A k \in DOMAIN dst : dst[k].kind \in {"header", "block", "trailer"}
  BY DEF Items
<1> QED  BY <1>1 DEF Types, TypeOK, StreamTypes, BlockTypes, AlphabetExact

\* A step that writes a byte of the caller, by cutting or lengthening the run
\* (writer.go:173-192).
LEMMA AddCharKeeps ==
    ASSUME Types, AlphabetExact, NEW ch \in Byte, AddChar(ch)
    PROVE  BlockTypes' /\ Len(block') <= Len(block) + 5
<1>0. BlockTypes /\ Len(block) \in Nat /\ NoCh \in Nat /\ ch \in 0..NoCh /\ ch # NoCh
      /\ MaxRun \in Nat \ {0} /\ TypeOK
  BY SplitTypes, RunAssumption DEF Byte, NoCh, BlockTypes, Types
<1>1. CASE Cuts(ch)
  <2>1. AddPair /\ inCh' = ch /\ inLen' = 1
    BY <1>1 DEF AddChar
  <2>2. /\ block' \in Seq(Byte) /\ crc' \in Seq(Byte) /\ inUse' \subseteq Byte
        /\ inUse' = Range(block')
        /\ Len(block') <= Len(block) + 5
    BY <1>0, <2>1, AddPairKeeps
  <2>3. NoCh' = NoCh
    BY DEF NoCh
  <2>4. inCh' \in 0..NoCh /\ inLen' \in 0..MaxRun /\ inCh' # NoCh /\ inLen' # 0
    BY <1>0, <2>1
  <2> QED  BY <2>2, <2>3, <2>4 DEF BlockTypes
<1>2. CASE ~Cuts(ch)
  <2>1. inLen' = inLen + 1 /\ UNCHANGED <<inCh, block, crc, inUse>>
    BY <1>2 DEF AddChar
  <2>2. inCh = ch /\ inLen # MaxRun
    BY <1>2 DEF Cuts
  <2>3. inLen' \in 0..MaxRun /\ inLen' # 0 /\ inCh # NoCh
    BY <1>0, <2>1, <2>2 DEF BlockTypes
  <2> QED  BY <1>0, <2>1, <2>3 DEF BlockTypes, NoCh
<1> QED  BY <1>1, <1>2

\* Close puts the run into the block (writer.go:231-237).
LEMMA FlushRLKeeps ==
    ASSUME Types, AlphabetExact, FlushRL
    PROVE  BlockTypes' /\ Len(block') <= Len(block) + 5
<1>0. NoCh \in Nat /\ MaxRun \in Nat /\ TypeOK
  BY RunAssumption DEF NoCh, Types
<1>1. AddPair /\ inCh' = NoCh /\ inLen' = 0
  BY DEF FlushRL
<1>2. /\ block' \in Seq(Byte) /\ crc' \in Seq(Byte) /\ inUse' \subseteq Byte
      /\ inUse' = Range(block')
      /\ Len(block') <= Len(block) + 5
  BY <1>0, <1>1, AddPairKeeps
<1>3. inCh' \in 0..NoCh /\ inLen' \in 0..MaxRun
  BY <1>0, <1>1
<1> QED  BY <1>1, <1>2, <1>3 DEF BlockTypes, NoCh

\* An empty block with no run (writer.go:245-253, 149-171).
LEMMA EmptyBlock ==
    /\ <<>> \in Seq(Byte) /\ Len(<<>>) = 0 /\ Range(<<>>) = {}
    /\ NoCh \in 0..NoCh /\ 0 \in 0..MaxRun
  BY RunAssumption DEF NoCh, Range

\* A step keeps the types and the alphabet (writer.go:121-317).
LEMMA TypesStep == ASSUME IInv, [Next]_vars PROVE Types' /\ AlphabetExact'
<1> SUFFICES StreamTypes' /\ BlockTypes'
  <2>1. Types' /\ AlphabetExact' <=> StreamTypes' /\ BlockTypes'
    BY SplitTypes, PTL
  <2> QED  BY <2>1
<1>0. Types /\ AlphabetExact /\ StreamTypes /\ BlockTypes
  BY SplitTypes DEF IInv
<1>1. ASSUME NEW ch \in Byte, WriteByte(ch)
      PROVE  StreamTypes' /\ BlockTypes'
  <2>1. BlockTypes'
    BY <1>0, <1>1, AddCharKeeps DEF WriteByte
  <2>2. pc' \in {"idle", "header", "block"} /\ isLast' = FALSE /\ input' = Append(input, ch)
        /\ UNCHANGED <<streamVars, sinkVars>>
    BY <1>1 DEF WriteByte, FlushStart
  <2>3. input' \in Seq(Byte)
    BY <1>0, <2>2 DEF StreamTypes
  <2>4. isLast' \in BOOLEAN
    BY <2>2
  <2>5. UNCHANGED <<headerWritten, combined, err, bwErr, dst>>
    BY <2>2 DEF streamVars, sinkVars
  <2> QED  BY <1>0, <2>1, <2>2, <2>3, <2>4, <2>5 DEF StreamTypes
<1>2. CASE Close
  <2>1. BlockTypes'
    BY <1>0, <1>2, FlushRLKeeps DEF Close
  <2>2. pc' \in {"header", "block"} /\ isLast' = TRUE /\ UNCHANGED <<streamVars, sinkVars, input>>
    BY <1>2 DEF Close, FlushStart
  <2> QED  BY <1>0, <2>1, <2>2 DEF StreamTypes, streamVars, sinkVars
<1>3. CASE Reset
  <2>1. BlockTypes'
    BY <1>3, EmptyBlock DEF Reset, BlockTypes, NoCh
  <2>2. /\ headerWritten' \in BOOLEAN /\ bwErr' \in BOOLEAN
        /\ err' \in BOOLEAN /\ isLast' \in BOOLEAN
    BY <1>3 DEF Reset
  <2>3. /\ combined' \in Seq(Seq(Byte)) /\ dst' \in Seq(Items) /\ input' \in Seq(Byte)
        /\ pc' = "idle"
    BY <1>3 DEF Reset
  <2> QED  BY <2>1, <2>2, <2>3 DEF StreamTypes
<1>4. CASE WriteHeader
  <2>1. dst' \in Seq(Items) /\ bwErr' \in BOOLEAN
    BY <1>0, <1>4, ItemTypes, EmitFacts DEF WriteHeader
  <2> QED  BY <1>0, <1>4, <2>1 DEF WriteHeader, StreamTypes, BlockTypes, blockVars, NoCh
<1>5. CASE WriteBlock
  <2>1. dst' \in Seq(Items) /\ bwErr' \in BOOLEAN
    BY <1>0, <1>5, ItemTypes, EmitFacts DEF WriteBlock
  <2>2. combined' \in Seq(Seq(Byte))
    BY <1>0, <1>5 DEF WriteBlock, Folded, StreamTypes, BlockTypes
  <2> QED  BY <1>0, <1>5, <2>1, <2>2 DEF WriteBlock, StreamTypes, BlockTypes, blockVars, NoCh
<1>6. CASE NoBlock
  BY <1>0, <1>6 DEF NoBlock, StreamTypes, BlockTypes, blockVars, streamVars, sinkVars, NoCh
<1>7. CASE AfterBlock
  <2>1. /\ UNCHANGED <<inCh, inLen, headerWritten, combined, sinkVars, isLast, input>>
        /\ err' \in BOOLEAN /\ pc' \in {"idle", "trailer"}
        /\ UNCHANGED <<block, crc, inUse>> \/ (block' = << >> /\ crc' = << >> /\ inUse' = {})
    BY <1>0, <1>7 DEF AfterBlock, StreamTypes
  <2>2. BlockTypes'
    BY <1>0, <2>1, EmptyBlock DEF BlockTypes, NoCh
  <2> QED  BY <1>0, <2>1, <2>2 DEF StreamTypes, sinkVars
<1>8. CASE WriteTrailer
  <2>1. dst' \in Seq(Items) /\ bwErr' \in BOOLEAN
    BY <1>0, <1>8, ItemTypes, EmitFacts DEF WriteTrailer
  <2> QED  BY <1>0, <1>8, <2>1
           DEF WriteTrailer, StreamTypes, BlockTypes, blockVars, streamVars, NoCh
<1>9. CASE CloseReturns
  BY <1>0, <1>9 DEF CloseReturns, StreamTypes, BlockTypes, blockVars, sinkVars, NoCh
<1>10. CASE UNCHANGED vars
  BY <1>0, <1>10
  DEF vars, StreamTypes, BlockTypes, blockVars, streamVars, sinkVars, NoCh
<1> QED
  BY <1>1, <1>2, <1>3, <1>4, <1>5, <1>6, <1>7, <1>8, <1>9, <1>10 DEF Next, CompressBlock

\* A step knows of errors and headers what it should (writer.go:121-147, 255-317).
LEMMA PlacedStep == ASSUME IInv, [Next]_vars PROVE Placed'
<1>0. Placed /\ Types /\ StreamTypes
  BY SplitTypes DEF IInv
<1>1. ASSUME NEW ch \in Byte, WriteByte(ch)
      PROVE  Placed'
  BY <1>0, <1>1 DEF WriteByte, FlushStart, Placed, streamVars, sinkVars
<1>2. CASE Close
  BY <1>0, <1>2 DEF Close, FlushStart, Placed, streamVars, sinkVars
<1>3. CASE Reset
  BY <1>3 DEF Reset, Placed
<1>4. CASE WriteHeader
  <2>1. bwErr => bwErr'
    BY <1>0, <1>4, ItemTypes, EmitFacts DEF WriteHeader
  <2> QED  BY <1>0, <1>4, <2>1 DEF WriteHeader, Placed
<1>5. CASE WriteBlock
  <2>1. bwErr => bwErr'
    BY <1>0, <1>5, ItemTypes, EmitFacts DEF WriteBlock
  <2> QED  BY <1>0, <1>5, <2>1 DEF WriteBlock, Placed
<1>6. CASE NoBlock
  BY <1>0, <1>6 DEF NoBlock, Placed, streamVars, sinkVars
<1>7. CASE AfterBlock
  BY <1>0, <1>7 DEF AfterBlock, Placed, sinkVars
<1>8. CASE WriteTrailer
  <2>1. bwErr => bwErr'
    BY <1>0, <1>8, ItemTypes, EmitFacts DEF WriteTrailer
  <2> QED  BY <1>0, <1>8, <2>1 DEF WriteTrailer, Placed, streamVars
<1>9. CASE CloseReturns
  BY <1>0, <1>9 DEF CloseReturns, Placed, sinkVars
<1>10. CASE UNCHANGED vars
  BY <1>0, <1>10 DEF vars, Placed, streamVars, sinkVars
<1> QED
  BY <1>1, <1>2, <1>3, <1>4, <1>5, <1>6, <1>7, <1>8, <1>9, <1>10 DEF Next, CompressBlock

\* A step leaves room in the block for the next run (writer.go:129, 231-253).
LEMMA RoomStep == ASSUME IInv, [Next]_vars PROVE Room'
<1>0. Room /\ Types /\ AlphabetExact /\ Len(block) \in Nat /\ BlockMax \in Nat \ {0}
  BY BlockAssumption DEF IInv, Types, TypeOK
<1>1. ASSUME NEW ch \in Byte, WriteByte(ch)
      PROVE  Room'
  <2>1. Len(block) < BlockMax /\ UNCHANGED err
    BY <1>0, <1>1 DEF WriteByte, Room, streamVars
  <2>2. Len(block') <= Len(block) + 5 /\ block' \in Seq(Byte)
    BY <1>0, <1>1, AddCharKeeps DEF WriteByte, BlockTypes
  <2>3. pc' = "idle" => ~(Len(block') >= BlockMax)
    BY <1>1 DEF WriteByte, Full, FlushStart
  <2>4. Len(block') \in Nat
    BY <2>2
  <2> QED  BY <1>0, <2>1, <2>2, <2>3, <2>4 DEF Room
<1>2. CASE Close
  <2>1. Len(block) < BlockMax
    BY <1>0, <1>2 DEF Close, Room
  <2>2. Len(block') <= Len(block) + 5 /\ block' \in Seq(Byte)
    BY <1>0, <1>2, FlushRLKeeps DEF Close, BlockTypes
  <2>3. pc' # "idle"
    BY <1>2 DEF Close, FlushStart
  <2>4. Len(block') \in Nat
    BY <2>2
  <2> QED  BY <1>0, <2>1, <2>2, <2>3, <2>4 DEF Room
<1>3. CASE Reset
  BY <1>0, <1>3 DEF Reset, Room
<1>4. CASE WriteHeader \/ WriteBlock \/ NoBlock \/ WriteTrailer \/ CloseReturns
  <2>1. block' = block /\ pc' # "idle"
    BY <1>4 DEF WriteHeader, WriteBlock, NoBlock, WriteTrailer, CloseReturns, blockVars
  <2> QED  BY <1>0, <2>1 DEF Room
<1>5. CASE AfterBlock
  <2>1. \/ block' = block /\ (err' = TRUE \/ pc' = "trailer")
        \/ block' = << >>
    BY <1>5 DEF AfterBlock
  <2> QED  BY <1>0, <2>1 DEF Room
<1>6. CASE UNCHANGED vars
  BY <1>0, <1>6 DEF vars, Room, blockVars, streamVars
<1> QED  BY <1>1, <1>2, <1>3, <1>4, <1>5, <1>6 DEF Next, CompressBlock

\* Where an item goes that reaches the destination, the others staying in place.
LEMMA Placing ==
    ASSUME Types, Delivered, NEW item \in Items, Emit(item), ~bwErr'
    PROVE  /\ Due \in Nat /\ Len(dst') = Due + 1
           /\ AsPromised(dst'[Due + 1]) = AsPromised(item)
           /\ \A k \in 1..Due : AsPromised(dst'[k]) = Promise!Item(combined, k)
<1>1. ~bwErr /\ dst' = Append(dst, item)
  BY EmitFacts
<1>2. dst \in Seq(Items) /\ combined \in Seq(Seq(Byte))
  BY DEF Types, TypeOK
<1>3. Len(combined) \in Nat
  BY <1>2
<1>4. Due \in Nat
  BY <1>3 DEF Due
<1>5. Len(dst) = Due /\ \A k \in 1..Due : AsPromised(dst[k]) = Promise!Item(combined, k)
  BY <1>1 DEF Delivered
<1>6. Len(dst') = Due + 1 /\ dst'[Due + 1] = item /\ \A k \in 1..Due : dst'[k] = dst[k]
  BY <1>1, <1>2, <1>4, <1>5
<1> QED  BY <1>4, <1>5, <1>6

\* The items of a stream, and that a block more leaves those before it.
LEMMA StreamItems ==
    ASSUME NEW blocks \in Seq(Seq(Byte)), NEW b \in Seq(Byte)
    PROVE  /\ Promise!Item(blocks, 1) = <<"header">>
           /\ Promise!Item(blocks, Len(blocks) + 2) = <<"trailer", blocks>>
           /\ Promise!Item(Append(blocks, b), Len(blocks) + 2) = <<"block", b>>
           /\ \A k \in 1..Len(blocks) + 1 :
                 Promise!Item(Append(blocks, b), k) = Promise!Item(blocks, k)
<1>1. Len(blocks) \in Nat /\ Len(Append(blocks, b)) = Len(blocks) + 1
      /\ Append(blocks, b)[Len(blocks) + 1] = b
      /\ \A k \in 1..Len(blocks) : Append(blocks, b)[k] = blocks[k]
  OBVIOUS
<1>2. (Len(blocks) + 2) - 1 = Len(blocks) + 1 /\ Len(blocks) + 2 # 1
      /\ Len(blocks) + 2 <= (Len(blocks) + 1) + 1 /\ ~(Len(blocks) + 2 <= Len(blocks) + 1)
  BY <1>1
<1>3. Promise!Item(Append(blocks, b), Len(blocks) + 2) = <<"block", b>>
  BY <1>1, <1>2 DEF Promise!Item, Promise!BlockItem
<1>4. Promise!Item(blocks, Len(blocks) + 2) = <<"trailer", blocks>>
  BY <1>2 DEF Promise!Item, Promise!Trailer
<1>5. Promise!Item(blocks, 1) = <<"header">>
  BY DEF Promise!Item, Promise!Header
<1>6. ASSUME NEW k \in 1..Len(blocks) + 1
      PROVE  Promise!Item(Append(blocks, b), k) = Promise!Item(blocks, k)
  <2>1. CASE k = 1
    BY <2>1 DEF Promise!Item
  <2>2. CASE k # 1
    <3>1. k - 1 \in 1..Len(blocks) /\ k <= Len(blocks) + 1 /\ k <= (Len(blocks) + 1) + 1
      BY <1>1, <2>2
    <3>2. Append(blocks, b)[k - 1] = blocks[k - 1]
      BY <1>1, <3>1
    <3> QED  BY <1>1, <2>2, <3>1, <3>2 DEF Promise!Item
  <2> QED  BY <2>1, <2>2
<1> QED  BY <1>3, <1>4, <1>5, <1>6

\* A step delivers the item that is due, if any (writer.go:255-317).
LEMMA DeliveredStep == ASSUME IInv, [Next]_vars PROVE Delivered'
<1>0. Delivered /\ Types /\ Placed /\ combined \in Seq(Seq(Byte)) /\ crc \in Seq(Byte)
      /\ Len(combined) \in Nat
  BY DEF IInv, Types, TypeOK
<1>a. ASSUME UNCHANGED <<dst, bwErr, combined, headerWritten>>,
             pc' \in {"return", "closed"} <=> pc \in {"return", "closed"}
      PROVE  Delivered'
  <2>1. Due' = Due
    BY <1>a DEF Due
  <2> QED  BY <1>0, <1>a, <2>1 DEF Delivered
<1>1. ASSUME NEW ch \in Byte, WriteByte(ch)
      PROVE  Delivered'
  BY <1>1, <1>a DEF WriteByte, FlushStart, streamVars, sinkVars
<1>2. CASE Close
  BY <1>2, <1>a DEF Close, FlushStart, streamVars, sinkVars
<1>3. CASE Reset
  <2>1. dst' = << >> /\ Due' = 0
    BY <1>3 DEF Reset, Due
  <2> QED  BY <2>1 DEF Delivered
<1>4. CASE WriteHeader
  <2> SUFFICES ASSUME ~bwErr'
               PROVE  /\ Len(dst') = Due'
                      /\ \A k \in 1..Due' : AsPromised(dst'[k]) = Promise!Item(combined', k)
    BY DEF Delivered
  <2>1. pc = "header" /\ Emit(HeaderItem) /\ headerWritten' = TRUE /\ pc' = "block"
        /\ combined' = combined
    BY <1>4 DEF WriteHeader
  <2>2. Due = 0 /\ Due' = 1 /\ combined = << >>
    BY <1>0, <2>1 DEF Due, Placed
  <2>3. Len(dst') = 1 /\ AsPromised(dst'[1]) = <<"header">>
    BY <1>0, <2>1, <2>2, ItemTypes, ItemsPromised, Placing
  <2>4. Promise!Item(combined, 1) = <<"header">>
    BY <1>0, StreamItems
  <2>5. \A k \in 1..1 : k = 1
    OBVIOUS
  <2> QED  BY <2>1, <2>2, <2>3, <2>4, <2>5
<1>5. CASE WriteBlock
  <2> SUFFICES ASSUME ~bwErr'
               PROVE  /\ Len(dst') = Due'
                      /\ \A k \in 1..Due' : AsPromised(dst'[k]) = Promise!Item(combined', k)
    BY DEF Delivered
  <2>1. pc = "block" /\ Emit(BlockItem) /\ headerWritten' = headerWritten /\ pc' = "check"
        /\ combined' = Append(combined, crc)
    BY <1>5 DEF WriteBlock, Folded
  <2>2. Due = Len(combined) + 1 /\ Due' = Len(combined) + 2
    BY <1>0, <2>1 DEF Due, Placed
  <2>3. /\ Len(dst') = Len(combined) + 2
        /\ AsPromised(dst'[Len(combined) + 2]) = <<"block", crc>>
        /\ \A k \in 1..Len(combined) + 1 : AsPromised(dst'[k]) = Promise!Item(combined, k)
    BY <1>0, <2>1, <2>2, ItemTypes, ItemsPromised, Placing
  <2>4. ASSUME NEW k \in 1..Len(combined) + 2
        PROVE  AsPromised(dst'[k]) = Promise!Item(combined', k)
    <3>1. k \in 1..Len(combined) + 1 \/ k = Len(combined) + 2
      BY <1>0
    <3> QED  BY <1>0, <2>1, <2>3, <3>1, StreamItems
  <2> QED  BY <2>2, <2>3, <2>4
<1>6. CASE NoBlock
  BY <1>6, <1>a DEF NoBlock, streamVars, sinkVars
<1>7. CASE AfterBlock
  BY <1>7, <1>a DEF AfterBlock, sinkVars
<1>8. CASE WriteTrailer
  <2> SUFFICES ASSUME ~bwErr'
               PROVE  /\ Len(dst') = Due'
                      /\ \A k \in 1..Due' : AsPromised(dst'[k]) = Promise!Item(combined', k)
    BY DEF Delivered
  <2>1. pc = "trailer" /\ Emit(TrailerItem) /\ pc' = "return"
        /\ combined' = combined
    BY <1>8 DEF WriteTrailer, streamVars
  <2>2. Due = Len(combined) + 1 /\ Due' = Len(combined) + 2
    BY <1>0, <2>1 DEF Due, Placed
  <2>3. /\ Len(dst') = Len(combined) + 2
        /\ AsPromised(dst'[Len(combined) + 2]) = <<"trailer", combined>>
        /\ \A k \in 1..Len(combined) + 1 : AsPromised(dst'[k]) = Promise!Item(combined, k)
    BY <1>0, <2>1, <2>2, ItemTypes, ItemsPromised, Placing
  <2>4. ASSUME NEW k \in 1..Len(combined) + 2
        PROVE  AsPromised(dst'[k]) = Promise!Item(combined', k)
    <3>1. k \in 1..Len(combined) + 1 \/ k = Len(combined) + 2
      BY <1>0
    <3> QED  BY <1>0, <2>1, <2>3, <3>1, StreamItems
  <2> QED  BY <2>2, <2>3, <2>4
<1>9. CASE CloseReturns
  BY <1>9, <1>a DEF CloseReturns, sinkVars
<1>10. CASE UNCHANGED vars
  BY <1>10, <1>a DEF vars, streamVars, sinkVars
<1> QED
  BY <1>1, <1>2, <1>3, <1>4, <1>5, <1>6, <1>7, <1>8, <1>9, <1>10 DEF Next, CompressBlock

-----------------------------------------------------------------------------
(* What a decoder makes of the block and of the destination. *)

\* addPairToBlock adds the run to what the block decodes to as it adds it to the
\* checksum (writer.go:194-229).
LEMMA PairDecodes ==
    ASSUME Types, BlockDecodes, RunBegins, AddPair
    PROVE  /\ UnRLE(block') = crc'
           /\ crc' = crc \o Repeat(inCh, inLen)
           /\ Scan(block').seen <= 3
           /\ Scan(block').seen > 0 => Scan(block').k0 \in Byte
           /\ IF inCh = NoCh THEN block' = block
              ELSE Scan(block').seen > 0 => Scan(block').k0 = inCh /\ inLen < 4
<1>0. /\ inCh \in 0..NoCh /\ inLen \in 0..MaxRun /\ (inCh = NoCh <=> inLen = 0)
      /\ block \in Seq(Byte) /\ crc \in Seq(Byte) /\ ByteTop \in Nat /\ MaxRun \in Nat
      /\ UnRLE(block) = crc
  BY RunAssumption DEF Types, TypeOK, BlockDecodes
<1>1. CASE inCh = NoCh
  <2>1. block' = block /\ crc' = crc /\ inLen = 0
    BY <1>0, <1>1 DEF AddPair
  <2>2. Repeat(inCh, inLen) = << >>
    BY <2>1, RepeatLonger
  <2>3. crc \o << >> = crc
    BY <1>0
  <2>4. Scan(block).k0 \in Byte
    BY <1>0, ScanType DEF States
  <2> QED  BY <1>0, <1>1, <2>1, <2>2, <2>3, <2>4 DEF RunBegins
<1>2. CASE inCh # NoCh
  <2> DEFINE longer == block \o RunCode(inCh, inLen)
  <2>1. inCh \in Byte /\ inLen \in 1..MaxRun
    BY <1>0, <1>2 DEF Byte, NoCh
  <2>2. block' = longer /\ crc' = crc \o Repeat(inCh, inLen)
    BY <1>2 DEF AddPair
  <2>3. longer \in Seq(Byte)
    <3>1. RunCode(inCh, inLen) \in Seq(Byte)
      BY <2>1, RunFacts
    <3> QED  BY <1>0, <3>1
  <2>4. /\ Settled(Scan(longer)) = Settled(Scan(block)) \o Repeat(inCh, inLen)
        /\ Scan(longer).seen <= 3
        /\ Scan(longer).seen > 0 => Scan(longer).k0 = inCh /\ inLen < 4
    BY <1>0, <2>1, RunScanned DEF RunBegins
  <2> HIDE DEF longer
  <2>5. UnRLE(longer) = Settled(Scan(longer)) /\ Settled(Scan(block)) = crc
    BY <1>0, <2>3, UnRLEIsSettled
  <2> QED  BY <1>2, <2>1, <2>2, <2>4, <2>5
<1> QED  BY <1>1, <1>2

\* A step keeps the block and its checksum in agreement (writer.go:121-253).
LEMMA DecodesStep == ASSUME IInv, [Next]_vars PROVE BlockDecodes' /\ RunBegins'
<1>0. /\ Types /\ BlockDecodes /\ RunBegins /\ Placed
      /\ MaxRun \in Nat /\ MaxRun >= 4 /\ ByteTop \in Nat /\ NoCh \notin Byte
  BY RunAssumption DEF IInv, Byte, NoCh
<1>a. ASSUME UnRLE(block') = crc', Scan(block').seen <= 3,
             Scan(block').seen > 0 => Scan(block').k0 # inCh',
             inCh' = NoCh => block' = << >> \/ isLast',
             isLast' => pc' # "idle" \/ err'
      PROVE  BlockDecodes' /\ RunBegins'
  <2>1. NoCh' = NoCh
    BY DEF NoCh
  <2>2. BlockDecodes'
    BY <1>a DEF BlockDecodes
  <2>3. RunBegins'
    BY <1>a, <2>1 DEF RunBegins
  <2> QED  BY <2>2, <2>3
<1>b. ASSUME UNCHANGED blockVars,
             inCh = NoCh => block = << >> \/ isLast',
             isLast' => pc' # "idle" \/ err'
      PROVE  BlockDecodes' /\ RunBegins'
  BY <1>0, <1>a, <1>b DEF blockVars, BlockDecodes, RunBegins
<1>1. ASSUME NEW ch \in Byte, WriteByte(ch)
      PROVE  BlockDecodes' /\ RunBegins'
  <2>1. pc = "idle" /\ ~err /\ ~isLast /\ isLast' = FALSE /\ AddChar(ch)
    BY <1>0, <1>1 DEF WriteByte, RunBegins
  <2>2. ch # NoCh
    BY <1>0
  <2>3. CASE Cuts(ch)
    <3>1. AddPair /\ inCh' = ch
      BY <2>1, <2>3 DEF AddChar
    <3>2. /\ UnRLE(block') = crc' /\ Scan(block').seen <= 3
          /\ IF inCh = NoCh THEN block' = block
             ELSE Scan(block').seen > 0 => Scan(block').k0 = inCh /\ inLen < 4
      BY <1>0, <3>1, PairDecodes
    <3>3. CASE inCh = NoCh
      <4>1. block' = << >>
        BY <1>0, <2>1, <3>2, <3>3 DEF RunBegins
      <4>2. Scan(block').seen = 0
        BY <4>1, ScanEmpty DEF UnRLEStart
      <4> QED  BY <1>a, <2>1, <2>2, <3>1, <3>2, <4>2
    <3>4. CASE inCh # NoCh
      <4>1. Scan(block').seen > 0 => Scan(block').k0 # ch
        BY <1>0, <2>3, <3>2, <3>4 DEF Cuts
      <4> QED  BY <1>a, <2>1, <2>2, <3>1, <3>2, <4>1
    <3> QED  BY <3>3, <3>4
  <2>4. CASE ~Cuts(ch)
    <3>1. UNCHANGED <<inCh, block, crc>> /\ inCh = ch
      BY <2>1, <2>4 DEF AddChar, Cuts
    <3> QED  BY <1>0, <1>a, <2>1, <2>2, <3>1 DEF BlockDecodes, RunBegins
  <2> QED  BY <2>3, <2>4
<1>2. CASE Close
  <2>1. AddPair /\ inCh' = NoCh /\ isLast' = TRUE /\ pc' # "idle"
    BY <1>2 DEF Close, FlushRL, FlushStart
  <2>2. /\ UnRLE(block') = crc' /\ Scan(block').seen <= 3
        /\ Scan(block').seen > 0 => Scan(block').k0 \in Byte
    BY <1>0, <2>1, PairDecodes
  <2> QED  BY <1>0, <1>a, <2>1, <2>2
<1>3. CASE Reset
  <2>1. block' = << >> /\ crc' = << >> /\ isLast' = FALSE
    BY <1>3 DEF Reset
  <2>2. UnRLE(block') = crc' /\ Scan(block').seen = 0
    BY <2>1, UnRLEEmpty, ScanEmpty DEF UnRLEStart
  <2> QED  BY <1>a, <2>1, <2>2
<1>4. CASE WriteHeader \/ WriteBlock \/ NoBlock \/ WriteTrailer \/ CloseReturns
  <2>1. UNCHANGED blockVars /\ isLast' = isLast /\ pc' # "idle"
    BY <1>4 DEF WriteHeader, WriteBlock, NoBlock, WriteTrailer, CloseReturns
  <2> QED  BY <1>0, <1>b, <2>1 DEF RunBegins
<1>5. CASE AfterBlock
  <2>1. CASE bwErr /\ err' = TRUE /\ UNCHANGED <<block, crc, inUse>>
    BY <1>0, <1>5, <1>b, <2>1 DEF AfterBlock, RunBegins, blockVars
  <2>2. CASE ~bwErr /\ isLast /\ pc' = "trailer" /\ UNCHANGED <<block, crc, inUse>>
    BY <1>0, <1>5, <1>b, <2>2 DEF AfterBlock, RunBegins, blockVars
  <2>3. CASE ~bwErr /\ ~isLast /\ block' = << >> /\ crc' = << >>
    <3>1. UnRLE(block') = crc' /\ Scan(block').seen = 0
      BY <2>3, UnRLEEmpty, ScanEmpty DEF UnRLEStart
    <3>2. isLast' = isLast
      BY <1>5 DEF AfterBlock
    <3> QED  BY <1>a, <2>3, <3>1, <3>2
  <2> QED  BY <1>5, <2>1, <2>2, <2>3 DEF AfterBlock
<1>6. CASE UNCHANGED vars
  BY <1>0, <1>6, <1>b DEF vars, streamVars, RunBegins
<1> QED  BY <1>1, <1>2, <1>3, <1>4, <1>5, <1>6 DEF Next, CompressBlock

\* A step goes on to the trailer for Close alone (writer.go:121-147, 255-321).
LEMMA EndingStep == ASSUME IInv, [Next]_vars PROVE Ending'
<1>0. Ending /\ BlockMax \in Nat \ {0}
  BY BlockAssumption DEF IInv
<1>1. ASSUME NEW ch \in Byte, WriteByte(ch)
      PROVE  Ending'
  <2>1. block' = << >> => ~Full
    BY <1>0 DEF Full
  <2>2. pc' \in {"header", "block", "idle"} /\ (~Full => pc' = "idle")
    BY <1>1 DEF WriteByte, FlushStart
  <2> QED  BY <2>1, <2>2 DEF Ending
<1>2. CASE Close
  BY <1>2 DEF Close, Ending
<1>3. CASE Reset
  BY <1>3 DEF Reset, Ending
<1>4. CASE WriteHeader
  BY <1>0, <1>4 DEF WriteHeader, Ending, blockVars
<1>5. CASE WriteBlock
  BY <1>0, <1>5 DEF WriteBlock, Ending, blockVars
<1>6. CASE NoBlock
  BY <1>0, <1>6 DEF NoBlock, Ending, blockVars
<1>7. CASE AfterBlock
  BY <1>0, <1>7 DEF AfterBlock, Ending
<1>8. CASE WriteTrailer
  BY <1>0, <1>8 DEF WriteTrailer, Ending, blockVars
<1>9. CASE CloseReturns
  BY <1>0, <1>9 DEF CloseReturns, Ending, blockVars
<1>10. CASE UNCHANGED vars
  BY <1>0, <1>10 DEF vars, Ending, blockVars
<1> QED
  BY <1>1, <1>2, <1>3, <1>4, <1>5, <1>6, <1>7, <1>8, <1>9, <1>10 DEF Next, CompressBlock

\* What an item, and the items of a destination, decode to.
DecodedItem(item) == IF item.kind = "block" THEN UnRLE(item.bytes) ELSE << >>
DecodedOf(items) == FlattenSeq([i \in DOMAIN items |-> DecodedItem(items[i])])

\* An item more adds its data at the end.
LEMMA DecodedAppend ==
    ASSUME NEW items \in Seq(Items), NEW item \in Items
    PROVE  /\ DecodedOf(Append(items, item)) = DecodedOf(items) \o DecodedItem(item)
           /\ DecodedOf(items) \in Seq(Byte) /\ DecodedItem(item) \in Seq(Byte)
<1> DEFINE data == [i \in DOMAIN items |-> DecodedItem(items[i])]
           more == [i \in DOMAIN Append(items, item) |-> DecodedItem(Append(items, item)[i])]
<1>1. ASSUME NEW x \in Items PROVE DecodedItem(x) \in Seq(Byte)
  <2>1. CASE x.kind = "block"
    <3>1. x.bytes \in Seq(Byte)
      BY <2>1 DEF Items
    <3> QED  BY <2>1, <3>1, UnRLEIsSettled DEF DecodedItem
  <2>2. CASE x.kind # "block"
    BY <2>2 DEF DecodedItem
  <2> QED  BY <2>1, <2>2
<1>2. Len(items) \in Nat /\ DOMAIN items = 1..Len(items)
      /\ \A k \in 1..Len(items) : items[k] \in Items
  OBVIOUS
<1>3. Append(items, item) \in Seq(Items) /\ Len(Append(items, item)) = Len(items) + 1
      /\ DOMAIN Append(items, item) = 1..Len(items) + 1
      /\ Append(items, item)[Len(items) + 1] = item
      /\ \A k \in 1..Len(items) : Append(items, item)[k] = items[k]
  OBVIOUS
<1>4. data \in Seq(Seq(Byte)) /\ Len(data) = Len(items)
  <2>1. data \in [1..Len(items) -> Seq(Byte)]
    BY <1>1, <1>2
  <2> QED  BY <1>2, <2>1
<1>5. more \in Seq(Seq(Byte)) /\ Len(more) = Len(items) + 1
  <2>1. more \in [1..Len(items) + 1 -> Seq(Byte)]
    BY <1>1, <1>2, <1>3
  <2> QED  BY <1>2, <2>1
<1>6. DecodedItem(item) \in Seq(Byte)
  BY <1>1
<1>7. \A k \in 1..Len(items) : data[k] = DecodedItem(items[k])
  BY <1>2
<1>8. \A k \in 1..Len(items) + 1 : more[k] = DecodedItem(Append(items, item)[k])
  BY <1>3
<1>9. DecodedOf(items) = FlattenSeq(data) /\ DecodedOf(Append(items, item)) = FlattenSeq(more)
  BY DEF DecodedOf
<1> HIDE DEF data, more
<1>10. more = Append(data, DecodedItem(item))
  <2> DEFINE last == DecodedItem(item)
  <2>1. Append(data, last) \in Seq(Seq(Byte)) /\ Len(Append(data, last)) = Len(items) + 1
    BY <1>4, <1>6
  <2>2. ASSUME NEW k \in 1..Len(items) + 1
        PROVE  more[k] = Append(data, last)[k]
    <3>1. CASE k = Len(items) + 1
      <4>1. more[k] = last
        BY <1>2, <1>3, <1>8, <3>1
      <4>2. Append(data, last)[Len(data) + 1] = last
        <5> HIDE DEF last
        <5> QED  BY <1>4
      <4> HIDE DEF last
      <4> QED  BY <1>4, <3>1, <4>1, <4>2
    <3>2. CASE k # Len(items) + 1
      <4>1. k \in 1..Len(items)
        BY <1>2, <3>2
      <4>2. more[k] = data[k]
        BY <1>3, <1>7, <1>8, <4>1
      <4>3. Append(data, last)[k] = data[k]
        <5> HIDE DEF last
        <5> QED  BY <1>4, <4>1
      <4> QED  BY <4>2, <4>3
    <3> QED  BY <3>1, <3>2
  <2> HIDE DEF last
  <2> QED  BY <1>5, <2>1, <2>2, SeqEqual DEF last
<1>11. FlattenSeq(Append(data, DecodedItem(item))) = FlattenSeq(data) \o DecodedItem(item)
  BY <1>4, <1>6, FlattenAppend
<1>12. FlattenSeq(data) \in Seq(Byte)
  BY <1>4, FlattenType
<1> QED  BY <1>6, <1>9, <1>10, <1>11, <1>12

\* The parts of what was written: delivered, in the block, in the run.
Waiting == IF Unfolded THEN crc ELSE << >>
Pending == IF isLast THEN << >> ELSE Repeat(inCh, inLen)

\* A step leaves every byte in one of them, in order (writer.go:121-317).
LEMMA NothingLostStep == ASSUME IInv, [Next]_vars PROVE NothingLost'
<1>0. /\ Types /\ Placed /\ BlockDecodes /\ RunBegins /\ NothingLost
      /\ crc \in Seq(Byte) /\ block \in Seq(Byte) /\ dst \in Seq(Items)
      /\ UnRLE(block) = crc
  BY DEF IInv, Types, TypeOK, BlockDecodes
<1>1. /\ DecodedOf(dst) \in Seq(Byte)
      /\ NothingLost <=> (~bwErr => (DecodedOf(dst) \o Waiting) \o Pending = input)
  <2>1. DecodedOf(dst) \in Seq(Byte)
    BY <1>0, ItemTypes, DecodedAppend
  <2> QED  BY <2>1 DEF NothingLost, Decoded, DecodedOf, DecodedItem, Waiting, Pending
<1>2. NothingLost' <=> (~bwErr' => (DecodedOf(dst') \o Waiting') \o Pending' = input')
  BY DEF NothingLost, Decoded, DecodedOf, DecodedItem, Waiting, Pending
<1>a. ASSUME UNCHANGED <<bwErr, dst, input>>, ~bwErr => Waiting' = Waiting /\ Pending' = Pending
      PROVE  NothingLost'
  BY <1>0, <1>1, <1>2, <1>a
<1>b. ASSUME NEW item \in Items, Emit(item), UNCHANGED input,
             ~bwErr => DecodedItem(item) \o Waiting' = Waiting /\ Pending' = Pending,
             Waiting' \in Seq(Byte)
      PROVE  NothingLost'
  <2> SUFFICES ASSUME ~bwErr' PROVE (DecodedOf(dst') \o Waiting') \o Pending' = input'
    BY <1>2
  <2>1. ~bwErr /\ dst' = Append(dst, item)
    BY <1>0, <1>b, EmitFacts
  <2>2. DecodedOf(Append(dst, item)) = DecodedOf(dst) \o DecodedItem(item)
        /\ DecodedItem(item) \in Seq(Byte)
    BY <1>0, DecodedAppend
  <2>3. (DecodedOf(dst) \o DecodedItem(item)) \o Waiting'
        = DecodedOf(dst) \o (DecodedItem(item) \o Waiting')
    BY <1>1, <1>b, <2>2, ConcatAssociative
  <2> QED  BY <1>0, <1>1, <1>b, <2>1, <2>2, <2>3
<1>3. ASSUME NEW ch \in Byte, WriteByte(ch)
      PROVE  NothingLost'
  <2>0. /\ pc = "idle" /\ ~err /\ ~isLast /\ isLast' = FALSE /\ input' = Append(input, ch)
        /\ AddChar(ch) /\ UNCHANGED <<bwErr, dst>>
    BY <1>0, <1>3 DEF WriteByte, RunBegins, sinkVars
  <2>1. Waiting = crc /\ Waiting' = crc' /\ Pending = Repeat(inCh, inLen)
        /\ Pending' = Repeat(inCh', inLen')
    BY <1>3, <2>0 DEF WriteByte, FlushStart, Waiting, Pending, Unfolded, streamVars
  <2>2. inLen \in Nat /\ inCh \in 0..NoCh /\ (inCh = NoCh <=> inLen = 0)
    BY <1>0, RunAssumption DEF Types, TypeOK
  <2> DEFINE done == DecodedOf(dst)
             run == Repeat(inCh, inLen)
  <2>3. run \in Seq(Byte)
    <3>1. CASE inCh = NoCh
      <4>1. run = << >>
        BY <2>2, <3>1, RepeatLonger
      <4> HIDE DEF run
      <4> QED  BY <4>1
    <3>2. CASE inCh # NoCh
      BY <2>2, <3>2, RepeatType, RunAssumption DEF Byte, NoCh
    <3> QED  BY <3>1, <3>2
  <2> SUFFICES ASSUME ~bwErr PROVE (done \o crc') \o Repeat(inCh', inLen') = Append(input, ch)
    BY <1>2, <2>0, <2>1
  <2>4. (done \o crc) \o run = input /\ done \in Seq(Byte)
    BY <1>0, <1>1, <2>1
  <2>5. CASE Cuts(ch)
    <3>1. AddPair /\ inCh' = ch /\ inLen' = 1
      BY <2>0, <2>5 DEF AddChar
    <3>2. crc' = crc \o run
      BY <1>0, <3>1, PairDecodes
    <3>3. Repeat(inCh', inLen') = << ch >>
      BY <3>1, RepeatLonger
    <3> HIDE DEF done, run
    <3>4. done \o (crc \o run) = (done \o crc) \o run
      <4>1. done \in Seq(Byte) /\ crc \in Seq(Byte) /\ run \in Seq(Byte)
        BY <1>0, <2>3, <2>4
      <4> QED  BY <4>1, ConcatAssociative
    <3>5. input \o << ch >> = Append(input, ch)
      BY <1>0 DEF Types, TypeOK
    <3> QED  BY <2>4, <3>2, <3>3, <3>4, <3>5
  <2>6. CASE ~Cuts(ch)
    <3>1. inLen' = inLen + 1 /\ inCh' = inCh /\ crc' = crc /\ inCh = ch
      BY <2>0, <2>6 DEF AddChar, Cuts
    <3>2. Repeat(inCh', inLen') = Append(run, ch)
      BY <2>2, <3>1, RepeatLonger
    <3>3. done \o crc \in Seq(Byte)
      BY <1>0, <2>4
    <3> HIDE DEF done, run
    <3>4. (done \o crc) \o Append(run, ch) = Append((done \o crc) \o run, ch)
      BY <2>3, <3>3, AppendLast
    <3> QED  BY <2>4, <3>1, <3>2, <3>4
  <2> QED  BY <2>5, <2>6
<1>4. CASE Close
  <2>0. /\ pc = "idle" /\ ~err /\ ~isLast /\ isLast' = TRUE /\ AddPair
        /\ UNCHANGED <<bwErr, dst, input>>
    BY <1>0, <1>4 DEF Close, FlushRL, RunBegins, sinkVars
  <2>1. Waiting = crc /\ Waiting' = crc' /\ Pending = Repeat(inCh, inLen) /\ Pending' = << >>
    BY <1>4, <2>0 DEF Close, FlushStart, Waiting, Pending, Unfolded, streamVars
  <2>2. inLen \in Nat /\ inCh \in 0..NoCh /\ (inCh = NoCh <=> inLen = 0)
    BY <1>0, RunAssumption DEF Types, TypeOK
  <2> DEFINE done == DecodedOf(dst)
             run == Repeat(inCh, inLen)
  <2>3. run \in Seq(Byte)
    <3>1. CASE inCh = NoCh
      <4>1. run = << >>
        BY <2>2, <3>1, RepeatLonger
      <4> HIDE DEF run
      <4> QED  BY <4>1
    <3>2. CASE inCh # NoCh
      BY <2>2, <3>2, RepeatType, RunAssumption DEF Byte, NoCh
    <3> QED  BY <3>1, <3>2
  <2>4. crc' = crc \o run
    BY <1>0, <2>0, PairDecodes
  <2>5. done \in Seq(Byte) /\ (~bwErr => (done \o crc) \o run = input)
    BY <1>0, <1>1, <2>1
  <2>6. NothingLost' <=> (~bwErr => (done \o (crc \o run)) \o << >> = input)
    BY <1>2, <2>0, <2>1, <2>4
  <2> HIDE DEF done, run
  <2>7. done \o (crc \o run) = (done \o crc) \o run
    BY <1>0, <2>3, <2>5, ConcatAssociative
  <2>8. input \o << >> = input
    BY <1>0 DEF Types, TypeOK
  <2> QED  BY <2>5, <2>6, <2>7, <2>8
<1>5. CASE Reset
  <2>1. /\ dst' = << >> /\ crc' = << >> /\ inLen' = 0 /\ input' = << >>
    BY <1>5 DEF Reset
  <2>2. DecodedOf(<< >>) = << >>
    <3>1. [i \in DOMAIN << >> |-> DecodedItem(<< >>[i])] = << >>
      OBVIOUS
    <3> QED  BY <3>1, FlattenEmpty DEF DecodedOf
  <2>3. Waiting' = << >>
    BY <2>1 DEF Waiting
  <2>4. Repeat(inCh', 0) = << >>
    BY RepeatLonger
  <2>5. Pending' = << >>
    BY <2>1, <2>4 DEF Pending
  <2>6. (<< >> \o << >>) \o << >> = << >>
    OBVIOUS
  <2> QED  BY <1>2, <2>1, <2>2, <2>3, <2>5, <2>6
<1>6. CASE WriteHeader
  <2>1. UNCHANGED <<crc, inCh, inLen, err, isLast, input>> /\ pc = "header" /\ pc' = "block"
        /\ Emit(HeaderItem)
    BY <1>6 DEF WriteHeader, blockVars
  <2>2. Waiting' = Waiting /\ Pending' = Pending
    BY <2>1 DEF Waiting, Pending, Unfolded
  <2>3. Waiting \in Seq(Byte)
    BY <1>0 DEF Waiting
  <2>4. DecodedItem(HeaderItem) = << >>
    BY DEF DecodedItem, HeaderItem
  <2>5. << >> \o Waiting = Waiting
    BY <2>3
  <2> QED  BY <1>0, <1>b, <2>1, <2>2, <2>3, <2>4, <2>5, ItemTypes
<1>7. CASE WriteBlock
  <2>1. UNCHANGED <<inCh, inLen, isLast, input>> /\ pc = "block" /\ pc' = "check"
        /\ Emit(BlockItem)
    BY <1>7 DEF WriteBlock, blockVars
  <2>2. Waiting' = << >> /\ Pending' = Pending
    BY <2>1 DEF Waiting, Pending, Unfolded
  <2>3. Waiting = crc
    BY <1>0, <2>1 DEF Waiting, Unfolded, Placed
  <2>4. DecodedItem(BlockItem) = crc
    BY <1>0 DEF DecodedItem, BlockItem
  <2>5. crc \o << >> = crc /\ << >> \in Seq(Byte)
    BY <1>0
  <2> QED  BY <1>0, <1>b, <2>1, <2>2, <2>3, <2>4, <2>5, ItemTypes
<1>8. CASE NoBlock
  <2>1. UNCHANGED <<crc, inCh, inLen, err, isLast, input, bwErr, dst>>
        /\ block = << >> /\ pc' = "trailer"
    BY <1>8 DEF NoBlock, blockVars, streamVars, sinkVars
  <2>2. crc = << >>
    BY <1>0, <2>1, UnRLEEmpty
  <2>3. Waiting = << >> /\ Waiting' = << >> /\ Pending' = Pending
    BY <2>1, <2>2 DEF Waiting, Pending, Unfolded
  <2> QED  BY <1>a, <2>1, <2>3
<1>9. CASE AfterBlock
  <2>1. UNCHANGED <<inCh, inLen, isLast, input, bwErr, dst>> /\ pc = "check"
    BY <1>9 DEF AfterBlock, sinkVars
  <2>2. Pending' = Pending
    BY <2>1 DEF Pending
  <2>3. ~bwErr => pc' = "trailer" \/ crc' = << >>
    BY <1>9 DEF AfterBlock
  <2>4. ~bwErr => Waiting' = Waiting
    BY <2>1, <2>3 DEF Waiting, Unfolded
  <2> QED  BY <1>a, <2>1, <2>2, <2>4
<1>10. CASE WriteTrailer
  <2>1. UNCHANGED <<crc, inCh, inLen, err, isLast, input>> /\ pc = "trailer" /\ pc' = "return"
        /\ Emit(TrailerItem)
    BY <1>10 DEF WriteTrailer, blockVars, streamVars
  <2>2. Waiting = << >> /\ Waiting' = << >> /\ Pending' = Pending
    BY <2>1 DEF Waiting, Pending, Unfolded
  <2>3. DecodedItem(TrailerItem) = << >>
    BY DEF DecodedItem, TrailerItem
  <2>4. << >> \o << >> = << >> /\ << >> \in Seq(Byte)
    OBVIOUS
  <2> QED  BY <1>0, <1>b, <2>1, <2>2, <2>3, <2>4, ItemTypes
<1>11. CASE CloseReturns
  <2>1. UNCHANGED <<inCh, inLen, isLast, input, bwErr, dst>> /\ pc = "return" /\ pc' = "closed"
    BY <1>11 DEF CloseReturns, blockVars, sinkVars
  <2>2. Waiting = << >> /\ Waiting' = << >> /\ Pending' = Pending
    BY <2>1 DEF Waiting, Pending, Unfolded
  <2> QED  BY <1>a, <2>1, <2>2
<1>12. CASE UNCHANGED vars
  <2>1. UNCHANGED <<crc, inCh, inLen, err, isLast, input, bwErr, dst, pc>>
    BY <1>12 DEF vars, blockVars, streamVars, sinkVars
  <2>2. Waiting' = Waiting /\ Pending' = Pending
    BY <2>1 DEF Waiting, Pending, Unfolded
  <2> QED  BY <1>a, <2>1, <2>2
<1> QED
  BY <1>3, <1>4, <1>5, <1>6, <1>7, <1>8, <1>9, <1>10, <1>11, <1>12 DEF Next, CompressBlock

-----------------------------------------------------------------------------
(* The invariant, and what follows from it. *)

\* The new Writer satisfies it.
LEMMA InitInv == Init => IInv
<1> SUFFICES ASSUME Init PROVE IInv
  OBVIOUS
<1>1. BlockTypes
  BY EmptyBlock DEF Init, BlockTypes
<1>2. StreamTypes
  <2>1. /\ combined \in Seq(Seq(Byte)) /\ dst \in Seq(Items) /\ input \in Seq(Byte)
        /\ pc = "idle"
    BY DEF Init
  <2>2. headerWritten \in BOOLEAN /\ bwErr \in BOOLEAN /\ err \in BOOLEAN
        /\ isLast \in BOOLEAN
    BY DEF Init
  <2> QED  BY <2>1, <2>2 DEF StreamTypes
<1>3. Delivered
  <2>1. dst = << >> /\ Due = 0
    BY DEF Init, Due
  <2> QED  BY <2>1 DEF Delivered
<1>4. Placed
  BY DEF Init, Placed
<1>5. Room
  BY EmptyBlock, BlockAssumption DEF Init, Room
<1>6. RunBegins /\ BlockDecodes
  <2>1. block = << >> /\ crc = << >> /\ isLast = FALSE
    BY DEF Init
  <2> QED  BY <2>1, UnRLEEmpty, ScanEmpty DEF RunBegins, BlockDecodes, UnRLEStart
<1>7. NothingLost
  <2>1. /\ dst = << >> /\ crc = << >> /\ inLen = 0 /\ input = << >>
    BY DEF Init
  <2>2. Decoded = << >>
    <3>1. [i \in DOMAIN dst |-> IF dst[i].kind = "block" THEN UnRLE(dst[i].bytes) ELSE << >>]
          = << >>
      BY <2>1
    <3> QED  BY <3>1, FlattenEmpty DEF Decoded
  <2>3. Repeat(inCh, 0) = << >>
    BY RepeatLonger
  <2>4. (<< >> \o << >>) \o << >> = << >>
    OBVIOUS
  <2> QED  BY <2>1, <2>2, <2>3, <2>4 DEF NothingLost
<1>8. Ending
  BY DEF Init, Ending
<1> QED  BY <1>1, <1>2, <1>3, <1>4, <1>5, <1>6, <1>7, <1>8, SplitTypes DEF IInv

\* Every step keeps it.
LEMMA NextInv == IInv /\ [Next]_vars => IInv'
<1> SUFFICES ASSUME IInv, [Next]_vars PROVE IInv'
  OBVIOUS
<1> QED
  BY TypesStep, PlacedStep, RoomStep, DeliveredStep, DecodesStep, EndingStep,
     NothingLostStep DEF IInv

\* The inductive invariant holds throughout.
THEOREM Invariance == Spec => []IInv
<1> QED  BY InitInv, NextInv, PTL DEF Spec

\* Run, block, checksum and the rest of the Writer's state are what their types say: in
\* particular the count that codes a long run is always a byte (writer.go:29-67, 194-229).
THEOREM TypeCorrect == Spec => []TypeOK
<1>1. IInv => TypeOK
  BY DEF IInv, Types
<1> QED  BY <1>1, Invariance, PTL

\* The bytes marked as used are those of the block, the counts of long runs among them,
\* for any run limit and block size (writer.go:178, 200, 228, 298-304).
THEOREM AlphabetIsExact == Spec => []AlphabetExact
<1>1. IInv => AlphabetExact
  BY DEF IInv
<1> QED  BY <1>1, Invariance, PTL

\* No block outgrows the reader's limit, whatever run is flushed into it by Close, as long
\* as the margin is four bytes; the code has 19 (writer.go:129, reader.go:400, 410).
THEOREM BlocksFit == Spec => []BlockFits
<1>1. ASSUME IInv PROVE BlockFits
  <2>1. Len(block) \in Nat /\ Len(block) <= BlockMax + 4
    BY <1>1 DEF IInv, Room, Types, TypeOK
  <2>2. Margin \in Nat /\ Margin >= 4 /\ BlockMax \in Nat
    BY BlockAssumption
  <2> QED  BY <2>1, <2>2 DEF BlockFits
<1> QED  BY <1>1, Invariance, PTL

\* What a decoder makes of the block is what its checksum was computed over: at every
\* moment of a run, across blocks and after Close has put the last run in, for any run
\* limit the count of a run can express (writer.go:171-248, reader.go:494-556).
THEOREM BlocksDecode == Spec => []BlockDecodes
<1>1. IInv => BlockDecodes
  BY DEF IInv
<1> QED  BY <1>1, Invariance, PTL

\* Unless the destination failed, the bytes written are, once each and in order, in the
\* delivered blocks, the current block and the run not yet in it (writer.go:121-147,
\* 250-264).
THEOREM AllIsThere == Spec => []NothingLost
<1>1. IInv => NothingLost
  BY DEF IInv
<1> QED  BY <1>1, Invariance, PTL

\* When Close has returned no error, what a decoder finds in the destination is all that
\* was written (writer.go:121-147, 255-321).
THEOREM ClosedIsComplete == Spec => [](pc = "closed" /\ ~err => Decoded = input)
<1>1. IInv => (pc = "closed" /\ ~err => Decoded = input)
  <2> SUFFICES ASSUME IInv, pc = "closed", ~err PROVE Decoded = input
    OBVIOUS
  <2>1. /\ Types /\ Placed /\ NothingLost /\ Ending /\ dst \in Seq(Items)
    BY DEF IInv, Types
  <2>2. ~bwErr /\ isLast /\ ~Unfolded
    BY <2>1 DEF Placed, Ending, Unfolded
  <2>3. Decoded \in Seq(Byte)
    <3>1. DecodedOf(dst) \in Seq(Byte)
      BY <2>1, ItemTypes, DecodedAppend
    <3> QED  BY <3>1 DEF Decoded, DecodedOf, DecodedItem
  <2>4. (Decoded \o << >>) \o << >> = input
    BY <2>1, <2>2 DEF NothingLost
  <2> HIDE DEF Decoded
  <2> QED  BY <2>3, <2>4
<1> QED  BY <1>1, Invariance, PTL

-----------------------------------------------------------------------------
(* The Writer implements Bzip2Stream. *)

\* What the variables of the promise are to the Writer.
Sealed == IF Unfolded /\ pc # "idle" /\ block # << >> THEN Append(combined, crc) ELSE combined
Sink == IF bwErr THEN "failed" ELSE "ok"
Phase == IF pc \in {"trailer", "return", "closed"} THEN "closing" ELSE "open"
Result == IF err THEN "error" ELSE IF pc = "closed" THEN "ok" ELSE "none"

\* The promise's steps in these terms.
LEMMA PromisedSteps ==
    /\ Promise!Init <=>
          Sealed = << >> /\ Mapped(dst) = << >> /\ Sink = "ok" /\ Phase = "open"
          /\ Result = "none"
    /\ Promise!Seal <=>
          /\ Phase = "open" /\ Result = "none"
          /\ Len(Sealed') = Len(Sealed) + 1
          /\ Sealed' = Append(Sealed, Sealed'[Len(Sealed) + 1])
          /\ Sealed'[Len(Sealed) + 1] \in Seq(Byte)
          /\ UNCHANGED <<Mapped(dst), Sink, Phase, Result>>
    /\ Promise!Deliver <=>
          /\ Sink = "ok" /\ Result = "none"
          /\ Len(Mapped(dst)) <= Len(Sealed) + (IF Phase = "closing" THEN 1 ELSE 0)
          /\ Mapped(dst)' = Append(Mapped(dst), Promise!Item(Sealed, Len(Mapped(dst)) + 1))
          /\ UNCHANGED <<Sealed, Sink, Phase, Result>>
    /\ Promise!Fail <=>
          Sink = "ok" /\ Sink' = "failed" /\ UNCHANGED <<Sealed, Mapped(dst), Phase, Result>>
    /\ Promise!Shut <=>
          /\ Phase = "open" /\ Phase' = "closing"
          /\ UNCHANGED <<Sealed, Mapped(dst), Sink, Result>>
    /\ Promise!Finish <=>
          /\ Result = "none"
          /\ \/ /\ Phase = "closing" /\ Sink = "ok"
                /\ Mapped(dst) = Promise!Stream(Sealed) /\ Result' = "ok"
             \/ Sink = "failed" /\ Result' = "error"
          /\ UNCHANGED <<Sealed, Mapped(dst), Sink, Phase>>
    /\ Promise!Restart <=>
          Sealed' = << >> /\ Mapped(dst)' = << >> /\ Sink' = "ok" /\ Phase' = "open"
          /\ Result' = "none"
    /\ UNCHANGED Promise!streamVars <=>
          UNCHANGED <<Sealed, Mapped(dst), Sink, Phase, Result>>
  BY DEF Sealed, Mapped, AsPromised, Sink, Phase, Result, Promise!Init, Promise!Seal,
         Promise!Deliver, Promise!Fail, Promise!Shut, Promise!Finish, Promise!Restart,
         Promise!streamVars

\* Blocks are sealed whole.
LEMMA SealedTypes ==
    ASSUME Types
    PROVE  /\ Sealed \in Seq(Seq(Byte)) /\ Len(Sealed) \in Nat
           /\ crc \in Seq(Byte) /\ combined \in Seq(Seq(Byte)) /\ Len(combined) \in Nat
  BY DEF Sealed, Types, TypeOK

\* An item that is due goes out, or the destination fails (writer.go:266-311).
LEMMA EmitRefines ==
    ASSUME Types, NEW item \in Items, Emit(item),
           UNCHANGED <<Sealed, Phase, Result>>, Result = "none",
           ~bwErr => /\ Len(dst) <= Len(Sealed) + (IF Phase = "closing" THEN 1 ELSE 0)
                     /\ AsPromised(item) = Promise!Item(Sealed, Len(dst) + 1)
    PROVE  [Promise!Next]_(Promise!streamVars)
<1>0. dst \in Seq(Items)
  BY DEF Types
<1>1. CASE ~bwErr'
  <2>1. ~bwErr /\ dst' = Append(dst, item)
    BY <1>1, EmitFacts
  <2>2. Mapped(dst)' = Append(Mapped(dst), AsPromised(item)) /\ Len(Mapped(dst)) = Len(dst)
    <3>1. Mapped(dst') = Append(Mapped(dst), AsPromised(item)) /\ Len(Mapped(dst)) = Len(dst)
      BY <1>0, <2>1, MappedAppend
    <3> QED  BY <3>1 DEF Mapped, AsPromised
  <2>3. Sink = "ok" /\ Sink' = "ok"
    BY <1>1, <2>1 DEF Sink
  <2>4. Promise!Deliver
    BY <2>1, <2>2, <2>3, PromisedSteps
  <2> QED  BY <2>4 DEF Promise!Next
<1>2. CASE bwErr'
  <2>1. dst' = dst
    BY <1>2, EmitFacts
  <2>2. Mapped(dst)' = Mapped(dst)
    BY <2>1 DEF Mapped, AsPromised
  <2>3. CASE bwErr
    <3>1. Sink' = Sink
      BY <1>2, <2>3 DEF Sink
    <3>2. UNCHANGED Promise!streamVars
      BY <2>2, <3>1, PromisedSteps
    <3> QED  BY <3>2
  <2>4. CASE ~bwErr
    <3>1. Sink = "ok" /\ Sink' = "failed"
      BY <1>2, <2>4 DEF Sink
    <3>2. Promise!Fail
      BY <2>2, <3>1, PromisedSteps
    <3> QED  BY <3>2 DEF Promise!Next
  <2> QED  BY <2>3, <2>4
<1> QED  BY <1>1, <1>2

\* The caller's data fills a block, or does not yet (writer.go:121-147).
LEMMA SealRefines ==
    ASSUME Types, Types', pc = "idle", ~err, ~err', pc' \in {"idle", "header", "block"},
           UNCHANGED <<combined, dst, bwErr>>
    PROVE  [Promise!Next]_(Promise!streamVars)
<1>1. Sealed = combined /\ Phase = "open" /\ Phase' = "open" /\ Result = "none"
      /\ Result' = "none"
  BY DEF Sealed, Phase, Result
<1>2. UNCHANGED <<Mapped(dst), Sink>>
  BY DEF Mapped, AsPromised, Sink
<1>3. crc' \in Seq(Byte) /\ combined \in Seq(Seq(Byte)) /\ Len(combined) \in Nat
  BY SealedTypes DEF Types, TypeOK, Byte
<1>4. CASE pc' # "idle" /\ block' # << >>
  <2>1. Sealed' = Append(combined, crc')
    BY <1>4 DEF Sealed, Unfolded
  <2>2. Len(Sealed') = Len(Sealed) + 1 /\ Sealed'[Len(Sealed) + 1] = crc'
    BY <1>1, <1>3, <2>1
  <2>3. Promise!Seal
    BY <1>1, <1>2, <1>3, <2>1, <2>2, PromisedSteps
  <2> QED  BY <2>3 DEF Promise!Next
<1>5. CASE ~(pc' # "idle" /\ block' # << >>)
  <2>1. Sealed' = combined
    BY <1>5 DEF Sealed
  <2>2. UNCHANGED Promise!streamVars
    BY <1>1, <1>2, <2>1, PromisedSteps
  <2> QED  BY <2>2
<1> QED  BY <1>4, <1>5

\* At the trailer nothing is missing (writer.go:298-311).
LEMMA WholeStream ==
    ASSUME Types, Delivered, pc \in {"return", "closed"}, ~bwErr
    PROVE  Mapped(dst) = Promise!Stream(combined)
<1>1. Len(combined) \in Nat /\ dst \in Seq(Items)
  BY SealedTypes DEF Types
<1>2. Len(dst) = Len(combined) + 2
      /\ \A k \in 1..Len(combined) + 2 : AsPromised(dst[k]) = Promise!Item(combined, k)
  BY DEF Delivered, Due
<1>3. DOMAIN dst = 1..Len(combined) + 2
  BY <1>1, <1>2
<1> QED  BY <1>2, <1>3 DEF Mapped, Promise!Stream

\* A new Writer has promised nothing yet (writer.go:76-118).
LEMMA InitRefines == Init => Promise!Init
<1> SUFFICES ASSUME Init PROVE Promise!Init
  OBVIOUS
<1>1. Sealed = << >> /\ Sink = "ok" /\ Phase = "open" /\ Result = "none"
  BY DEF Init, Sealed, Sink, Phase, Result
<1>2. Mapped(dst) = << >>
  BY DEF Init, Mapped
<1> QED  BY <1>1, <1>2, PromisedSteps

\* Every step of the Writer is one of the promise, or none (writer.go:121-317).
LEMMA StepRefines ==
    ASSUME IInv, [Next]_vars PROVE [Promise!Next]_(Promise!streamVars)
<1>0. Types /\ Types' /\ Delivered /\ Placed
  BY TypesStep DEF IInv
<1>a. ASSUME UNCHANGED <<Sealed, dst, bwErr, Phase, Result>>
      PROVE  [Promise!Next]_(Promise!streamVars)
  <2>1. UNCHANGED <<Mapped(dst), Sink>>
    BY <1>a DEF Mapped, AsPromised, Sink
  <2>2. UNCHANGED Promise!streamVars
    BY <1>a, <2>1, PromisedSteps
  <2> QED  BY <2>2
<1>b. ASSUME UNCHANGED <<Sealed, dst, bwErr, Result>>, Phase = "open", Phase' = "closing"
      PROVE  [Promise!Next]_(Promise!streamVars)
  <2>1. UNCHANGED <<Mapped(dst), Sink>>
    BY <1>b DEF Mapped, AsPromised, Sink
  <2>2. Promise!Shut
    BY <1>b, <2>1, PromisedSteps
  <2> QED  BY <2>2 DEF Promise!Next
<1>1. ASSUME NEW ch \in Byte, WriteByte(ch)
      PROVE  [Promise!Next]_(Promise!streamVars)
  <2>1. pc = "idle" /\ ~err /\ ~err' /\ pc' \in {"idle", "header", "block"}
        /\ UNCHANGED <<combined, dst, bwErr>>
    BY <1>1 DEF WriteByte, FlushStart, streamVars, sinkVars
  <2> QED  BY <1>0, <2>1, SealRefines
<1>2. CASE Close
  <2>1. pc = "idle" /\ ~err /\ ~err' /\ pc' \in {"idle", "header", "block"}
        /\ UNCHANGED <<combined, dst, bwErr>>
    BY <1>2 DEF Close, FlushStart, streamVars, sinkVars
  <2> QED  BY <1>0, <2>1, SealRefines
<1>3. CASE Reset
  <2>1. Sealed' = << >> /\ Sink' = "ok" /\ Phase' = "open" /\ Result' = "none"
    BY <1>3 DEF Reset, Sealed, Sink, Phase, Result
  <2>2. Mapped(dst)' = << >>
    BY <1>3 DEF Reset, Mapped
  <2>3. Promise!Restart
    BY <2>1, <2>2, PromisedSteps
  <2> QED  BY <2>3 DEF Promise!Next
<1>4. CASE WriteHeader
  <2>1. pc = "header" /\ Emit(HeaderItem) /\ pc' = "block" /\ ~err /\ ~err'
        /\ UNCHANGED <<block, crc, combined>>
    BY <1>0, <1>4 DEF WriteHeader, Placed, blockVars
  <2>2. UNCHANGED <<Sealed, Phase, Result>> /\ Result = "none"
    BY <2>1 DEF Sealed, Unfolded, Phase, Result
  <2>3. ~bwErr => Len(dst) = 0
    BY <1>0, <2>1 DEF Delivered, Due, Placed
  <2>4. Promise!Item(Sealed, 1) = AsPromised(HeaderItem)
    BY <1>0, ItemsPromised, SealedTypes, StreamItems
  <2>5. ~bwErr => /\ Len(dst) <= Len(Sealed) + (IF Phase = "closing" THEN 1 ELSE 0)
                  /\ AsPromised(HeaderItem) = Promise!Item(Sealed, Len(dst) + 1)
    BY <1>0, <2>3, <2>4, SealedTypes
  <2> QED  BY <1>0, <2>1, <2>2, <2>5, ItemTypes, EmitRefines
<1>5. CASE WriteBlock
  <2>1. pc = "block" /\ block # << >> /\ Emit(BlockItem) /\ pc' = "check" /\ ~err /\ ~err'
        /\ combined' = Append(combined, crc) /\ headerWritten
    BY <1>0, <1>5 DEF WriteBlock, Folded, Placed
  <2>2. Sealed = Append(combined, crc) /\ Sealed' = Sealed
    BY <2>1 DEF Sealed, Unfolded
  <2>3. UNCHANGED <<Phase, Result>> /\ Result = "none" /\ Phase = "open"
    BY <2>1 DEF Phase, Result
  <2>4. /\ Len(combined) \in Nat /\ Len(Sealed) = Len(combined) + 1
        /\ AsPromised(BlockItem) = Promise!Item(Sealed, Len(combined) + 2)
    BY <1>0, <2>2, ItemsPromised, SealedTypes, StreamItems
  <2>5. ~bwErr => Len(dst) = Len(combined) + 1
    BY <1>0, <2>1 DEF Delivered, Due
  <2>6. ~bwErr => /\ Len(dst) <= Len(Sealed) + (IF Phase = "closing" THEN 1 ELSE 0)
                  /\ AsPromised(BlockItem) = Promise!Item(Sealed, Len(dst) + 1)
    <3>1. (Len(combined) + 1) + 1 = Len(combined) + 2
      BY <2>4
    <3> QED  BY <2>3, <2>4, <2>5, <3>1
  <2> QED  BY <1>0, <2>1, <2>2, <2>3, <2>6, ItemTypes, EmitRefines
<1>6. CASE NoBlock
  <2>1. pc = "block" /\ block = << >> /\ pc' = "trailer" /\ UNCHANGED <<block, combined, err>>
        /\ UNCHANGED <<dst, bwErr>>
    BY <1>6 DEF NoBlock, blockVars, streamVars, sinkVars
  <2>2. UNCHANGED <<Sealed, Result>> /\ Phase = "open" /\ Phase' = "closing"
    BY <2>1 DEF Sealed, Result, Phase
  <2> QED  BY <1>b, <2>1, <2>2
<1>7. CASE AfterBlock
  <2>1. pc = "check" /\ UNCHANGED <<combined, bwErr, dst>> /\ ~err
    BY <1>0, <1>7 DEF AfterBlock, sinkVars, Placed
  <2>2. CASE bwErr /\ err' = TRUE /\ pc' = "idle"
    <3>1. Result = "none" /\ Result' = "error" /\ Sink = "failed"
          /\ UNCHANGED <<Sealed, Sink, Phase>>
      BY <2>1, <2>2 DEF Result, Sink, Sealed, Unfolded, Phase
    <3>2. Mapped(dst)' = Mapped(dst)
      BY <2>1 DEF Mapped, AsPromised
    <3>3. Promise!Finish
      BY <3>1, <3>2, PromisedSteps
    <3> QED  BY <3>3 DEF Promise!Next
  <2>3. CASE pc' = "trailer" /\ UNCHANGED err
    <3>1. UNCHANGED <<Sealed, Result>> /\ Phase = "open" /\ Phase' = "closing"
      BY <2>1, <2>3 DEF Sealed, Unfolded, Result, Phase
    <3> QED  BY <1>b, <2>1, <3>1
  <2>4. CASE pc' = "idle" /\ UNCHANGED err
    <3>1. UNCHANGED <<Sealed, Result, Phase>>
      BY <2>1, <2>4 DEF Sealed, Unfolded, Result, Phase
    <3> QED  BY <1>a, <2>1, <3>1
  <2> QED  BY <1>7, <2>2, <2>3, <2>4 DEF AfterBlock
<1>8. CASE WriteTrailer
  <2>1. pc = "trailer" /\ Emit(TrailerItem) /\ pc' = "return" /\ ~err /\ ~err'
        /\ combined' = combined /\ headerWritten
    BY <1>0, <1>8 DEF WriteTrailer, streamVars, Placed
  <2>2. UNCHANGED <<Sealed, Phase, Result>> /\ Result = "none" /\ Phase = "closing"
        /\ Sealed = combined
    BY <2>1 DEF Sealed, Unfolded, Phase, Result
  <2>3. /\ Len(combined) \in Nat
        /\ AsPromised(TrailerItem) = Promise!Item(combined, Len(combined) + 2)
    BY <1>0, ItemsPromised, SealedTypes, StreamItems
  <2>4. ~bwErr => Len(dst) = Len(combined) + 1
    BY <1>0, <2>1 DEF Delivered, Due
  <2>5. ~bwErr => /\ Len(dst) <= Len(Sealed) + (IF Phase = "closing" THEN 1 ELSE 0)
                  /\ AsPromised(TrailerItem) = Promise!Item(Sealed, Len(dst) + 1)
    <3>1. (Len(combined) + 1) + 1 = Len(combined) + 2
      BY <2>3
    <3> QED  BY <2>2, <2>3, <2>4, <3>1
  <2> QED  BY <1>0, <2>1, <2>2, <2>5, ItemTypes, EmitRefines
<1>9. CASE CloseReturns
  <2>1. pc = "return" /\ err' = bwErr /\ pc' = "closed" /\ UNCHANGED <<combined, bwErr, dst>>
        /\ ~err
    BY <1>0, <1>9 DEF CloseReturns, sinkVars, Placed
  <2>2. UNCHANGED <<Sealed, Sink, Phase>> /\ Sealed = combined /\ Phase = "closing"
        /\ Result = "none"
    BY <2>1 DEF Sealed, Unfolded, Sink, Phase, Result
  <2>3. Mapped(dst)' = Mapped(dst)
    BY <2>1 DEF Mapped, AsPromised
  <2>4. CASE bwErr
    <3>1. Sink = "failed" /\ Result' = "error"
      BY <2>1, <2>4 DEF Sink, Result
    <3>2. Promise!Finish
      BY <2>2, <2>3, <3>1, PromisedSteps
    <3> QED  BY <3>2 DEF Promise!Next
  <2>5. CASE ~bwErr
    <3>1. Sink = "ok" /\ Result' = "ok"
      BY <2>1, <2>5 DEF Sink, Result
    <3>2. Mapped(dst) = Promise!Stream(Sealed)
      BY <1>0, <2>1, <2>2, <2>5, WholeStream
    <3>3. Promise!Finish
      BY <2>2, <2>3, <3>1, <3>2, PromisedSteps
    <3> QED  BY <3>3 DEF Promise!Next
  <2> QED  BY <2>4, <2>5
<1>10. CASE UNCHANGED vars
  <2>1. UNCHANGED <<Sealed, dst, bwErr, Phase, Result>>
    BY <1>10 DEF vars, blockVars, streamVars, sinkVars, Sealed, Unfolded, Phase, Result
  <2> QED  BY <1>a, <2>1
<1> QED
  BY <1>1, <1>2, <1>3, <1>4, <1>5, <1>6, <1>7, <1>8, <1>9, <1>10 DEF Next, CompressBlock

\* The single-threaded Writer keeps the promise of any Writer: header, blocks in order,
\* trailer over the same blocks, success only for the whole of it, nothing behind a failed
\* write - for inputs, blocks and runs of any length (writer.go:121-317).
THEOREM Refinement == Spec => KeepsPromise
<1>1. IInv /\ [Next]_vars => [Promise!Next]_(Promise!streamVars)
  BY StepRefines
<1> QED  BY InitRefines, <1>1, Invariance, PTL DEF Spec, KeepsPromise, Promise!Spec

-----------------------------------------------------------------------------
(* What the promise gives the caller of the single-threaded path.          *)

PromisedTypes ==
    /\ Sealed \in Seq(Seq(Byte))
    /\ Mapped(dst) \in Seq(Promise!Items)

\* The promise's invariants in these terms.
LEMMA PromisedInvariants ==
    /\ Promise!InOrder <=>
          /\ Len(Mapped(dst)) <= Len(Sealed) + (IF Phase = "closing" THEN 2 ELSE 1)
          /\ \A k \in 1 .. Len(Mapped(dst)) : Mapped(dst)[k] = Promise!Item(Sealed, k)
    /\ Promise!WholeOnSuccess <=> (Result = "ok" => Mapped(dst) = Promise!Stream(Sealed))
  BY DEF Sealed, Mapped, AsPromised, Phase, Result, Promise!InOrder, Promise!WholeOnSuccess

\* Sealing another block does not change the items before it.
LEMMA PromisedItemStays ==
    ASSUME NEW blocks \in Seq(Seq(Byte)), NEW b \in Seq(Byte), NEW k \in 1 .. Len(blocks) + 1
    PROVE  Promise!Item(Append(blocks, b), k) = Promise!Item(blocks, k)
<1> DEFINE S == Seq(Byte)
<1>1. blocks \in Seq(S) /\ b \in S
  OBVIOUS
<1> HIDE DEF S
<1>2. Len(Append(blocks, b)) = Len(blocks) + 1 /\ Len(blocks) \in Nat
      /\ \A i \in 1 .. Len(blocks) : Append(blocks, b)[i] = blocks[i]
  BY <1>1, Appended
<1> QED  BY <1>2 DEF Promise!Item

\* The items of a stream are such.
LEMMA PromisedItemTypes ==
    ASSUME NEW blocks \in Seq(Seq(Byte)), NEW k \in 1 .. Len(blocks) + 2
    PROVE  Promise!Item(blocks, k) \in Promise!Items
<1>1. CASE k = 1
  BY <1>1 DEF Promise!Item, Promise!Items, Promise!Header
<1>2. CASE k # 1 /\ k <= Len(blocks) + 1
  <2>1. k - 1 \in 1 .. Len(blocks) /\ Len(blocks) \in Nat
    BY <1>2
  <2>2. blocks[k - 1] \in Seq(Byte)
    BY <2>1, ElementOfSeq
  <2> QED  BY <1>2, <2>2 DEF Promise!Item, Promise!Items, Promise!BlockItem
<1>3. CASE k # 1 /\ ~(k <= Len(blocks) + 1)
  BY <1>3 DEF Promise!Item, Promise!Items, Promise!Trailer
<1> QED  BY <1>1, <1>2, <1>3

PromisedInv ==
    /\ PromisedTypes
    /\ Len(Mapped(dst)) <= Len(Sealed) + (IF Phase = "closing" THEN 2 ELSE 1)
    /\ \A k \in 1 .. Len(Mapped(dst)) : Mapped(dst)[k] = Promise!Item(Sealed, k)
    /\ Result = "ok" => Mapped(dst) = Promise!Stream(Sealed)

LEMMA PromisedInit == Promise!Init => PromisedInv
<1> SUFFICES ASSUME Promise!Init PROVE PromisedInv
  OBVIOUS
<1> DEFINE d == Mapped(dst)
           s == Sealed
<1>1. s = << >> /\ d = << >> /\ Result = "none"
  BY PromisedSteps
<1> HIDE DEF d, s
<1>2. Len(d) = 0 /\ Len(s) = 0 /\ d \in Seq(Promise!Items) /\ s \in Seq(Seq(Byte))
  BY <1>1
<1> QED  BY <1>1, <1>2 DEF PromisedInv, PromisedTypes, d, s

\* Every step of the promise keeps the destination a beginning of the stream, and success
\* the sign of a whole one.
LEMMA PromisedKept == PromisedInv /\ [Promise!Next]_(Promise!streamVars) => PromisedInv'
<1> SUFFICES ASSUME PromisedInv, [Promise!Next]_(Promise!streamVars) PROVE PromisedInv'
  OBVIOUS
<1> DEFINE d == Mapped(dst)
           s == Sealed
           Items1 == Promise!Items
           Blocks1 == Seq(Byte)
<1>1. /\ s \in Seq(Blocks1) /\ d \in Seq(Items1) /\ Len(s) \in Nat /\ Len(d) \in Nat
      /\ Len(d) <= Len(s) + (IF Phase = "closing" THEN 2 ELSE 1)
      /\ \A k \in 1 .. Len(d) : d[k] = Promise!Item(s, k)
      /\ Result = "ok" => d = Promise!Stream(s)
  BY DEF PromisedInv, PromisedTypes
<1> SUFFICES /\ s' \in Seq(Blocks1) /\ d' \in Seq(Items1)
             /\ Len(d') <= Len(s') + (IF Phase' = "closing" THEN 2 ELSE 1)
             /\ \A k \in 1 .. Len(d') : d'[k] = Promise!Item(s', k)
             /\ Result' = "ok" => d' = Promise!Stream(s')
  BY DEF PromisedInv, PromisedTypes, Promise!Item, Promise!Stream, Promise!Items
<1>2. CASE Promise!Seal
  <2>1. /\ Phase = "open" /\ Result = "none" /\ Phase' = Phase /\ Result' = Result /\ d' = d
        /\ s' = Append(s, s'[Len(s) + 1]) /\ s'[Len(s) + 1] \in Blocks1
    BY <1>2, PromisedSteps
  <2> DEFINE b == s'[Len(s) + 1]
  <2> HIDE DEF b, d, s, Blocks1, Items1
  <2>2. s' = Append(s, b) /\ b \in Blocks1
    BY <2>1 DEF b
  <2>3. s' \in Seq(Blocks1) /\ Len(s') = Len(s) + 1
    BY <1>1, <2>2, Appended
  <2>4. \A k \in 1 .. Len(d) : Promise!Item(s', k) = Promise!Item(s, k)
    <3> TAKE k \in 1 .. Len(d)
    <3>1. k \in 1 .. Len(s) + 1
      BY <1>1, <2>1
    <3> QED  BY <1>1, <2>2, <3>1, PromisedItemStays DEF Blocks1
  <2> QED  BY <1>1, <2>1, <2>3, <2>4
<1>3. CASE Promise!Deliver
  <2> DEFINE item == Promise!Item(s, Len(d) + 1)
  <2>1. /\ Result = "none" /\ Phase' = Phase /\ Result' = Result /\ s' = s
        /\ Len(d) <= Len(s) + (IF Phase = "closing" THEN 1 ELSE 0)
        /\ d' = Append(d, item)
    BY <1>3, PromisedSteps
  <2>2. item \in Items1
    <3> HIDE DEF d, s
    <3>1. Len(d) + 1 \in 1 .. Len(s) + 2
      BY <1>1, <2>1
    <3> QED  BY <1>1, <3>1, PromisedItemTypes
  <2> HIDE DEF item, d, s, Blocks1, Items1
  <2>3. /\ d' \in Seq(Items1) /\ Len(d') = Len(d) + 1 /\ d'[Len(d) + 1] = item
        /\ \A k \in 1 .. Len(d) : d'[k] = d[k]
    BY <1>1, <2>1, <2>2, Appended
  <2>4. \A k \in 1 .. Len(d') : d'[k] = Promise!Item(s', k)
    <3> TAKE k \in 1 .. Len(d')
    <3>1. CASE k = Len(d) + 1
      BY <2>1, <2>3, <3>1 DEF item
    <3>2. CASE k # Len(d) + 1
      <4>1. k \in 1 .. Len(d)
        BY <1>1, <2>3, <3>2
      <4> QED  BY <1>1, <2>1, <2>3, <4>1
    <3> QED  BY <3>1, <3>2
  <2> QED  BY <1>1, <2>1, <2>3, <2>4
<1>4. CASE Promise!Fail
  <2>1. s' = s /\ d' = d /\ Phase' = Phase /\ Result' = Result
    BY <1>4, PromisedSteps
  <2> HIDE DEF d, s, Blocks1, Items1
  <2> QED  BY <1>1, <2>1
<1>5. CASE Promise!Shut
  <2>1. s' = s /\ d' = d /\ Phase' = "closing" /\ Phase = "open" /\ Result' = Result
    BY <1>5, PromisedSteps
  <2> HIDE DEF d, s, Blocks1, Items1
  <2> QED  BY <1>1, <2>1
<1>6. CASE Promise!Finish
  <2>1. /\ s' = s /\ d' = d /\ Phase' = Phase
        /\ (Result' = "ok" /\ d = Promise!Stream(s)) \/ Result' = "error"
    BY <1>6, PromisedSteps
  <2> HIDE DEF d, s, Blocks1, Items1
  <2> QED  BY <1>1, <2>1
<1>7. CASE Promise!Restart
  <2>1. s' = << >> /\ d' = << >> /\ Result' = "none"
    BY <1>7, PromisedSteps
  <2> HIDE DEF d, s, Blocks1, Items1
  <2>2. s' \in Seq(Blocks1) /\ d' \in Seq(Items1) /\ Len(s') = 0 /\ Len(d') = 0
    BY <2>1
  <2> QED  BY <2>1, <2>2
<1>8. CASE UNCHANGED Promise!streamVars
  <2>1. s' = s /\ d' = d /\ Phase' = Phase /\ Result' = Result
    BY <1>8, PromisedSteps
  <2> HIDE DEF d, s, Blocks1, Items1
  <2> QED  BY <1>1, <2>1
<1> QED  BY <1>2, <1>3, <1>4, <1>5, <1>6, <1>7, <1>8 DEF Promise!Next

\* The single-threaded path delivers the beginning of the one stream for the blocks it
\* sealed, header first, trailer last, also when the destination fails in the middle; and
\* when Close reports success, all of it (writer.go:139-146, 266-317).
THEOREM DeliversInOrder == Spec => [](Promise!InOrder /\ Promise!WholeOnSuccess)
<1>1. PromisedInv => Promise!InOrder /\ Promise!WholeOnSuccess
  BY PromisedInvariants DEF PromisedInv
<1>2. IInv /\ [Next]_vars => [Promise!Next]_(Promise!streamVars)
  BY StepRefines
<1> QED  BY InitRefines, PromisedInit, PromisedKept, Invariance, <1>1, <1>2, PTL DEF Spec
=============================================================================
