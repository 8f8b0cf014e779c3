----------------------------- MODULE BlockFormat -----------------------------
(***************************************************************************)
(* What the stages of a block share, on the writer's side and on the       *)
(* reader's: the sizes of its fields, the sort by counting, and what the   *)
(* block sort leaves to be undone.                                         *)
(***************************************************************************)
EXTENDS Integers, FiniteSets, FiniteSetsExt

CONSTANTS
    A,              \* number of byte values (256 in the code)
    RowLen,         \* a row of the alphabet's bitmap (16)
    GroupSize,      \* symbols coded with one table (50)
    PtrBits,        \* width of origPtr (24)
    SelBits,        \* width of the number of selectors (15)
    NGroups,        \* largest number of tables (6)
    MaxSelectors    \* room for selectors (18002)

ASSUME FormatAssumption ==
    /\ A \in Nat /\ A >= 2
    /\ {RowLen, GroupSize, PtrBits, SelBits, MaxSelectors} \subseteq Nat \ {0}
    /\ A = RowLen * RowLen
    /\ NGroups \in 2 .. 7

Bytes == 0 .. A - 1

Pow2[k \in Nat] == IF k = 0 THEN 1 ELSE 2 * Pow2[k - 1]

\* The members of S in their order, by how many come before each.
InOrder(S, Before(_, _)) ==
    [k \in 0 .. Cardinality(S) - 1 |->
        CHOOSE i \in S : k = Cardinality({j \in S : Before(j, i)})]

\* A radix sort of 0 .. len - 1.
RadixSort(len, Before(_, _)) == InOrder(0 .. len - 1, Before)

\* The first len bytes of the rotation of b that begins at i.
RotationOf(b, size, i, len) == [k \in 0 .. len - 1 |-> b[(i + k) % size]]

\* r1 comes before r2 in the order of words, or is the same.
NotAfter(r1, r2) ==
    LET diff == {k \in DOMAIN r1 : r1[k] # r2[k]}
    IN  diff = {} \/ r1[Min(diff)] < r2[Min(diff)]

\* p lists every rotation of b once, in their order.
ListsRotations(p, b, size) ==
    /\ {p[i] : i \in 0 .. size - 1} = 0 .. size - 1
    /\ \A i \in 1 .. size - 1 :
          NotAfter(RotationOf(b, size, p[i - 1], size), RotationOf(b, size, p[i], size))
=============================================================================
