---------------------------- MODULE SortedBlock ----------------------------
(***************************************************************************)
(* What the block sort promises the rest of encodeBlock (blocksort.go):    *)
(* ptr lists every rotation of the block once, in their order, and the     *)
(* block is the one that was handed over.  BlockSort is how the code does  *)
(* it and implements this module.                                          *)
(***************************************************************************)
EXTENDS BlockFormat

VARIABLES
    input,      \* the block as the Writer filled it
    block,      \* the block in the encoder's hands
    sorter,     \* "start", a sort under way, or "sorted"
    ptr         \* the rotations, by the positions where they begin

sortedVars == << input, block, sorter, ptr >>

nblock == Cardinality(DOMAIN input)
Positions == 0 .. nblock - 1
Rotate(i) == i % nblock

\* Blocks of 1 to longest bytes.
Blocks(chars, longest) == UNION {[0 .. len - 1 -> chars] : len \in 1 .. longest}

-----------------------------------------------------------------------------
SortedInit(inputs) ==
    /\ input \in inputs /\ block = input
    /\ sorter = "start" /\ ptr = << >>

\* The whole sort in one step, whichever algorithm does it.
Sort ==
    /\ sorter = "start"
    /\ sorter' = "sorted"
    /\ ptr' \in [Positions -> Positions]
    /\ ListsRotations(ptr', input, nblock)
    /\ UNCHANGED << input, block >>

\* Where the rotation that begins the block ended up.
OrigPtr == CHOOSE i \in Positions : ptr[i] = 0

=============================================================================
