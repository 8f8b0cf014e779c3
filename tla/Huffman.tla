------------------------------ MODULE Huffman ------------------------------
(***************************************************************************)
(* Huffman codes (huffman.go): code lengths from frequencies by way of a   *)
(* heap.  Symbols count from 0, tree nodes from 1; symbol v is leaf v + 1. *)
(***************************************************************************)
EXTENDS Integers, SequencesExt

CONSTANT MaxLen     \* no code is longer (17 in the code)

-----------------------------------------------------------------------------
(* A heap is a sequence of nodes, lightest first.  A weight is             *)
(* 256 * frequency + depth of the tree below.                              *)

Exchange(heap, i, j) == [heap EXCEPT ![i] = heap[j], ![j] = heap[i]]

\* One turn of the loops, for the node at place s.at.
Rise(s, weight) ==
    LET up == s.at \div 2
    IN  IF s.at > 1 /\ weight[s.heap[s.at]] < weight[s.heap[up]]
        THEN [heap |-> Exchange(s.heap, s.at, up), at |-> up] ELSE s
Fall(s, weight) ==
    LET zz == s.at
        yy == IF 2 * zz < Len(s.heap)
                 /\ weight[s.heap[2 * zz + 1]] < weight[s.heap[2 * zz]]
              THEN 2 * zz + 1 ELSE 2 * zz
    IN  IF 2 * zz > Len(s.heap) \/ weight[s.heap[zz]] < weight[s.heap[yy]] THEN s
        ELSE [heap |-> Exchange(s.heap, zz, yy), at |-> yy]

UpHeap(heap, weight, zz) ==
    LET after[k \in 0 .. zz] == IF k = 0 THEN [heap |-> heap, at |-> zz]
                                ELSE Rise(after[k - 1], weight)
    IN  after[zz].heap
DownHeap(heap, weight, zz) ==
    LET after[k \in 0 .. Len(heap)] == IF k = 0 THEN [heap |-> heap, at |-> zz]
                                       ELSE Fall(after[k - 1], weight)
    IN  after[Len(heap)].heap

Push(heap, weight, node) ==
    UpHeap(Append(heap, node), weight, Len(heap) + 1)
\* Mutant: the last node takes the place of the first and stays there.
PopStays(heap, weight) ==
    IF Len(heap) = 1 THEN << >> ELSE Front(<< Last(heap) >> \o Tail(heap))
\* The last node takes the place of the first and sinks.
Pop(heap, weight) ==
    IF Len(heap) = 1 THEN << >>
    ELSE DownHeap(Front(<< Last(heap) >> \o Tail(heap)), weight, 1)

AddWeights(w1, w2) ==
    (w1 \div 256 + w2 \div 256) * 256 + 1 + Max({w1 % 256, w2 % 256})

\* Join the two lightest trees.
Join(s) ==
    LET n1 == s.heap[1]
        rest == Pop(s.heap, s.weight)
        n2 == rest[1]
        node == Len(s.weight) + 1
        w == Append(s.weight, AddWeights(s.weight[n1], s.weight[n2]))
    IN  [heap |-> Push(Pop(rest, s.weight), w, node), weight |-> w,
         parent |-> [Append(s.parent, 0) EXCEPT ![n1] = node, ![n2] = node]]

\* All leaves, each on its own.
Leaves(weight) ==
    LET heap[i \in 0 .. Len(weight)] == IF i = 0 THEN << >>
                                        ELSE Push(heap[i - 1], weight, i)
    IN  [heap |-> heap[Len(weight)], weight |-> weight,
         parent |-> [i \in 1 .. Len(weight) |-> 0]]

\* One round of makeCodeLengths, weight being that of the leaves: trees are joined until
\* one is left, and the length of a code is the depth of its leaf.
CodeLengths(weight) ==
    LET joined[k \in 0 .. Len(weight) - 1] == IF k = 0 THEN Leaves(weight)
                                              ELSE Join(joined[k - 1])
        parent == joined[Len(weight) - 1].parent
        depth[k \in DOMAIN parent] == IF parent[k] = 0 THEN 0 ELSE 1 + depth[parent[k]]
    IN  [v \in 0 .. Len(weight) - 1 |-> depth[v + 1]]
\* Mutant: codes of one bit too many are let through.
TooLongByOne(lens) == \E v \in DOMAIN lens : lens[v] > MaxLen + 1
TooLong(lens) == \E v \in DOMAIN lens : lens[v] > MaxLen

InitialWeights(freq) ==
    [i \in 1 .. Cardinality(DOMAIN freq) |-> 256 * Max({freq[i - 1], 1})]
\* Mutant: the frequencies are not halved.
ScaleDownKeeps(weight) == [i \in DOMAIN weight |-> 256 * (weight[i] \div 256)]
\* Another round is made with the frequencies halved.
ScaleDown(weight) == [i \in DOMAIN weight |-> 256 * (1 + (weight[i] \div 256) \div 2)]
=============================================================================
