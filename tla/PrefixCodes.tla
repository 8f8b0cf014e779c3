----------------------------- MODULE PrefixCodes -----------------------------
(***************************************************************************)
(* Canonical prefix codes (huffman.go): from the lengths of the codes, a   *)
(* function on the symbols 0, 1, ..., the codes themselves and the tables  *)
(* limit, base and perm by which the reader decodes.                       *)
(***************************************************************************)
EXTENDS BlockFormat

MinLength(lens) == Min({lens[v] : v \in DOMAIN lens})
MaxLength(lens) == Max({lens[v] : v \in DOMAIN lens})
OfLength(lens, l) == {v \in DOMAIN lens : lens[v] = l}

\* The number vec when the codes of length l are given out.
Vec(lens, l) ==
    LET vec[i \in 0 .. l] ==
            IF i <= MinLength(lens) THEN 0
            ELSE 2 * (vec[i - 1] + Cardinality(OfLength(lens, i - 1)))
    IN  vec[l]

AssignCodes(lens) ==
    [v \in DOMAIN lens |-> Vec(lens, lens[v])
                           + Cardinality({u \in OfLength(lens, lens[v]) : u < v})]

\* The symbols in the order of their codes.
ByLength(lens) ==
    InOrder(DOMAIN lens, LAMBDA u, v : \/ lens[u] < lens[v]
                                       \/ lens[u] = lens[v] /\ u < v)

\* The first and the last number of each length, and the symbols by their codes.
CreateDecodeTables(lens, longest) ==
    LET shorter(i) == Cardinality({v \in DOMAIN lens : lens[v] < i})
        limit == [i \in 1 .. longest + 2 |->
                    IF i \notin MinLength(lens) .. MaxLength(lens) THEN 0
                    ELSE Vec(lens, i) + Cardinality(OfLength(lens, i)) - 1]
    IN  [minLen |-> MinLength(lens),
         limit |-> limit,
         base |-> [i \in 1 .. longest + 2 |->
                    IF i \in MinLength(lens) + 1 .. MaxLength(lens)
                    THEN (limit[i - 1] + 1) * 2 - shorter(i)
                    ELSE shorter(i)],
         perm |-> ByLength(lens)]
=============================================================================
