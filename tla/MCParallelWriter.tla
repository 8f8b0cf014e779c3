--------------------------- MODULE MCParallelWriter ---------------------------
(***************************************************************************)
(* The pipeline with blocks that are all alike but for at most one in each *)
(* stream.  The pipeline never looks at the contents of a block, so a      *)
(* stream whose blocks were swapped, doubled or left out already differs,  *)
(* in its length or in where that one block stands, for some choice of it. *)
(***************************************************************************)
EXTENDS ParallelWriter

CONSTANT Odd            \* the contents that at most one block of a stream has

ASSUME OddAssumption == Odd \in Block

\* The caller makes no second odd block.  Only what the caller writes is limited, no
\* step of a call under way, so nothing that fairness speaks of is cut off.
AtMostOneOdd ==
    cur = {} /\ cur' = {Odd} => \A k \in DOMAIN sealed : sealed[k] # Odd
=============================================================================
