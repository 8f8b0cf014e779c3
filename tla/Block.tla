------------------------------- MODULE Block -------------------------------
(***************************************************************************)
(* A block on its way through the code: BlockRoundTrip with the block sort *)
(* as the code does it.                                                    *)
(***************************************************************************)
EXTENDS BlockSort, BlockRoundTrip

ASSUME BlockAssumption ==
    MaxTwo <= MaxBlock /\ MaxThree <= MaxBlock /\ MaxAll <= MaxBlock

blockVars == << sortVars, codedVars >>

BlockInit == SortInit(Inputs) /\ CodedInit

BlockNext ==
    \/ SortStep /\ UNCHANGED codedVars
    \/ CodedStep /\ UNCHANGED << bh, H, ftab, finished, bigDone, quadrant, budget >>

BlockSpec == BlockInit /\ [][BlockNext]_blockVars

-----------------------------------------------------------------------------
TypeOK == SortTypeOK /\ CodedTypeOK

\* The cost of the cheapest code for a sequence of frequencies.
RECURSIVE CheapestCode(_)
CheapestCode(freqs) ==
    IF Len(freqs) < 2 THEN 0
    ELSE LET s == SortSeq(freqs, <)
             sum == s[1] + s[2]
         IN  sum + CheapestCode(Append(SubSeq(s, 3, Len(s)), sum))

\* The lengths a table gets are the best there are for the frequencies they were
\* made from: the heap always hands out two lightest trees.
LengthsOptimal ==
    coder = "lengths" => \A t \in Tables \ todo :
        LET freq == [i \in 1 .. alphaSize |-> weight[t][i] \div 256]
        IN  SumFunction([i \in 1 .. alphaSize |-> freq[i] * codeLens[t][i - 1]])
            = CheapestCode(freq)
=============================================================================
