---------------------------- MODULE MCMiningRpc ----------------------------
(***************************************************************************)
(* Blocks are the nonces that lead to them.  Two miners' threads, one      *)
(* import, one sync task that may fall back to another first block.        *)
(***************************************************************************)
EXTENDS MiningRpc, TLC

MCRoot == << >>
CONSTANTS m1, m2, imp, get, syn, n1, n2
Alike == Permutations({m1, m2}) \cup Permutations({n1, n2})

MCMaxHeight == 2
MCBlocks == UNION {[1..k -> Nonces] : k \in 1..MCMaxHeight}
MCParent == [b \in MCBlocks |-> IF Len(b) = 1 THEN << >> ELSE Front(b)]
MCNumber == [b \in MCBlocks |-> Len(b)]
MCMined == [p \in {<< >>} \cup {b \in MCBlocks : Len(b) < MCMaxHeight}, n \in Nonces |-> Append(p, n)]
MCChains == {<<<<n>>>> : n \in Nonces}
=============================================================================
