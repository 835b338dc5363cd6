---------------------------- MODULE MCHeaderSync ----------------------------
(***************************************************************************)
(* The honest peer's chain is a1-a2-a3-a4, the node starts on b1-b2-b3: a  *)
(* fork deeper than one request of a reorganisation asks for.  Others may  *)
(* send c1, another first block, or b4 with x5, which does not pass        *)
(* validation.                                                             *)
(*                                                                         *)
(* In the deep instance the honest chain goes on to a6 and the node starts *)
(* on a1-d2-d3-d4-d5: the look-back that reaches the fork overshoots it by *)
(* more than a request asks for.                                           *)
(***************************************************************************)
EXTENDS HeaderSync

CONSTANTS good, bad

\* A chain's name, its first own height and its last one, and what it forks off.
MCForks == {<<"a", 1, 6, "root">>, <<"b", 1, 4, "root">>, <<"c", 1, 1, "root">>, <<"d", 2, 5, "a">>, <<"x", 5, 5, "b">>}
MCBlocks == UNION {{<<f[1], n>> : n \in f[2]..f[3]} : f \in MCForks}
MCNumber == [b \in MCBlocks |-> b[2]]
MCParent == [b \in MCBlocks |->
  LET f == CHOOSE g \in MCForks : g[1] = b[1]
  IN  IF b[2] > f[2] THEN <<b[1], b[2] - 1>> ELSE IF f[4] = "root" THEN "root" ELSE <<f[4], b[2] - 1>>]
MCSound == MCBlocks \ {<<"x", 5>>}
Line(name, n) == [i \in 1..n |-> <<name, i>>]

MCChainOf == [p \in {good} |-> Line("a", 4)]
MCFirstTip == [p \in {good} |-> 3]
MCLocalChain == Line("b", 3)
MCForged == {<<<<"b", 4>>, <<"x", 5>>>>, <<<<"c", 1>>>>}

MCDeepChainOf == [p \in {good} |-> Line("a", 6)]
MCDeepFirstTip == [p \in {good} |-> 5]
MCDeepLocalChain == Line("a", 1) \o [i \in 1..4 |-> <<"d", i + 1>>]
=============================================================================
