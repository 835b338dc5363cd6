--------------------------- MODULE MCDurableStore ---------------------------
(***************************************************************************)
(* A move of A and B together, sent again when no answer comes; one that   *)
(* moves A on; another that wants A too; a mint of a coin, sent again, in  *)
(* parallel with them; a crash and prunings at any time.  The second B is  *)
(* too young to prune.                                                     *)
(***************************************************************************)
EXTENDS DurableStore, MCTransactions, TLC

\* The attempts: first and second of Both, of MoveA, of Other, first and second of Coin.
CONSTANTS both1, both2, move, other, coin1, coin2
Retries == Permutations({both1, both2}) \cup Permutations({coin1, coin2})

MCGenesis == [o \in {"a1", "b1"} |->
                IF o = "a1" THEN Body("A", 1, "none", 2) ELSE Body("B", 1, "none", 1)]

Both == Tx("Transfer", <<"a1", "b1">>,
            <<Out("a2", Body("A", 2, "a1", 1)), Out("b2", [Body("B", 2, "b1", 2) EXCEPT !.created = 1])>>)
MoveA == Tx("Transfer", <<"a2">>, <<Out("a3", Body("A", 3, "a2", 1))>>)
Other == Tx("Transfer", <<"a1">>, <<Out("a4", Body("A", 2, "a1", 2))>>)
Coin == [Tx("Mint", << >>, <<Out("c1", Body("C", 1, "none", 1))>>) EXCEPT !.nonce = 1]

MCRuns == {both1, both2, move, other, coin1, coin2}
MCTxOf == [r \in MCRuns |-> CASE r \in {both1, both2} -> Both [] r = move -> MoveA [] r = other -> Other [] OTHER -> Coin]
MCBodies == BodiesIn(MCTxOf) \cup {MCGenesis[o] : o \in DOMAIN MCGenesis}
MCOutputIds == {"a1", "a2", "a3", "a4", "b1", "b2", "c1"}
MCExecutorOf == [r \in MCRuns |-> r]

\* The outputs a transaction touches, and the runs a planner would keep apart.
Touched(tx) == {tx.inputs[i] : i \in DOMAIN tx.inputs} \cup {tx.proposals[i].id : i \in DOMAIN tx.proposals}
Conflicting == {<<r, s>> \in MCRuns \X MCRuns : Touched(MCTxOf[r]) \cap Touched(MCTxOf[s]) # {}}
=============================================================================
