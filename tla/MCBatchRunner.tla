---------------------------- MODULE MCBatchRunner ----------------------------
(***************************************************************************)
(* One flush of six transactions, queued in any order, in chunks of four:  *)
(* a chain of conflicts on the objects A and B, a transaction the planner  *)
(* cannot resolve as long as what it consumes is not made, a reader of     *)
(* what another writes, a mint that conflicts with nothing, and one of     *)
(* another domain that is one signature short.  As ImplementsLedger asks,  *)
(* no input is named twice in a transaction and every proposed id is new.  *)
(***************************************************************************)
EXTENDS BatchRunner, MCTransactions

MCGenesis == [o \in {"a1", "b1"} |->
                IF o = "a1" THEN Body("A", 1, "none", 1) ELSE Body("B", 1, "none", 1)]

MoveA == Tx("Transfer", <<"a1">>, <<Out("a2", Body("A", 2, "a1", 1))>>)
\* Conflicts with MoveA and with MoveB, and is refused once either took effect.
MoveBoth == Tx("Transfer", <<"a1", "b1">>,
               <<Out("a3", Body("A", 2, "a1", 1)), Out("b2", Body("B", 2, "b1", 1))>>)
\* Conflicts with MoveBoth only: it fits the group of MoveA, before MoveBoth.
MoveB == Tx("Transfer", <<"b1">>, <<Out("b3", Body("B", 2, "b1", 1))>>)
\* Consumes what MoveA makes.
MoveOn == Tx("Transfer", <<"a2">>, <<Out("a4", Body("A", 3, "a2", 1))>>)
\* Mints, looking at the first A.
Look == [Tx("Mint", << >>, <<Out("c1", Body("C", 1, "none", 1))>>)
           EXCEPT !.nonce = 1, !.reads = <<[id |-> "a1", domain |-> 1, version |-> 1]>>]
\* Mints in the other public domain, with one of two signatures.
Elsewhere == [Tx("Mint", << >>, <<Out("d1", [Body("D", 1, "none", 1) EXCEPT !.domain = 2])>>)
                EXCEPT !.nonce = 1, !.domain = 2, !.threshold = 2]

MCTxOf == <<MoveA, MoveBoth, MoveB, MoveOn, Look, Elsewhere>>
MCRuns == DOMAIN MCTxOf
MCBodies == BodiesIn(MCTxOf) \cup {MCGenesis[o] : o \in DOMAIN MCGenesis}
MCOutputIds == {"a1", "a2", "a3", "a4", "b1", "b2", "b3", "c1", "d1"}
MCExecutorOf == [r \in MCRuns |-> r]
\* Every order that has Look before Elsewhere: the two never meet in a group.
Orders == {s \in [1..6 -> MCRuns] : /\ \A i, j \in 1..6 : s[i] = s[j] => i = j
                                   /\ \A i, j \in 1..6 : s[i] = 5 /\ s[j] = 6 => i < j}
MCQueues == {[f \in {"flush"} |-> s] : s \in Orders}
=============================================================================
