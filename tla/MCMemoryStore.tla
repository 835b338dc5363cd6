---------------------------- MODULE MCMemoryStore ----------------------------
(***************************************************************************)
(* Executions over one in-memory store, in two groups.                     *)
(*                                                                         *)
(* The first six run on threads of their own, all at one time: they        *)
(* contend for the two genesis outputs in every way the validator lets     *)
(* through: in opposite orders, one input named twice, an output id that   *)
(* another transaction also uses, a fork of one object, a successor that   *)
(* reads and consumes what is only just being inserted.                    *)
(*                                                                         *)
(* The last three commit through one executor while the clock moves past   *)
(* the replay window: two carry the same nonce, one signed by 2 and one by *)
(* 2 and 1, and the third prunes the registry when it registers its own.   *)
(***************************************************************************)
EXTENDS MemoryStore, MCTransactions

MCGenesis == [o \in {"a1", "b1"} |->
                IF o = "a1" THEN Body("A", 1, "none", 2) ELSE Body("B", 1, "none", 1)]

\* Splits A into two outputs and takes B along.
Split == Tx("Transfer", <<"a1", "b1">>,
            <<Out("a2", Body("A", 2, "a1", 1)), Out("a3", Body("A", 2, "a1", 1)),
              Out("b2", Body("B", 2, "b1", 1))>>)
\* The same inputs, the other way round.
Cross == Tx("Transfer", <<"b1", "a1">>, <<Out("a4", Body("A", 2, "a1", 3))>>)
\* One input named twice: validation counts its amount twice.
Twice == Tx("Transfer", <<"a1", "a1">>, <<Out("a5", Body("A", 2, "a1", 4))>>)
\* Consumes one half of the split and reads B as it was at the start.
Follow == [Tx("Transfer", <<"a2">>, <<Out("a6", Body("A", 3, "a2", 1))>>)
             EXCEPT !.reads = <<[id |-> "b1", domain |-> 1, version |-> 1]>>]
\* Mints, under an output id the split uses too.
Coin == [Tx("Mint", << >>, <<Out("c1", Body("C", 1, "none", 1)), Out("b2", Body("D", 1, "none", 1))>>)
           EXCEPT !.nonce = 1]
\* Skips a version of B.
Skip == Tx("Transfer", <<"b1">>, <<Out("b3", Body("B", 3, "b1", 1))>>)

Signed(actors) == [i \in DOMAIN actors |-> [actor |-> actors[i], form |-> "valid"]]
Noted(id, object, nonce, actors) ==
  [Tx("Mint", << >>, <<Out(id, Body(object, 1, "none", 1))>>)
     EXCEPT !.nonce = nonce, !.sigs = Signed(actors)]
Move == [Tx("Transfer", <<"a1">>, <<Out("a2", Body("A", 2, "a1", 2))>>) EXCEPT !.nonce = 2]

MCTxOf == <<Split, Cross, Twice, Follow, Coin, Skip,
            Noted("c1", "C", 1, <<2>>), Noted("d1", "D", 1, <<2, 1>>), Move>>
MCRuns == DOMAIN MCTxOf
Contenders == 1..6
MCBodies == BodiesIn(MCTxOf) \cup {MCGenesis[o] : o \in DOMAIN MCGenesis}
MCOutputIds == {"a1", "a2", "a3", "a4", "a5", "a6", "b1", "b2", "b3", "c1", "d1"}
MCExecutors == 1..7
MCExecutorOf == [r \in MCRuns |-> IF r \in Contenders THEN r ELSE 7]

\* The groups are kept apart, and time stands still for the first.
Apart ==
  \/ now = 0 /\ \A r \in MCRuns \ Contenders : pc[r] = "idle"
  \/ \A r \in Contenders : pc[r] = "idle"
=============================================================================
