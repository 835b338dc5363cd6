-------------------------- MODULE MCComputeService --------------------------
(***************************************************************************)
(* A transaction sent twice, and one in another lane that consumes what it *)
(* makes.  The queue holds two, a chunk one or two.                        *)
(***************************************************************************)
EXTENDS ComputeService

MCTxOf == [s \in {1, 2, 3} |-> IF s = 3 THEN "next" ELSE "first"]
MCTakes == [t \in {"first", "next"} |-> IF t = "first" THEN {"a1"} ELSE {"a2"}]
MCMakes == [t \in {"first", "next"} |-> IF t = "first" THEN {"a2"} ELSE {"a3"}]
MCLaneOf == [t \in {"first", "next"} |-> IF t = "first" THEN "domain:0" ELSE "domain:1"]
MCLaneKeys == <<"domain:0", "domain:1">>

\* Each setting with each setting of the others.
Config(serial, durable, batchSize) == [serial |-> serial, durable |-> durable, batchSize |-> batchSize]
MCConfigs == {Config(TRUE, TRUE, 1), Config(TRUE, FALSE, 2), Config(FALSE, TRUE, 2), Config(FALSE, FALSE, 1)}
=============================================================================
