--------------------------- MODULE MCBlockJournal ---------------------------
(***************************************************************************)
(* Two branches from height 1: a1-a2-a3 and a1-b2-b3, and c1, another      *)
(* start; x2 does not pass validation.                                     *)
(***************************************************************************)
EXTENDS BlockJournal

MCBlocks == {"a1", "a2", "a3", "b2", "b3", "c1", "x2"}
MCParent == [b \in MCBlocks |-> CASE b \in {"a1", "c1"} -> "root" [] b = "a3" -> "a2" [] b = "b3" -> "b2" [] OTHER -> "a1"]
MCNumber == [b \in MCBlocks |-> CASE b \in {"a1", "c1"} -> 1 [] b \in {"a3", "b3"} -> 3 [] OTHER -> 2]
MCSound == MCBlocks \ {"x2"}
MCChains == {<<"b2">>, <<"b2", "b3">>, <<"a2", "a3">>, <<"c1">>, <<"a1", "x2">>}
=============================================================================
