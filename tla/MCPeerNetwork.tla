--------------------------- MODULE MCPeerNetwork ---------------------------
(***************************************************************************)
(* p is accepted and dialled at the same time; q comes from p's address.   *)
(* What p gossips about comes in where it was dialled.                     *)
(***************************************************************************)
EXTENDS PeerNetwork

MCPeer == [in_p |-> "p", out_p |-> "p", in_q |-> "q"]
MCIp == [in_p |-> 1, out_p |-> 1, in_q |-> 1]
MCHashes == [c \in {"in_p", "out_p", "in_q"} |-> IF c = "out_p" THEN {"h"} ELSE {}]
=============================================================================
