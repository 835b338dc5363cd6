--------------------------- MODULE MCTransactions ---------------------------
(***************************************************************************)
(* Constructors for the small instances: output bodies and transactions    *)
(* with the fields the instances do not vary filled in.                    *)
(***************************************************************************)
EXTENDS ComputeTx

Amount(n) == [a \in {0} |-> [kind |-> "Amount", n |-> n]]

Body(object, version, pred, n) ==
  [object |-> object, version |-> version, domain |-> 1, kind |-> "Asset",
   owner |-> [kind |-> "Ed25519", who |-> 1], pred |-> pred, res |-> Amount(n),
   lock |-> [op |-> "EMPTY", arg |-> 0], created |-> 0, ttl |-> None, rent |-> None,
   flags |-> {}]

Out(id, body) == [id |-> id, body |-> body]

Tx(command, inputs, proposals) ==
  [command |-> command, domain |-> 1, inputs |-> inputs, reads |-> << >>,
   proposals |-> proposals, fee |-> 0, nonce |-> None, chain |-> 1, deadline |-> None,
   payload |-> 0, threshold |-> None, sigs |-> <<[actor |-> 1, form |-> "valid"]>>,
   canonical |-> TRUE, metadataOk |-> TRUE, idOk |-> TRUE]

BodiesIn(txs) ==
  UNION {{txs[r].proposals[i].body : i \in DOMAIN txs[r].proposals} : r \in DOMAIN txs}
=============================================================================
