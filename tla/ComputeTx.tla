------------------------------ MODULE ComputeTx ------------------------------
(***************************************************************************)
(* The stateless half of transaction validation (zerocore/src/compute):    *)
(* what a compute transaction and an object output look like, and the      *)
(* predicates BasicTxValidator, DefaultAuthorizationPolicy and             *)
(* NoopResourcePolicy evaluate on them.  The operators take the bodies of  *)
(* the resolved inputs as an argument; the modules that own the object     *)
(* store supply what was read there.                                       *)
(*                                                                         *)
(* An output body is the immutable part of ObjectOutput:                   *)
(*   object, version, domain, kind, pred (NoOutput for None), created      *)
(*   owner     [kind, who]      Address, Ed25519, Program, Shared          *)
(*   res       asset -> [kind, n], n the amount, 1 for the other kinds     *)
(*   lock      [op, arg]        the lock script                            *)
(*   ttl, rent None when absent                                            *)
(*   flags     a set of flag names, "unknown" for any bit outside the mask *)
(*                                                                         *)
(* A transaction is a record                                               *)
(*   command, domain, inputs (Seq of ids), reads (Seq of [id, domain,      *)
(*   version]), proposals (Seq of [id, body]), fee, nonce, chain,          *)
(*   deadline, payload, threshold, sigs (Seq of [actor, form], see         *)
(*   SignedBy), and the verdicts of the byte-level checks: canonical (resource maps   *)
(*   are sorted), metadataOk (limits, duplicate keys), idOk (tx_id is the  *)
(*   hash of the preimage).                                                *)
(***************************************************************************)
EXTENDS Integers, Sequences, FiniteSets, FiniteSetsExt

CONSTANTS
  Domains,          \* registered domains
  PublicDomains,    \* those that accept public transactions
  NativeAsset,      \* native_asset_id()
  NoOutput,         \* a body without predecessor
  MaxAmount,        \* largest u128
  MaxVersion        \* largest u64

ASSUME DomainAssumption == PublicDomains \subseteq Domains
ASSUME WidthAssumption == MaxAmount \in Nat /\ MaxVersion \in Nat \ {0}

None == -1          \* Option::None of the optional numbers

ResourceKinds == {"Amount", "Data", "Ref", "RefBatch"}

-----------------------------------------------------------------------------
(* Structure of the transaction *)

BasicSanityCheck(tx) ==
  /\ tx.command \in {"Transfer", "Invoke", "Burn"} => tx.inputs # << >>
  /\ tx.command # "Burn" => tx.proposals # << >>
  /\ tx.canonical

NonceRequired(tx) ==
  tx.inputs = << >> \/ tx.command \in {"Anchor", "Reveal", "AgentTick"}

ValidateTxEnvelope(tx) ==
  /\ tx.nonce # 0
  /\ NonceRequired(tx) => tx.nonce # None
  /\ tx.command = "Mint" => tx.fee = 0
  /\ tx.metadataOk

DomainAccepts(tx) == tx.domain \in PublicDomains

-----------------------------------------------------------------------------
(* One output that exists already, as an input or in the read set *)

CommonFlagsOk(body) ==
  /\ "unknown" \notin body.flags
  /\ "agent" \in body.flags => body.kind = "Agent"
  /\ "channel" \in body.flags => body.kind = "Ticket"

LifecycleOk(body, tx) ==
  /\ CommonFlagsOk(body)
  /\ body.rent # 0
  /\ body.ttl # None => /\ body.ttl > body.created
                        /\ tx.deadline # None
                        /\ body.ttl >= tx.deadline

InputOk(body, tx) == body.domain = tx.domain /\ LifecycleOk(body, tx)

ReadOk(body, ref, tx) ==
  /\ body.domain = ref.domain
  /\ body.version = ref.version
  /\ LifecycleOk(body, tx)

-----------------------------------------------------------------------------
(* The proposed outputs; ins[i] is the body of tx.inputs[i] *)

NextVersion(v) == IF v = MaxVersion THEN v ELSE v + 1   \* saturating_add(1)

\* A bug the check of a successor could have: any later version will do.
SucceedsLater(body, parent) == body.object = parent.object /\ body.version > parent.version

Succeeds(body, parent) ==
  /\ body.object = parent.object
  /\ body.version = NextVersion(parent.version)
  /\ body.created >= parent.created
  /\ "frozen" \notin parent.flags

ProposalOk(body, tx, ins) ==
  /\ body.domain = tx.domain
  /\ LifecycleOk(body, tx)
  /\ body.ttl # None => body.rent # None
  /\ \/ /\ body.pred = NoOutput
        /\ body.version = 1
     \/ /\ body.pred # NoOutput
        /\ \E i \in DOMAIN tx.inputs : tx.inputs[i] = body.pred /\ Succeeds(body, ins[i])

ValidateOutputProposals(tx, ins) ==
  \A i \in DOMAIN tx.proposals : ProposalOk(tx.proposals[i].body, tx, ins)

-----------------------------------------------------------------------------
(* DefaultAuthorizationPolicy *)

\* The form of a signature is "valid", "invalid" (it does not verify), "malformed"
\* (its bytes are no signature) or "keyless" (no 32-byte key).  A keyless one,
\* and a malformed one by who, end the search with InvalidSignature.
SignatureForms == {"valid", "invalid", "malformed", "keyless"}

SignedBy(who, sigs) ==
  \E i \in DOMAIN sigs :
    /\ sigs[i] = [actor |-> who, form |-> "valid"]
    /\ \A j \in 1..(i - 1) :
         sigs[j].form # "keyless" /\ sigs[j] # [actor |-> who, form |-> "malformed"]

OwnerConsents(owner, sigs) ==
  /\ owner.kind = "Address" => owner.who # 0 /\ SignedBy(owner.who, sigs)
  /\ owner.kind = "Ed25519" => SignedBy(owner.who, sigs)

LockOpens(lock, tx) ==
  \/ lock.op \in {"EMPTY", "ALLOW"}
  \/ lock.op \in {"REQUIRE_SIG", "REQUIRE_ED25519"} /\ tx.sigs # << >>
  \/ lock.op = "PAYLOAD_EQ" /\ lock.arg = tx.payload

Authorize(tx, ins) ==
  /\ tx.idOk
  /\ tx.threshold # 0
  /\ Len(tx.sigs) >= IF tx.threshold = None THEN 1 ELSE tx.threshold
  /\ \A i \in DOMAIN ins :
       /\ tx.command \in {"Mint", "Burn"} => ins[i].owner.kind \in {"Program", "Shared"}
       /\ tx.command \in {"Transfer", "Invoke"} => OwnerConsents(ins[i].owner, tx.sigs)
       /\ LockOpens(ins[i].lock, tx)

-----------------------------------------------------------------------------
(* NoopResourcePolicy *)

ProposedBodies(tx) == [i \in DOMAIN tx.proposals |-> tx.proposals[i].body]

\* The counter one asset ends with over a sequence of bodies.
Counter(bodies, asset, kinds) ==
  MapThenSumSet(LAMBDA i : bodies[i].res[asset].n,
                {i \in DOMAIN bodies : /\ asset \in DOMAIN bodies[i].res
                                       /\ bodies[i].res[asset].kind \in kinds})

AmountOf(bodies, asset) == Counter(bodies, asset, {"Amount"})
ItemsOf(bodies, asset) == Counter(bodies, asset, {"Data", "Ref", "RefBatch"})

ValuesOf(bodies, asset) ==
  {bodies[i].res[asset] : i \in {j \in DOMAIN bodies : asset \in DOMAIN bodies[j].res}}

AssetsOf(bodies) == UNION {DOMAIN bodies[i].res : i \in DOMAIN bodies}

AggregateResources(ins, outs) ==
  \A a \in AssetsOf(ins) \cup AssetsOf(outs) :
    /\ \A v, w \in ValuesOf(ins, a) \cup ValuesOf(outs, a) : v.kind = w.kind
    /\ AmountOf(ins, a) <= MaxAmount /\ AmountOf(outs, a) <= MaxAmount   \* checked_add

CheckResources(tx, ins) ==
  LET outs == ProposedBodies(tx)
  IN  /\ AggregateResources(ins, outs)
      /\ \/ tx.command = "Mint" /\ tx.fee = 0
         \/ /\ tx.command # "Mint"
            /\ \A a \in AssetsOf(outs) : /\ AmountOf(outs, a) <= AmountOf(ins, a)
                                         /\ ItemsOf(outs, a) <= ItemsOf(ins, a)
            /\ AmountOf(outs, NativeAsset) + tx.fee <= MaxAmount
            /\ AmountOf(outs, NativeAsset) + tx.fee <= AmountOf(ins, NativeAsset)

-----------------------------------------------------------------------------
(* What validate() decides before it reads the store, and after it has read *)
(* every input and read reference                                           *)

Admissible(tx) == BasicSanityCheck(tx) /\ ValidateTxEnvelope(tx) /\ DomainAccepts(tx)

ValidResolved(tx, ins) ==
  /\ ValidateOutputProposals(tx, ins)
  /\ Authorize(tx, ins)
  /\ CheckResources(tx, ins)

\* The keys register_replay_nonce claims, one per signer (0: anonymous).
ReplayActors(tx) ==
  IF tx.sigs = << >> THEN {0} ELSE {tx.sigs[i].actor : i \in DOMAIN tx.sigs}

ReplayKeys(tx) ==
  IF tx.nonce = None THEN {}
  ELSE {<<a, tx.domain, tx.chain, tx.nonce>> : a \in ReplayActors(tx)}
=============================================================================
