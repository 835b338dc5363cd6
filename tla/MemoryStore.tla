----------------------------- MODULE MemoryStore -----------------------------
(***************************************************************************)
(* Runs over InMemoryObjectStore (zerocore/src/compute/execution.rs): its  *)
(* insert_output and mark_spent each hold the write lock of the output map *)
(* from their check to their write, so each is one step here.  The commit  *)
(* as a whole holds no lock: it marks the inputs one by one, then inserts  *)
(* the outputs one by one, and returns at the first error.                 *)
(***************************************************************************)
EXTENDS ComputeExecutor, Functions

\* Bugs these operations could have; PROJECT.json names the property each breaks.
SpendableWithoutFlag(o) == o \in DOMAIN outputs
VacantAlways(id) == TRUE
LatestAfterAnyInsert(id, body) == Put(latest, body.object, id)

\* mark_spent() of the next input.
Spendable(o) == o \in DOMAIN outputs /\ o \notin spent

MarkSpent(r) ==
  /\ pc[r] = "spend"
  /\ LET tx == TxOf[r]
         o == tx.inputs[pos[r]]
     IN  \/ /\ Spendable(o)
            /\ spent' = spent \cup {o}
            /\ spentBy' = [spentBy EXCEPT ![r] = @ \cup {o}]
            /\ Advance(r, tx.inputs, AfterSpend(tx))
         \/ /\ ~Spendable(o)
            /\ Reject(r) /\ UNCHANGED <<spent, spentBy>>
  /\ UNCHANGED <<outputs, latest, snap, nonceVars, madeBy>>

\* insert_output() of the next proposal.
Vacant(id) == id \notin DOMAIN outputs

\* latest_by_object after an output with this id and body was inserted.
LatestAfterInsert(id, body) ==
  IF body.object \in DOMAIN latest /\ body.version < outputs[latest[body.object]].version
  THEN latest
  ELSE Put(latest, body.object, id)

InsertOutput(r) ==
  /\ pc[r] = "insert"
  /\ LET tx == TxOf[r]
         p == tx.proposals[pos[r]]
     IN  \/ /\ Vacant(p.id)
            /\ outputs' = Put(outputs, p.id, p.body)
            /\ latest' = LatestAfterInsert(p.id, p.body)
            /\ madeBy' = [madeBy EXCEPT ![r] = @ \cup {p.id}]
            /\ Advance(r, tx.proposals, "accepted")
         \/ /\ ~Vacant(p.id)
            /\ Reject(r) /\ UNCHANGED <<outputs, latest, madeBy>>
  /\ UNCHANGED <<spent, snap, nonceVars, spentBy>>

RunStep(r) == Prepare(r) \/ MarkSpent(r) \/ InsertOutput(r)

Next == \/ \E r \in Runs : Begin(r) \/ RunStep(r)
        \/ Tick

Spec == Init /\ [][Next]_vars

-----------------------------------------------------------------------------
(* Properties *)

\* No output is consumed by two accepted transactions: validation reads the
\* spent flag long before mark_spent sets it, and two runs may pass it together.
NoDoubleSpend ==
  \A r, s \in Runs :
    r # s /\ pc[r] = "accepted" /\ pc[s] = "accepted" =>
      \A i \in DOMAIN TxOf[r].inputs, j \in DOMAIN TxOf[s].inputs :
        TxOf[r].inputs[i] # TxOf[s].inputs[j]

\* Every stored version was made by consuming its predecessor: the predecessor
\* is in the store, spent, of the same object and one version older.
Lineage ==
  \A o \in DOMAIN outputs :
    outputs[o].pred # NoOutput =>
      /\ outputs[o].pred \in spent
      /\ outputs[o].object = outputs[outputs[o].pred].object
      /\ outputs[o].version = NextVersion(outputs[outputs[o].pred].version)

\* get_latest_output_by_object() never answers with a version older than one
\* that is stored, whatever order the outputs of an object were inserted in.
LatestIsNewest ==
  \A o \in DOMAIN outputs :
    /\ outputs[o].object \in DOMAIN latest
    /\ outputs[latest[outputs[o].object]].object = outputs[o].object
    /\ outputs[latest[outputs[o].object]].version >= outputs[o].version

\* Amount of an asset in the outputs ids, and the part of it minting added.
HeldIn(ids, asset) ==
  MapThenSumSet(LAMBDA o : IF asset \in DOMAIN outputs[o].res THEN outputs[o].res[asset].n ELSE 0,
                ids)
MintedIds == UNION {madeBy[r] : r \in {s \in Runs : TxOf[s].command = "Mint"}}
Assets == UNION {DOMAIN outputs[o].res : o \in DOMAIN outputs}

\* The unspent outputs never hold more of an asset than the start and the mints
\* put there, also while commits are half done, after they failed half way, and
\* for a transaction that names one input twice (validation counts it twice).
NoInflation ==
  \A a \in Assets :
    HeldIn(DOMAIN outputs \ spent, a) <= HeldIn(DOMAIN Genesis \cup MintedIds, a)

\* An accepted transaction took full effect, and nothing undid it since: its
\* inputs are spent, its outputs stored as proposed.
AcceptedTookEffect ==
  \A r \in Runs : pc[r] = "accepted" =>
    /\ \A i \in DOMAIN TxOf[r].inputs : TxOf[r].inputs[i] \in spentBy[r]
    /\ \A i \in DOMAIN TxOf[r].proposals :
         LET p == TxOf[r].proposals[i]
         IN  p.id \in madeBy[r] /\ outputs[p.id] = p.body

\* Outputs are immutable: no step removes one, changes its body or revives it.
OutputsImmutable ==
  [][ /\ \A o \in DOMAIN outputs : o \in DOMAIN outputs' /\ outputs'[o] = outputs[o]
      /\ spent \subseteq spent' ]_<<outputs, spent>>

\* One executor never lets one signer's nonce tuple through twice within the
\* replay window, counted from the clock reading of the first run to the moment
\* the second registers: other runs prune the registry with older or newer
\* readings in between.
ReplayNonceOnce ==
  \A r, s \in Runs :
    /\ r # s /\ ExecutorOf[r] = ExecutorOf[s]
    /\ claimed[r] # None /\ claimed[s] # None
    /\ ReplayKeys(TxOf[r]) \cap ReplayKeys(TxOf[s]) # {}
    => claimed[r] - stamp[s] > ReplayWindow \/ claimed[s] - stamp[r] > ReplayWindow

-----------------------------------------------------------------------------
(* Why they hold: the invariant ExecutionProofs shows to be inductive *)

\* Where a run is in its list.
PosInv ==
  \A r \in Runs :
    /\ pc[r] \in {"inputs", "spend"} => pos[r] <= Len(TxOf[r].inputs)
    /\ pc[r] = "reads" => pos[r] <= Len(TxOf[r].reads)
    /\ pc[r] = "insert" => pos[r] <= Len(TxOf[r].proposals)

\* What a run read of its inputs is still what is stored there, and a run that
\* passed validation is valid against it.
Resolved(r) ==
  /\ pc[r] = "idle" => snap[r] = << >>
  /\ pc[r] = "inputs" => Len(snap[r]) = pos[r] - 1
  /\ pc[r] \in {"reads", "check", "clock", "nonce", "spend", "insert"} =>
       Len(snap[r]) = Len(TxOf[r].inputs)
  /\ \A i \in DOMAIN snap[r] :
       /\ i \in DOMAIN TxOf[r].inputs /\ TxOf[r].inputs[i] \in DOMAIN outputs
       /\ snap[r][i] = outputs[TxOf[r].inputs[i]]
  /\ pc[r] \in {"clock", "nonce", "spend", "insert"} => ValidResolved(TxOf[r], snap[r])
SnapInv == \A r \in Runs : Resolved(r)

\* Each spent flag was set by one run, and a run past its inputs set all of them.
SpendInv ==
  /\ \A r, s \in Runs : r # s => spentBy[r] \cap spentBy[s] = {}
  /\ \A r \in Runs :
       /\ pc[r] = "spend" => \A i \in 1..(pos[r] - 1) : TxOf[r].inputs[i] \in spentBy[r]
       /\ pc[r] \in {"insert", "accepted"} =>
            \A i \in DOMAIN TxOf[r].inputs : TxOf[r].inputs[i] \in spentBy[r]

\* The proposals a run has passed are stored as proposed.
Stored(r, i) == /\ TxOf[r].proposals[i].id \in madeBy[r]
                /\ outputs[TxOf[r].proposals[i].id] = TxOf[r].proposals[i].body
MadeInv ==
  \A r \in Runs :
    /\ pc[r] = "insert" => \A i \in 1..(pos[r] - 1) : Stored(r, i)
    /\ pc[r] = "accepted" => \A i \in DOMAIN TxOf[r].proposals : Stored(r, i)

\* A nonce tuple let through is in the registry until the window has passed.
NonceInv ==
  /\ \A r \in Runs : /\ stamp[r] <= now
                     /\ pc[r] = "nonce" => stamp[r] # None
                     /\ claimed[r] # None => /\ stamp[r] # None /\ claimed[r] <= now
                                             /\ pc[r] \in {"spend", "insert", "accepted", "rejected"}
  /\ \A r \in Runs : claimed[r] # None =>
       \A k \in ReplayKeys(TxOf[r]) :
         \/ now - stamp[r] > ReplayWindow
         \/ /\ k \in DOMAIN registry[ExecutorOf[r]]
            /\ registry[ExecutorOf[r]][k] = stamp[r]

IInv == PosInv /\ SnapInv /\ SpendInv /\ MadeInv /\ NonceInv

\* A run that inserts found its inputs worth what it proposes, and marked each of
\* them itself: one it names twice would have stopped it.
PaidFor(r) ==
  /\ IsInjective(TxOf[r].inputs)
  /\ \A i \in DOMAIN TxOf[r].inputs : TxOf[r].inputs[i] \in spentBy[r]
  /\ Len(snap[r]) = Len(TxOf[r].inputs) /\ ValidResolved(TxOf[r], snap[r])
PaidInv ==
  /\ DOMAIN outputs = DOMAIN Genesis \cup UNION {madeBy[r] : r \in Runs}
  /\ \A r \in Runs :
       /\ pc[r] = "spend" =>
            \A i, j \in 1..(pos[r] - 1) : TxOf[r].inputs[i] = TxOf[r].inputs[j] => i = j
       /\ madeBy[r] # {} => pc[r] \in {"insert", "accepted", "rejected"}
       /\ pc[r] = "insert" \/ madeBy[r] # {} => PaidFor(r)
       /\ \A o \in madeBy[r] : \E i \in DOMAIN TxOf[r].proposals :
            TxOf[r].proposals[i].id = o /\ TxOf[r].proposals[i].body = outputs[o]
=============================================================================
