--------------------------- MODULE ComputeExecutor ---------------------------
(***************************************************************************)
(* The steps of BasicTxValidator::validate and                             *)
(* BasicTxExecutor::commit_prevalidated that do not depend on which object *)
(* store is underneath (zerocore/src/compute/execution.rs).                *)
(*                                                                         *)
(* A run is one execution attempt of one transaction, on a thread of its   *)
(* own.  validate() resolves the inputs and the read set one get_output()  *)
(* at a time, so other runs step between two of its reads; what it read is *)
(* kept in snap and used after it.  MemoryStore and DurableStore add the   *)
(* two store writes of the commit, mark_spent and insert_output.           *)
(***************************************************************************)
EXTENDS ComputeTx

CONSTANTS
  OutputIds, Objects, Bodies,
  Runs,           \* execution attempts
  TxOf,           \* the transaction of each run
  Executors,      \* BasicTxExecutor instances
  ExecutorOf,     \* the executor a run commits through
  Genesis,        \* outputs stored (and unspent) at the start: id -> body
  ReplayWindow,   \* REPLAY_NONCE_WINDOW_SECS
  MaxTime         \* bound on the clock

ASSUME RunAssumption ==
  /\ ExecutorOf \in [Runs -> Executors]
  /\ DOMAIN TxOf = Runs
  /\ NoOutput \notin OutputIds
  /\ \A r \in Runs :
       /\ TxOf[r].inputs \in Seq(OutputIds)
       /\ TxOf[r].reads \in Seq([id : OutputIds, domain : Domains, version : Nat])
       /\ TxOf[r].proposals \in Seq([id : OutputIds, body : Bodies])
       /\ TxOf[r].sigs \in Seq([actor : Nat, form : SignatureForms])
  /\ \A b \in Bodies : b.object \in Objects /\ b.version \in Nat

\* The objects the genesis outputs are versions of, and the newest of one.
GenesisObjects == {Genesis[o].object : o \in DOMAIN Genesis}
Newest(o, obj) ==
  /\ o \in DOMAIN Genesis /\ Genesis[o].object = obj
  /\ \A p \in DOMAIN Genesis : Genesis[p].object = obj => Genesis[p].version <= Genesis[o].version

ASSUME GenesisAssumption ==
  /\ DOMAIN Genesis \subseteq OutputIds
  /\ Genesis \in [DOMAIN Genesis -> Bodies]
  /\ \A o \in DOMAIN Genesis : Genesis[o].pred = NoOutput
  /\ \A obj \in GenesisObjects : \E o \in OutputIds : Newest(o, obj)   \* it is finite

ASSUME ResourceAssumption ==
  \A b \in Bodies : \A a \in DOMAIN b.res : b.res[a] \in [kind : ResourceKinds, n : Nat]

ASSUME FiniteAssumption == IsFiniteSet(Runs) /\ IsFiniteSet(DOMAIN Genesis)

ASSUME TimeAssumption == ReplayWindow \in Nat /\ MaxTime \in Nat

VARIABLES
  outputs,    \* stored outputs: id -> body
  spent,      \* ids whose spent flag is set
  latest,     \* latest_by_object: object -> id
  pc, pos,    \* where each run is: phase and index in its list
  snap,       \* bodies of the inputs a run has resolved (the report)
  registry,   \* replay nonces of each executor: key -> time
  now,        \* unix seconds
  stamp,      \* the time each run read from the clock
  spentBy, madeBy,  \* history: the outputs each run marked spent, inserted
  claimed           \* history: when each run registered its nonce

storeVars == <<outputs, spent, latest>>
runVars   == <<pc, pos, snap>>
nonceVars == <<registry, now, stamp, claimed>>
traceVars == <<spentBy, madeBy>>
vars      == <<storeVars, runVars, nonceVars, traceVars>>

Phases == {"idle", "inputs", "reads", "check", "clock", "nonce", "spend", "insert",
           "accepted", "rejected"}
Terminal == {"accepted", "rejected"}

\* f with k mapped to v.
Put(f, k, v) == [x \in DOMAIN f \cup {k} |-> IF x = k THEN v ELSE f[x]]

-----------------------------------------------------------------------------
Init ==
  /\ outputs = Genesis
  /\ spent = {}
  /\ latest = [obj \in GenesisObjects |-> CHOOSE o \in OutputIds : Newest(o, obj)]
  /\ pc = [r \in Runs |-> "idle"]
  /\ pos = [r \in Runs |-> 1]
  /\ snap = [r \in Runs |-> << >>]
  /\ registry = [e \in Executors |-> << >>]
  /\ now = 0
  /\ stamp = [r \in Runs |-> None]
  /\ claimed = [r \in Runs |-> None]
  /\ spentBy = [r \in Runs |-> {}]
  /\ madeBy = [r \in Runs |-> {}]

-----------------------------------------------------------------------------
(* Control of one run.  A phase whose list is empty is passed over. *)

AfterInputs(tx) == IF tx.reads = << >> THEN "check" ELSE "reads"
AfterBegin(tx)  == IF tx.inputs = << >> THEN AfterInputs(tx) ELSE "inputs"
AfterSpend(tx)  == IF tx.proposals = << >> THEN "accepted" ELSE "insert"
AfterNonce(tx)  == IF tx.inputs = << >> THEN AfterSpend(tx) ELSE "spend"

GoTo(r, phase) ==
  /\ pc' = [pc EXCEPT ![r] = phase]
  /\ pos' = [pos EXCEPT ![r] = 1]

\* One item of a list is done: on to the next, or to the phase after it.
Advance(r, list, phase) ==
  IF pos[r] < Len(list)
  THEN pos' = [pos EXCEPT ![r] = @ + 1] /\ UNCHANGED pc
  ELSE GoTo(r, phase)

Reject(r) == GoTo(r, "rejected")

\* validate() is entered: the checks that read nothing.
Begin(r) ==
  /\ pc[r] = "idle"
  /\ GoTo(r, IF Admissible(TxOf[r]) THEN AfterBegin(TxOf[r]) ELSE "rejected")
  /\ UNCHANGED <<storeVars, snap, nonceVars, traceVars>>

\* get_output() of the next input.
ReadInput(r) ==
  /\ pc[r] = "inputs"
  /\ LET tx == TxOf[r]
         o == tx.inputs[pos[r]]
     IN  \/ /\ o \in DOMAIN outputs /\ o \notin spent /\ InputOk(outputs[o], tx)
            /\ snap' = [snap EXCEPT ![r] = Append(@, outputs[o])]
            /\ Advance(r, tx.inputs, AfterInputs(tx))
         \/ /\ ~(o \in DOMAIN outputs /\ o \notin spent /\ InputOk(outputs[o], tx))
            /\ Reject(r) /\ UNCHANGED snap
  /\ UNCHANGED <<storeVars, nonceVars, traceVars>>

\* get_output() of the next read reference; a spent output may be read.
ReadReference(r) ==
  /\ pc[r] = "reads"
  /\ LET tx == TxOf[r]
         ref == tx.reads[pos[r]]
     IN  \/ /\ ref.id \in DOMAIN outputs /\ ReadOk(outputs[ref.id], ref, tx)
            /\ Advance(r, tx.reads, "check")
         \/ /\ ~(ref.id \in DOMAIN outputs /\ ReadOk(outputs[ref.id], ref, tx))
            /\ Reject(r)
  /\ UNCHANGED <<storeVars, snap, nonceVars, traceVars>>

\* The rest of validate(), on what was read.
CheckResolved(r) ==
  /\ pc[r] = "check"
  /\ LET tx == TxOf[r]
     IN  GoTo(r, IF ~ValidResolved(tx, snap[r]) THEN "rejected"
                 ELSE IF tx.nonce = None THEN AfterNonce(tx) ELSE "clock")
  /\ UNCHANGED <<storeVars, snap, nonceVars, traceVars>>

\* current_unix_secs(), read before the registry is locked.
ReadClock(r) ==
  /\ pc[r] = "clock"
  /\ stamp' = [stamp EXCEPT ![r] = now]
  /\ GoTo(r, "nonce")
  /\ UNCHANGED <<storeVars, snap, registry, now, claimed, traceVars>>

\* A bug retain() could have: a key of exactly the window's age is dropped.
FreshStrictly(reg, t) == {k \in DOMAIN reg : t - reg[k] < ReplayWindow}

\* What retain() keeps at time t; a key stamped after t is kept (saturating_sub).
Fresh(reg, t) == {k \in DOMAIN reg : t - reg[k] <= ReplayWindow}

\* register_replay_nonce(), under the registry's write lock.  On a key already
\* there the keys of the actors sorted before it stay registered.
RegisterNonce(r) ==
  /\ pc[r] = "nonce"
  /\ LET tx == TxOf[r]
         old == registry[ExecutorOf[r]]
         kept == Fresh(old, stamp[r])
         used == ReplayKeys(tx) \cap kept
         new == {k \in ReplayKeys(tx) : \A u \in used : k[1] < u[1]}
     IN  /\ registry' = [registry EXCEPT ![ExecutorOf[r]] =
                           [k \in kept \cup new |-> IF k \in new THEN stamp[r] ELSE old[k]]]
         /\ \/ used = {} /\ GoTo(r, AfterNonce(tx)) /\ claimed' = [claimed EXCEPT ![r] = now]
            \/ used # {} /\ Reject(r) /\ UNCHANGED claimed
  /\ UNCHANGED <<storeVars, snap, now, stamp, traceVars>>

Tick ==
  /\ now < MaxTime
  /\ now' = now + 1
  /\ UNCHANGED <<storeVars, runVars, registry, stamp, claimed, traceVars>>

\* Everything a run does before it writes to the store.
Prepare(r) == ReadInput(r) \/ ReadReference(r) \/ CheckResolved(r) \/ ReadClock(r) \/ RegisterNonce(r)

-----------------------------------------------------------------------------
StoreTypeOK ==
  /\ DOMAIN outputs \subseteq OutputIds
  /\ \A o \in DOMAIN outputs : outputs[o] \in Bodies
  /\ spent \subseteq DOMAIN outputs
  /\ DOMAIN latest \subseteq Objects
  /\ \A obj \in DOMAIN latest : latest[obj] \in DOMAIN outputs

RunTypeOK ==
  /\ pc \in [Runs -> Phases]
  /\ pos \in [Runs -> Nat \ {0}]
  /\ snap \in [Runs -> Seq(Bodies)]

NonceTypeOK ==
  /\ now \in Nat
  /\ stamp \in [Runs -> Nat \cup {None}]
  /\ claimed \in [Runs -> Nat \cup {None}]
  /\ DOMAIN registry = Executors
  /\ \A e \in Executors : \A k \in DOMAIN registry[e] : registry[e][k] \in Nat

TraceTypeOK ==
  /\ spentBy \in [Runs -> SUBSET spent]
  /\ madeBy \in [Runs -> SUBSET DOMAIN outputs]

TypeOK == StoreTypeOK /\ RunTypeOK /\ NonceTypeOK /\ TraceTypeOK
=============================================================================
