---------------------------- MODULE DurableStore ----------------------------
(***************************************************************************)
(* Runs over ComputeStore, the object store on a key-value database        *)
(* (zerostore/src/compute), with crashes and the operator's pruning.       *)
(*                                                                         *)
(* Nothing locks a record between its get and its put.  mark_spent() is a  *)
(* get and a put of the whole record with the flag set; insert_output() is *)
(* a has, a put of the record, unspent, and a put of the latest pointer.   *)
(* Each get and put is one transaction of the database, durable when it    *)
(* returns; a crash falls between any two of them.                         *)
(***************************************************************************)
EXTENDS ComputeExecutor

CONSTANTS
  Apart,           \* pairs of runs the node never has under way together
  RetentionWindow, \* of ComputePruneConfig
  MaxCrashes       \* bound on crashes

ASSUME DurableAssumption ==
  /\ Apart \subseteq Runs \X Runs
  /\ RetentionWindow \in Nat /\ MaxCrashes \in Nat

VARIABLES
  call,     \* how far a run is in its store call: "look", "put" or "latest"
  held,     \* the body a run got from the database to put back
  lost,     \* runs a crash has ended
  crashes

durableVars == <<call, held, lost, crashes>>
allVars == <<vars, durableVars>>

DurableInit ==
  /\ Init
  /\ call = [r \in Runs |-> "look"]
  /\ held = [r \in Runs |-> << >>]
  /\ lost = {}
  /\ crashes = 0

UnderWay(r) == pc[r] \notin Terminal \cup {"idle"} /\ r \notin lost

\* A run starts when none it is kept apart from is under way.
Start(r) ==
  /\ \A s \in Runs : UnderWay(s) => <<r, s>> \notin Apart
  /\ Begin(r)
  /\ UNCHANGED durableVars

Validate(r) == r \notin lost /\ Prepare(r) /\ UNCHANGED durableVars

-----------------------------------------------------------------------------
(* mark_spent() of the next input *)

Input(r) == TxOf[r].inputs[pos[r]]

Spendable(o) == o \in DOMAIN outputs /\ o \notin spent

SpendGet(r) ==
  /\ r \notin lost /\ pc[r] = "spend" /\ call[r] = "look"
  /\ \/ /\ Spendable(Input(r))
        /\ held' = [held EXCEPT ![r] = outputs[Input(r)]]
        /\ call' = [call EXCEPT ![r] = "put"]
        /\ UNCHANGED <<pc, pos>>
     \/ ~Spendable(Input(r)) /\ Reject(r) /\ UNCHANGED <<call, held>>
  /\ UNCHANGED <<storeVars, snap, nonceVars, traceVars, lost, crashes>>

\* A bug the put could have: the record goes back as it was got.
FlagLost(o) == spent

\* The flags after the record of o was put back.
Flagged(o) == spent \cup {o}

SpendPut(r) ==
  /\ r \notin lost /\ pc[r] = "spend" /\ call[r] = "put"
  /\ outputs' = Put(outputs, Input(r), held[r])
  /\ spent' = Flagged(Input(r))
  /\ spentBy' = [spentBy EXCEPT ![r] = @ \cup {Input(r)}]
  /\ call' = [call EXCEPT ![r] = "look"]
  /\ held' = [held EXCEPT ![r] = << >>]
  /\ Advance(r, TxOf[r].inputs, AfterSpend(TxOf[r]))
  /\ UNCHANGED <<latest, snap, nonceVars, madeBy, lost, crashes>>

-----------------------------------------------------------------------------
(* insert_output() of the next proposal *)

Proposal(r) == TxOf[r].proposals[pos[r]]

Vacant(id) == id \notin DOMAIN outputs

InsertHas(r) ==
  /\ r \notin lost /\ pc[r] = "insert" /\ call[r] = "look"
  /\ \/ /\ Vacant(Proposal(r).id)
        /\ call' = [call EXCEPT ![r] = "put"] /\ UNCHANGED <<pc, pos>>
     \/ ~Vacant(Proposal(r).id) /\ Reject(r) /\ UNCHANGED call
  /\ UNCHANGED <<storeVars, snap, nonceVars, traceVars, held, lost, crashes>>

InsertPut(r) ==
  /\ r \notin lost /\ pc[r] = "insert" /\ call[r] = "put"
  /\ outputs' = Put(outputs, Proposal(r).id, Proposal(r).body)
  /\ spent' = spent \ {Proposal(r).id}
  /\ madeBy' = [madeBy EXCEPT ![r] = @ \cup {Proposal(r).id}]
  /\ call' = [call EXCEPT ![r] = "latest"]
  /\ UNCHANGED <<latest, runVars, nonceVars, spentBy, held, lost, crashes>>

InsertLatest(r) ==
  /\ r \notin lost /\ pc[r] = "insert" /\ call[r] = "latest"
  /\ latest' = Put(latest, Proposal(r).body.object, Proposal(r).id)
  /\ call' = [call EXCEPT ![r] = "look"]
  /\ Advance(r, TxOf[r].proposals, "accepted")
  /\ UNCHANGED <<outputs, spent, snap, nonceVars, traceVars, held, lost, crashes>>

-----------------------------------------------------------------------------
(* The node's life *)

NoRegistry == [e \in Executors |-> << >>]

\* What is in memory is gone, also the replay registries.
Crash ==
  /\ crashes < MaxCrashes
  /\ crashes' = crashes + 1
  /\ lost' = lost \cup {r \in Runs : UnderWay(r)}
  /\ registry' = NoRegistry
  /\ UNCHANGED <<storeVars, runVars, now, stamp, claimed, traceVars, call, held>>

\* Bugs pruning could have: it takes unspent outputs too, or leaves the pointers.
PrunableByAge == {o \in DOMAIN outputs : outputs[o].created + RetentionWindow <= now}
PointersLeft(gone) == latest

\* prune_compute_store() by the operator, with the node stopped.
Prunable == {o \in spent : outputs[o].created + RetentionWindow <= now}
PointersKept(gone) == [obj \in {x \in DOMAIN latest : latest[x] \notin gone} |-> latest[obj]]

Prune ==
  /\ ~\E r \in Runs : UnderWay(r)
  /\ Prunable # {}
  /\ outputs' = [o \in DOMAIN outputs \ Prunable |-> outputs[o]]
  /\ spent' = spent \ Prunable
  /\ latest' = PointersKept(Prunable)
  /\ registry' = NoRegistry
  /\ UNCHANGED <<runVars, now, stamp, claimed, traceVars, durableVars>>

RunStep(r) == Validate(r) \/ SpendGet(r) \/ SpendPut(r) \/ InsertHas(r) \/ InsertPut(r) \/ InsertLatest(r)

DurableNext ==
  \/ \E r \in Runs : Start(r) \/ RunStep(r)
  \/ Crash
  \/ Prune
  \/ Tick /\ UNCHANGED durableVars

DurableSpec == DurableInit /\ [][DurableNext]_allVars

-----------------------------------------------------------------------------
(* Properties *)

DurableTypeOK ==
  /\ DOMAIN outputs \subseteq OutputIds /\ \A o \in DOMAIN outputs : outputs[o] \in Bodies
  /\ spent \subseteq DOMAIN outputs
  /\ DOMAIN latest \subseteq Objects /\ \A obj \in DOMAIN latest : latest[obj] \in OutputIds
  /\ RunTypeOK /\ NonceTypeOK
  /\ call \in [Runs -> {"look", "put", "latest"}]
  /\ held \in [Runs -> Bodies \cup {<< >>}]
  /\ lost \subseteq Runs

\* No output is consumed by two accepted transactions; one that consumes something
\* and is sent again, after a crash or a pruning, is accepted once at most.
NoDoubleSpend ==
  \A r, s \in Runs : r # s /\ pc[r] = "accepted" /\ pc[s] = "accepted" =>
    spentBy[r] \cap spentBy[s] = {}

\* What an accepted transaction made is in the database until another consumes it.
AcceptedSurvives ==
  \A r \in Runs : pc[r] = "accepted" =>
    \A i \in DOMAIN TxOf[r].proposals :
      LET id == TxOf[r].proposals[i].id
      IN  id \in DOMAIN outputs \/ \E s \in Runs : id \in spentBy[s]

\* A latest pointer is never stale in the sense of pointing to nothing, or to an
\* output of another object: pruning takes it along with what it points to.
LatestResolves ==
  \A obj \in DOMAIN latest : latest[obj] \in DOMAIN outputs /\ outputs[latest[obj]].object = obj

\* The amount of an asset that bodies hold in total; minted amounts count each time.
Held(body, asset) == IF asset \in DOMAIN body.res THEN body.res[asset].n ELSE 0
LiveAmount(asset) == MapThenSumSet(LAMBDA o : Held(outputs[o], asset), DOMAIN outputs \ spent)
MintedBy(r, asset) ==
  MapThenSumSet(LAMBDA i : Held(TxOf[r].proposals[i].body, asset),
                {i \in DOMAIN TxOf[r].proposals : TxOf[r].proposals[i].id \in madeBy[r]})
Issued(asset) ==
  MapThenSumSet(LAMBDA o : Held(Genesis[o], asset), DOMAIN Genesis)
    + MapThenSumSet(LAMBDA r : MintedBy(r, asset), {r \in Runs : TxOf[r].command = "Mint"})

\* Crashes may lose value, they never make any: what is live was issued.
NothingFromCrashes ==
  \A a \in UNION {DOMAIN outputs[o].res : o \in DOMAIN outputs} : LiveAmount(a) <= Issued(a)
=============================================================================
