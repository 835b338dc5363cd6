------------------------- MODULE DurableStoreProofs -------------------------
(***************************************************************************)
(* AcceptedSurvives, LatestResolves, NoDoubleSpend and NothingFromCrashes  *)
(* for any transactions, any number of runs, crashes and prunings.         *)
(*                                                                         *)
(* The first holds of every instance.  The others need that runs which     *)
(* touch one output are not under way together (the batch planner sees to  *)
(* it, ConflictsApart); NoDoubleSpend also that an id pruning has freed is *)
(* not used again, except by the same transaction sent once more           *)
(* (IdsNotReused): ids are chosen by who makes a transaction, and the      *)
(* database remembers nothing of what was pruned.                          *)
(*                                                                         *)
(* Then what its rebuild and the history index beside it keep.             *)
(***************************************************************************)
EXTENDS DurableStore, ComputeMaintenance, HistoryIndex, FoldFacts

InputsOf(r) == {TxOf[r].inputs[i] : i \in DOMAIN TxOf[r].inputs}
ProposedBy(r) == {TxOf[r].proposals[i].id : i \in DOMAIN TxOf[r].proposals}
Touches(r) == InputsOf(r) \cup ProposedBy(r)

ConflictsApart == \A r, s \in Runs : r # s /\ Touches(r) \cap Touches(s) # {} => <<r, s>> \in Apart

IdsNotReused ==
  \A r, u \in Runs : \A o \in ProposedBy(r) \cap InputsOf(u) :
    /\ o \notin DOMAIN Genesis
    /\ \A s \in Runs \ {r} : o \in ProposedBy(s) => InputsOf(r) \cap InputsOf(s) # {}

-----------------------------------------------------------------------------
(* The inductive invariants *)

\* Where a run is in its lists and in its store call.
CallInv ==
  /\ pc \in [Runs -> Phases] /\ pos \in [Runs -> Nat \ {0}]
  /\ call \in [Runs -> {"look", "put", "latest"}] /\ held = [r \in Runs |-> held[r]]
  /\ lost \subseteq Runs
  /\ spentBy = [r \in Runs |-> spentBy[r]] /\ madeBy = [r \in Runs |-> madeBy[r]]
  /\ \A r \in Runs :
       /\ pc[r] \notin {"spend", "insert"} => call[r] = "look"
       /\ pc[r] = "spend" => pos[r] <= Len(TxOf[r].inputs) /\ call[r] # "latest"
       /\ pc[r] = "insert" => pos[r] <= Len(TxOf[r].proposals)

Kept(o) == o \in DOMAIN outputs \/ \E s \in Runs : o \in spentBy[s]
Inserted(r) == IF call[r] = "latest" THEN pos[r] ELSE pos[r] - 1

SurvivalInv ==
  /\ \A o \in spent : \E s \in Runs : o \in spentBy[s]
  /\ \A r \in Runs :
       /\ pc[r] = "insert" => \A i \in 1..Inserted(r) : Kept(TxOf[r].proposals[i].id)
       /\ pc[r] = "accepted" => \A i \in DOMAIN TxOf[r].proposals : Kept(TxOf[r].proposals[i].id)

\* What a run has looked up is still so when it writes.
StillSo(r) ==
  /\ pc[r] = "spend" /\ call[r] = "put" =>
       Input(r) \in DOMAIN outputs \ spent /\ held[r] = outputs[Input(r)]
  /\ pc[r] = "insert" /\ call[r] = "put" => Vacant(Proposal(r).id)
  /\ pc[r] = "insert" /\ call[r] = "latest" =>
       Proposal(r).id \in DOMAIN outputs /\ outputs[Proposal(r).id] = Proposal(r).body
LookInv == \A r \in Runs \ lost : StillSo(r)

ApartInv == \A r, s \in Runs : r # s /\ UnderWay(r) /\ UnderWay(s) => Touches(r) \cap Touches(s) = {}

StoreInv == ApartInv /\ LookInv /\ LatestResolves

\* No flag is set twice, by whatever run, and the ids it could be set again for are
\* not made again.
SpendInv ==
  /\ \A r, s \in Runs : r # s => spentBy[r] \cap spentBy[s] = {}
  /\ \A o \in DOMAIN outputs \ spent, s \in Runs : o \notin spentBy[s]
  /\ \A r \in Runs :
       /\ spentBy[r] \subseteq InputsOf(r)
       /\ pc[r] = "spend" => \A i \in 1..(pos[r] - 1) : TxOf[r].inputs[i] \in spentBy[r]
       /\ pc[r] \in {"insert", "accepted"} \/ madeBy[r] # {} => InputsOf(r) \subseteq spentBy[r]

MadeInv ==
  /\ \A o \in DOMAIN outputs \cup UNION {spentBy[s] : s \in Runs} :
       o \in DOMAIN Genesis \/ \E s \in Runs : o \in madeBy[s]
  /\ \A r \in Runs : /\ madeBy[r] \subseteq ProposedBy(r)
                     /\ UnderWay(r) => madeBy[r] \subseteq DOMAIN outputs
                     /\ madeBy[r] # {} => pc[r] \in {"insert", "accepted", "rejected"}

-----------------------------------------------------------------------------
(* How the control of a run moves                                          *)

Validating == {"idle", "inputs", "reads", "check", "clock", "nonce"}

\* One run's pc and pos are all of the control that changed.
OnlyControl(r) ==
  /\ pc' = [pc EXCEPT ![r] = pc'[r]] /\ pc'[r] \in Phases \ {"idle"}
  /\ pos' = [pos EXCEPT ![r] = pos'[r]] /\ pos'[r] \in Nat \ {0}

\* Where a run may be once it stops validating, or is refused.
Enters(r) ==
  /\ pc'[r] = "spend" => pos'[r] = 1 /\ TxOf[r].inputs # << >>
  /\ pc'[r] = "insert" => pos'[r] = 1 /\ TxOf[r].inputs = << >> /\ TxOf[r].proposals # << >>
  /\ pc'[r] = "accepted" => TxOf[r].inputs = << >> /\ TxOf[r].proposals = << >>

LEMMA Lists ==
  ASSUME NEW r \in Runs
  PROVE  /\ TxOf[r].inputs \in Seq(OutputIds) /\ DOMAIN TxOf[r].inputs = 1..Len(TxOf[r].inputs)
         /\ TxOf[r].proposals \in Seq([id : OutputIds, body : Bodies])
         /\ DOMAIN TxOf[r].proposals = 1..Len(TxOf[r].proposals)
         /\ Len(TxOf[r].inputs) \in Nat /\ Len(TxOf[r].proposals) \in Nat
<1>1. /\ TxOf[r].inputs \in Seq(OutputIds)
      /\ TxOf[r].proposals \in Seq([id : OutputIds, body : Bodies])
  BY RunAssumption
<1> QED
  BY <1>1

LEMMA WentTo ==
  ASSUME CallInv, NEW r \in Runs, NEW phase \in Phases \ {"idle"}, GoTo(r, phase)
  PROVE  OnlyControl(r) /\ pc'[r] = phase /\ pos'[r] = 1
  BY DEF CallInv, OnlyControl, GoTo

LEMMA Advanced ==
  ASSUME CallInv, NEW r \in Runs, NEW list, NEW phase \in Phases \ {"idle"}, pc[r] # "idle", Advance(r, list, phase)
  PROVE  /\ OnlyControl(r)
         /\ \/ pos[r] < Len(list) /\ pc'[r] = pc[r] /\ pos'[r] = pos[r] + 1
            \/ ~(pos[r] < Len(list)) /\ pc'[r] = phase /\ pos'[r] = 1
<1>1. CASE pos[r] < Len(list)
  <2>1. pos' = [pos EXCEPT ![r] = pos[r] + 1] /\ pc' = pc
    BY <1>1 DEF Advance
  <2> QED
    BY <1>1, <2>1 DEF CallInv, OnlyControl
<1>2. CASE ~(pos[r] < Len(list))
  BY <1>2, WentTo DEF Advance
<1> QED
  BY <1>1, <1>2

LEMMA Validates ==
  ASSUME CallInv, NEW r \in Runs, Start(r) \/ Validate(r)
  PROVE  /\ UNCHANGED <<storeVars, traceVars, durableVars>>
         /\ pc[r] \in Validating /\ OnlyControl(r) /\ Enters(r)
<1> DEFINE tx == TxOf[r]
<1>1. CASE Start(r)
  <2>1. /\ pc[r] = "idle" /\ UNCHANGED <<storeVars, traceVars, durableVars>>
        /\ \E phase \in {"inputs", "reads", "check", "rejected"} : GoTo(r, phase)
    BY <1>1 DEF Start, Begin, AfterBegin, AfterInputs
  <2> QED
    BY <2>1, WentTo DEF Phases, Enters, Validating
<1>2. CASE Validate(r) /\ ReadInput(r)
  <2>1. /\ pc[r] = "inputs" /\ UNCHANGED <<storeVars, traceVars, durableVars>>
        /\ \/ Advance(r, tx.inputs, AfterInputs(tx))
           \/ GoTo(r, "rejected")
    BY <1>2 DEF Validate, ReadInput, Reject
  <2>2. AfterInputs(tx) \in {"reads", "check"}
    BY DEF AfterInputs
  <2>3. OnlyControl(r) /\ pc'[r] \in {"inputs", "reads", "check", "rejected"}
    BY <2>1, <2>2, WentTo, Advanced DEF Phases
  <2> QED
    BY <2>1, <2>3 DEF Enters, Validating
<1>3. CASE Validate(r) /\ ReadReference(r)
  <2>1. /\ pc[r] = "reads" /\ UNCHANGED <<storeVars, traceVars, durableVars>>
        /\ \/ Advance(r, tx.reads, "check")
           \/ GoTo(r, "rejected")
    BY <1>3 DEF Validate, ReadReference, Reject
  <2>2. OnlyControl(r) /\ pc'[r] \in {"reads", "check", "rejected"}
    BY <2>1, WentTo, Advanced DEF Phases
  <2> QED
    BY <2>1, <2>2 DEF Enters, Validating
<1>4. ASSUME NEW phase \in {"rejected", "clock", "nonce", AfterNonce(tx)}, GoTo(r, phase)
      PROVE  OnlyControl(r) /\ Enters(r)
  <2>1. /\ phase \in {"rejected", "clock", "nonce", "spend", "insert", "accepted"}
        /\ phase = "spend" => tx.inputs # << >>
        /\ phase = "insert" => tx.inputs = << >> /\ tx.proposals # << >>
        /\ phase = "accepted" => tx.inputs = << >> /\ tx.proposals = << >>
    BY <1>4 DEF AfterNonce, AfterSpend
  <2>2. OnlyControl(r) /\ pc'[r] = phase /\ pos'[r] = 1
    BY <1>4, <2>1, WentTo DEF Phases
  <2> QED
    BY <2>1, <2>2 DEF Enters
<1>5. CASE Validate(r) /\ (CheckResolved(r) \/ ReadClock(r) \/ RegisterNonce(r))
  <2>1. /\ pc[r] \in Validating /\ UNCHANGED <<storeVars, traceVars, durableVars>>
        /\ \E phase \in {"rejected", "clock", "nonce", AfterNonce(tx)} : GoTo(r, phase)
    BY <1>5 DEF Validate, CheckResolved, ReadClock, RegisterNonce, Reject, Validating
  <2> QED
    BY <1>4, <2>1
<1> QED
  BY <1>1, <1>2, <1>3, <1>5 DEF Validate, Prepare

\* mark_spent() and insert_output() refuse.
Refused(r) ==
  /\ r \notin lost /\ pc[r] \in {"spend", "insert"} /\ call[r] = "look" /\ Reject(r)
  /\ UNCHANGED <<storeVars, traceVars, call, held, lost>>

\* Their gets, when they find what they want.
Found(r) ==
  /\ r \notin lost /\ call[r] = "look" /\ call' = [call EXCEPT ![r] = "put"]
  /\ \/ pc[r] = "spend" /\ Spendable(Input(r)) /\ held' = [held EXCEPT ![r] = outputs[Input(r)]]
     \/ pc[r] = "insert" /\ Vacant(Proposal(r).id) /\ UNCHANGED held
  /\ UNCHANGED <<storeVars, traceVars, pc, pos, lost>>

LEMMA Looks ==
  ASSUME NEW r \in Runs, SpendGet(r) \/ InsertHas(r)
  PROVE  Refused(r) \/ Found(r)
  BY DEF SpendGet, InsertHas, Refused, Found

LEMMA Refuses ==
  ASSUME CallInv, NEW r \in Runs, Refused(r)
  PROVE  OnlyControl(r) /\ pc'[r] = "rejected"
  BY WentTo DEF Refused, Reject, Phases

\* The puts, and where the run stands after them.
LEMMA SpendPuts ==
  ASSUME CallInv, NEW r \in Runs, SpendPut(r)
  PROVE  /\ OnlyControl(r) /\ UNCHANGED <<latest, madeBy, lost>> /\ Input(r) \in InputsOf(r)
         /\ pos[r] \in DOMAIN TxOf[r].inputs
         /\ call' = [call EXCEPT ![r] = "look"] /\ held' = [u \in Runs |-> held'[u]]
         /\ \A u \in Runs \ {r} : held'[u] = held[u]
         /\ spentBy' = [spentBy EXCEPT ![r] = spentBy[r] \cup {Input(r)}]
         /\ \/ pos[r] < Len(TxOf[r].inputs) /\ pc'[r] = "spend" /\ pos'[r] = pos[r] + 1
            \/ /\ pos[r] = Len(TxOf[r].inputs) /\ pos'[r] = 1
               /\ \/ pc'[r] = "insert" /\ TxOf[r].proposals # << >>
                  \/ pc'[r] = "accepted" /\ TxOf[r].proposals = << >>
<1> DEFINE tx == TxOf[r]
<1>1. /\ r \notin lost /\ pc[r] = "spend" /\ call[r] = "put" /\ UNCHANGED <<latest, madeBy, lost>>
      /\ spentBy' = [spentBy EXCEPT ![r] = spentBy[r] \cup {Input(r)}]
      /\ call' = [call EXCEPT ![r] = "look"] /\ held' = [held EXCEPT ![r] = << >>]
      /\ Advance(r, tx.inputs, AfterSpend(tx))
  BY DEF SpendPut, CallInv
<1>2. /\ AfterSpend(tx) \in {"insert", "accepted"}
      /\ AfterSpend(tx) = "insert" <=> tx.proposals # << >>
  BY DEF AfterSpend
<1>3. pos[r] \in 1..Len(tx.inputs) /\ pos[r] \in DOMAIN tx.inputs
  BY <1>1, Lists DEF CallInv
<1>4. /\ OnlyControl(r)
      /\ \/ pos[r] < Len(tx.inputs) /\ pc'[r] = pc[r] /\ pos'[r] = pos[r] + 1
         \/ ~(pos[r] < Len(tx.inputs)) /\ pc'[r] = AfterSpend(tx) /\ pos'[r] = 1
  BY <1>1, <1>2, Advanced DEF Phases
<1>5. Input(r) \in InputsOf(r)
  BY <1>3 DEF Input, InputsOf
<1>6. pos[r] < Len(tx.inputs) \/ pos[r] = Len(tx.inputs)
  BY <1>3, Lists
<1>7. held' = [u \in Runs |-> held'[u]] /\ \A u \in Runs \ {r} : held'[u] = held[u]
  BY <1>1 DEF CallInv
<1> QED
  BY <1>1, <1>2, <1>3, <1>4, <1>5, <1>6, <1>7

LEMMA InsertPuts ==
  ASSUME CallInv, NEW r \in Runs, InsertPut(r)
  PROVE  /\ r \notin lost /\ pc[r] = "insert" /\ call[r] = "put" /\ call' = [call EXCEPT ![r] = "latest"]
         /\ UNCHANGED <<latest, pc, pos, spentBy, held, lost>>
         /\ pos[r] \in DOMAIN TxOf[r].proposals /\ Proposal(r).id \in ProposedBy(r)
         /\ DOMAIN outputs' = DOMAIN outputs \cup {Proposal(r).id}
         /\ outputs'[Proposal(r).id] = Proposal(r).body
         /\ \A o \in DOMAIN outputs : o # Proposal(r).id => outputs'[o] = outputs[o]
         /\ spent' = spent \ {Proposal(r).id}
         /\ madeBy' = [madeBy EXCEPT ![r] = madeBy[r] \cup {Proposal(r).id}]
<1>1. /\ r \notin lost /\ pc[r] = "insert" /\ call[r] = "put" /\ call' = [call EXCEPT ![r] = "latest"]
      /\ UNCHANGED <<latest, pc, pos, spentBy, held, lost>>
      /\ outputs' = Put(outputs, Proposal(r).id, Proposal(r).body)
      /\ spent' = spent \ {Proposal(r).id}
      /\ madeBy' = [madeBy EXCEPT ![r] = madeBy[r] \cup {Proposal(r).id}]
  BY DEF InsertPut, runVars
<1>2. pos[r] \in DOMAIN TxOf[r].proposals
  BY <1>1, Lists DEF CallInv
<1> QED
  BY <1>1, <1>2 DEF Proposal, ProposedBy, Put

LEMMA InsertEnds ==
  ASSUME CallInv, NEW r \in Runs, InsertLatest(r)
  PROVE  /\ OnlyControl(r) /\ UNCHANGED <<outputs, spent, traceVars, held, lost>>
         /\ pc[r] = "insert" /\ call[r] = "latest" /\ call' = [call EXCEPT ![r] = "look"]
         /\ latest' = Put(latest, Proposal(r).body.object, Proposal(r).id)
         /\ \/ pos[r] < Len(TxOf[r].proposals) /\ pc'[r] = "insert" /\ pos'[r] = pos[r] + 1
            \/ pos[r] = Len(TxOf[r].proposals) /\ pos'[r] = 1 /\ pc'[r] = "accepted"
<1>1. /\ r \notin lost /\ pc[r] = "insert" /\ call[r] = "latest" /\ call' = [call EXCEPT ![r] = "look"]
      /\ UNCHANGED <<outputs, spent, traceVars, held, lost>>
      /\ latest' = Put(latest, Proposal(r).body.object, Proposal(r).id)
      /\ Advance(r, TxOf[r].proposals, "accepted")
  BY DEF InsertLatest
<1>2. /\ OnlyControl(r)
      /\ \/ pos[r] < Len(TxOf[r].proposals) /\ pc'[r] = pc[r] /\ pos'[r] = pos[r] + 1
         \/ ~(pos[r] < Len(TxOf[r].proposals)) /\ pc'[r] = "accepted" /\ pos'[r] = 1
  BY <1>1, Advanced DEF Phases
<1>3. pos[r] < Len(TxOf[r].proposals) \/ pos[r] = Len(TxOf[r].proposals)
  BY <1>1, Lists DEF CallInv
<1> QED
  BY <1>1, <1>2, <1>3

\* What else happens to the node.
LEMMA NodeSteps ==
  ASSUME CallInv, Crash \/ Prune \/ (Tick /\ UNCHANGED durableVars) \/ UNCHANGED allVars
  PROVE  /\ UNCHANGED <<pc, pos, call, held, traceVars>> /\ lost \subseteq lost' /\ lost' \subseteq Runs
         /\ \/ UNCHANGED storeVars
            \/ /\ lost' = lost /\ \A r \in Runs : ~UnderWay(r)
               /\ outputs' = [o \in DOMAIN outputs \ Prunable |-> outputs[o]]
               /\ spent' = spent \ Prunable /\ latest' = PointersKept(Prunable)
  BY DEF Crash, Prune, Tick, durableVars, allVars, vars, runVars, CallInv, UnderWay

-----------------------------------------------------------------------------
(* Of every instance: what an accepted transaction made survives.          *)

LEMMA CallInit == DurableInit => CallInv
  BY DEF DurableInit, Init, CallInv, Phases

LEMMA CallStep == ASSUME CallInv, [DurableNext]_allVars PROVE CallInv'
<1>1. ASSUME NEW r \in Runs, OnlyControl(r),
             call' = [call EXCEPT ![r] = "look"] \/ (call' = call /\ call[r] = "look"),
             held' = [u \in Runs |-> held'[u]], lost' = lost,
             spentBy' = [u \in Runs |-> spentBy'[u]], madeBy' = [u \in Runs |-> madeBy'[u]],
             pc'[r] = "spend" => pos'[r] <= Len(TxOf[r].inputs),
             pc'[r] = "insert" => pos'[r] <= Len(TxOf[r].proposals)
      PROVE  CallInv'
  <2>1. call'[r] = "look" /\ call' \in [Runs -> {"look", "put", "latest"}]
        /\ \A u \in Runs \ {r} : call'[u] = call[u] /\ pc'[u] = pc[u] /\ pos'[u] = pos[u]
    BY <1>1, ZenonT(60) DEF CallInv, OnlyControl
  <2>2. /\ pc' \in [Runs -> Phases] /\ pos' \in [Runs -> Nat \ {0}]
        /\ held' = [u \in Runs |-> held'[u]] /\ lost' \subseteq Runs
    BY <1>1 DEF CallInv, OnlyControl
  <2>3. ASSUME NEW u \in Runs
        PROVE  /\ pc'[u] \notin {"spend", "insert"} => call'[u] = "look"
               /\ pc'[u] = "spend" => pos'[u] <= Len(TxOf[u].inputs) /\ call'[u] # "latest"
               /\ pc'[u] = "insert" => pos'[u] <= Len(TxOf[u].proposals)
    <3>1. CASE u = r
      BY <1>1, <2>1, <3>1
    <3>2. CASE u # r
      BY <2>1, <3>2 DEF CallInv
    <3> QED
      BY <3>1, <3>2
  <2> QED
    BY <1>1, <2>1, <2>2, <2>3 DEF CallInv
<1>2. ASSUME NEW r \in Runs, Start(r) \/ Validate(r) PROVE CallInv'
  <2>1. /\ UNCHANGED <<call, held, lost, spentBy, madeBy>> /\ pc[r] \in Validating /\ OnlyControl(r) /\ Enters(r)
    BY <1>2, Validates DEF durableVars, traceVars
  <2>2. /\ call[r] = "look" /\ held' = [u \in Runs |-> held'[u]]
        /\ spentBy' = [u \in Runs |-> spentBy'[u]] /\ madeBy' = [u \in Runs |-> madeBy'[u]]
    BY <2>1 DEF CallInv, Validating
  <2>3. /\ pc'[r] = "spend" => pos'[r] <= Len(TxOf[r].inputs)
        /\ pc'[r] = "insert" => pos'[r] <= Len(TxOf[r].proposals)
    BY <2>1, Lists DEF Enters
  <2> QED
    BY <1>1, <2>1, <2>2, <2>3
<1>3. ASSUME NEW r \in Runs, Refused(r) PROVE CallInv'
  <2>1. OnlyControl(r) /\ pc'[r] = "rejected" /\ UNCHANGED <<call, held, lost, spentBy, madeBy>> /\ call[r] = "look"
    BY <1>3, Refuses DEF Refused, traceVars
  <2>2. /\ held' = [u \in Runs |-> held'[u]]
        /\ spentBy' = [u \in Runs |-> spentBy'[u]] /\ madeBy' = [u \in Runs |-> madeBy'[u]]
    BY <2>1 DEF CallInv
  <2> QED
    BY <1>1, <2>1, <2>2
<1>4. ASSUME NEW r \in Runs, Found(r) PROVE CallInv'
  <2>1. held' = [u \in Runs |-> held'[u]]
    BY <1>4 DEF Found, CallInv
  <2> QED
    BY <1>4, <2>1 DEF Found, CallInv, traceVars
<1>5. ASSUME NEW r \in Runs, SpendPut(r) PROVE CallInv'
  <2>1. /\ OnlyControl(r) /\ UNCHANGED <<madeBy, lost>> /\ call' = [call EXCEPT ![r] = "look"]
        /\ held' = [u \in Runs |-> held'[u]]
        /\ spentBy' = [spentBy EXCEPT ![r] = spentBy[r] \cup {Input(r)}]
    BY <1>5, SpendPuts
  <2>2. /\ pc'[r] = "spend" => pos'[r] <= Len(TxOf[r].inputs)
        /\ pc'[r] = "insert" => pos'[r] <= Len(TxOf[r].proposals)
    <3>1. /\ pc'[r] = "spend" => pos[r] < Len(TxOf[r].inputs) /\ pos'[r] = pos[r] + 1
          /\ pc'[r] = "insert" => pos'[r] = 1 /\ TxOf[r].proposals # << >>
      BY <1>5, SpendPuts
    <3>2. pos[r] \in Nat /\ Len(TxOf[r].inputs) \in Nat /\ Len(TxOf[r].proposals) \in Nat
      BY Lists DEF CallInv
    <3>3. TxOf[r].proposals # << >> => 1 <= Len(TxOf[r].proposals)
      BY Lists
    <3> QED
      BY <3>1, <3>2, <3>3
  <2>3. spentBy' = [u \in Runs |-> spentBy'[u]] /\ madeBy' = [u \in Runs |-> madeBy'[u]]
    BY <2>1 DEF CallInv
  <2>4. lost' = lost
    BY <2>1
  <2> QED
    BY <1>1, <2>1, <2>2, <2>3, <2>4
<1>6. ASSUME NEW r \in Runs, InsertPut(r) PROVE CallInv'
  BY <1>6, InsertPuts, ZenonT(60) DEF CallInv
<1>7. ASSUME NEW r \in Runs, InsertLatest(r) PROVE CallInv'
  <2>1. /\ OnlyControl(r) /\ UNCHANGED <<spentBy, madeBy, lost, held>> /\ call' = [call EXCEPT ![r] = "look"]
    BY <1>7, InsertEnds DEF traceVars
  <2>2. /\ pc'[r] = "spend" => pos'[r] <= Len(TxOf[r].inputs)
        /\ pc'[r] = "insert" => pos'[r] <= Len(TxOf[r].proposals)
    BY <1>7, InsertEnds, Lists DEF CallInv
  <2>3. /\ held' = [u \in Runs |-> held'[u]]
        /\ spentBy' = [u \in Runs |-> spentBy'[u]] /\ madeBy' = [u \in Runs |-> madeBy'[u]]
    BY <2>1 DEF CallInv
  <2>4. lost' = lost
    BY <2>1
  <2> QED
    BY <1>1, <2>1, <2>2, <2>3, <2>4
<1>8. CASE Crash \/ Prune \/ (Tick /\ UNCHANGED durableVars) \/ UNCHANGED allVars
  BY <1>8, NodeSteps DEF CallInv, traceVars
<1> QED
  BY <1>2, <1>3, <1>4, <1>5, <1>6, <1>7, <1>8, Looks DEF DurableNext, RunStep

LEMMA SurvivalStep == ASSUME CallInv, SurvivalInv, [DurableNext]_allVars PROVE SurvivalInv'
<1>1. ASSUME \A o : Kept(o) => Kept(o)', \A o \in spent' : \E u \in Runs : o \in spentBy'[u],
             NEW r \in Runs, \A u \in Runs \ {r} : pc'[u] = pc[u] /\ Inserted(u)' = Inserted(u),
             pc'[r] = "insert" => \A i \in 1..Inserted(r)' : Kept(TxOf[r].proposals[i].id)',
             pc'[r] = "accepted" => \A i \in DOMAIN TxOf[r].proposals : Kept(TxOf[r].proposals[i].id)'
      PROVE  SurvivalInv'
  BY <1>1 DEF SurvivalInv
<1>2. ASSUME NEW r \in Runs, UNCHANGED <<outputs, spent, spentBy, call>>, OnlyControl(r),
             pc'[r] \notin {"insert", "accepted"} \/ (Enters(r) /\ call[r] = "look")
      PROVE  SurvivalInv'
  <2>1. \A o : Kept(o) => Kept(o)'
    BY <1>2 DEF Kept
  <2>2. \A u \in Runs \ {r} : pc'[u] = pc[u] /\ Inserted(u)' = Inserted(u)
    BY <1>2 DEF OnlyControl, Inserted, CallInv
  <2>3. /\ pc'[r] = "insert" => Inserted(r)' = 0
        /\ pc'[r] = "accepted" => DOMAIN TxOf[r].proposals = {}
    BY <1>2, Lists DEF Enters, Inserted
  <2> QED
    BY <1>1, <1>2, <2>1, <2>2, <2>3 DEF SurvivalInv
<1>3. ASSUME NEW r \in Runs, Start(r) \/ Validate(r) PROVE SurvivalInv'
  <2>1. call[r] = "look"
    BY <1>3, Validates DEF CallInv, Validating
  <2> QED
    BY <1>2, <1>3, <2>1, Validates DEF storeVars, traceVars, durableVars
<1>4. ASSUME NEW r \in Runs, Refused(r) PROVE SurvivalInv'
  BY <1>2, <1>4, Refuses DEF Refused, storeVars, traceVars
<1>5. ASSUME NEW r \in Runs, Found(r) PROVE SurvivalInv'
  <2>1. \A u \in Runs : pc'[u] = pc[u] /\ Inserted(u)' = Inserted(u)
    BY <1>5 DEF Found, Inserted, CallInv
  <2>2. UNCHANGED <<outputs, spent, spentBy>>
    BY <1>5 DEF Found, storeVars, traceVars
  <2> QED
    BY <2>1, <2>2 DEF SurvivalInv, Kept
<1>6. ASSUME NEW r \in Runs, SpendPut(r) PROVE SurvivalInv'
  <2>1. /\ OnlyControl(r) /\ call' = [call EXCEPT ![r] = "look"]
        /\ spentBy' = [spentBy EXCEPT ![r] = spentBy[r] \cup {Input(r)}]
        /\ pc'[r] = "insert" => pos'[r] = 1
        /\ pc'[r] = "accepted" => TxOf[r].proposals = << >>
    BY <1>6, SpendPuts
  <2>2. DOMAIN outputs \subseteq DOMAIN outputs' /\ spent' = spent \cup {Input(r)}
    BY <1>6 DEF SpendPut, Put, Flagged
  <2>3. \A o : Kept(o) => Kept(o)'
    BY <2>1, <2>2 DEF Kept, CallInv
  <2>4. \A o \in spent' : \E u \in Runs : o \in spentBy'[u]
    BY <2>1, <2>2 DEF SurvivalInv, CallInv
  <2>5. \A u \in Runs \ {r} : pc'[u] = pc[u] /\ Inserted(u)' = Inserted(u)
    BY <2>1 DEF OnlyControl, Inserted, CallInv
  <2>6. /\ pc'[r] = "insert" => Inserted(r)' = 0
        /\ pc'[r] = "accepted" => DOMAIN TxOf[r].proposals = {}
    BY <2>1, Lists DEF Inserted, CallInv
  <2> QED
    BY <1>1, <2>3, <2>4, <2>5, <2>6
<1>7. ASSUME NEW r \in Runs, InsertPut(r) PROVE SurvivalInv'
  <2>1. \A o : Kept(o) => Kept(o)'
    BY <1>7, InsertPuts DEF Kept
  <2>2. \A o \in spent' : \E u \in Runs : o \in spentBy'[u]
    BY <1>7, InsertPuts DEF SurvivalInv
  <2>0. /\ pc[r] = "insert" /\ call[r] = "put" /\ call' = [call EXCEPT ![r] = "latest"]
        /\ UNCHANGED <<pc, pos>>
    BY <1>7, InsertPuts
  <2>3. \A u \in Runs \ {r} : pc'[u] = pc[u] /\ Inserted(u)' = Inserted(u)
    BY <2>0 DEF Inserted, CallInv
  <2>4. ASSUME NEW i \in 1..Inserted(r)' PROVE Kept(TxOf[r].proposals[i].id)'
    <3>1. /\ Inserted(r)' = pos[r] /\ Inserted(r) = pos[r] - 1 /\ pos[r] \in Nat
          /\ pc[r] = "insert"
      BY <2>0 DEF Inserted, CallInv
    <3>2. CASE i = pos[r]
      BY <1>7, <3>2, InsertPuts DEF Kept, Proposal
    <3>3. CASE i \in 1..Inserted(r)
      BY <2>1, <3>1, <3>3 DEF SurvivalInv
    <3> QED
      BY <3>1, <3>2, <3>3
  <2>5. pc'[r] = "insert"
    BY <1>7, InsertPuts
  <2> QED
    BY <1>1, <2>1, <2>2, <2>3, <2>4, <2>5
<1>8. ASSUME NEW r \in Runs, InsertLatest(r) PROVE SurvivalInv'
  <2>1. UNCHANGED <<outputs, spent, spentBy>>
    BY <1>8, InsertEnds DEF traceVars
  <2>2. \A o : Kept(o) => Kept(o)'
    BY <2>1 DEF Kept
  <2>3. \A u \in Runs \ {r} : pc'[u] = pc[u] /\ Inserted(u)' = Inserted(u)
    BY <1>8, InsertEnds DEF OnlyControl, Inserted, CallInv
  <2>4. \A i \in 1..pos[r] : Kept(TxOf[r].proposals[i].id)
    BY <1>8, InsertEnds DEF SurvivalInv, Inserted
  <2>5. pc'[r] = "insert" => Inserted(r)' = pos[r]
    BY <1>8, InsertEnds DEF Inserted, CallInv
  <2>6. pc'[r] = "accepted" => DOMAIN TxOf[r].proposals = 1..pos[r]
    BY <1>8, InsertEnds, Lists
  <2> QED
    BY <1>1, <2>1, <2>2, <2>3, <2>4, <2>5, <2>6 DEF SurvivalInv
<1>9. CASE Crash \/ Prune \/ (Tick /\ UNCHANGED durableVars) \/ UNCHANGED allVars
  <2>1. /\ UNCHANGED <<pc, pos, call, spentBy>> /\ spent' \subseteq spent
        /\ \A o \in DOMAIN outputs \ DOMAIN outputs' : o \in spent
    BY <1>9, NodeSteps DEF traceVars, storeVars, Prunable
  <2>2. \A o : Kept(o) => Kept(o)'
    BY <2>1 DEF Kept, SurvivalInv
  <2> QED
    BY <2>1, <2>2 DEF SurvivalInv, Inserted
<1> QED
  BY <1>3, <1>4, <1>5, <1>6, <1>7, <1>8, <1>9, Looks DEF DurableNext, RunStep

\* What an accepted transaction made is in the database until another run consumes
\* it, whatever crashes and is pruned, with or without races.
THEOREM AcceptedKept == DurableSpec => []AcceptedSurvives
<1>1. DurableInit => CallInv /\ SurvivalInv
  BY CallInit DEF DurableInit, Init, SurvivalInv
<1>2. CallInv /\ SurvivalInv /\ [DurableNext]_allVars => (CallInv /\ SurvivalInv)'
  BY CallStep, SurvivalStep
<1>3. SurvivalInv => AcceptedSurvives
  BY DEF SurvivalInv, AcceptedSurvives, Kept
<1> QED
  BY <1>1, <1>2, <1>3, PTL DEF DurableSpec

-----------------------------------------------------------------------------
(* With conflicting runs apart: what was looked up is still so.            *)

\* The runs but r stand where they stood.
Others(r) == \A u \in Runs \ {r} : /\ pc'[u] = pc[u] /\ pos'[u] = pos[u] /\ call'[u] = call[u]
                                   /\ held'[u] = held[u]

\* A run in its store calls is under way, and touches what it writes.
LEMMA Writing ==
  ASSUME CallInv, NEW u \in Runs \ lost, pc[u] \in {"spend", "insert"}
  PROVE  /\ UnderWay(u)
         /\ pc[u] = "spend" => Input(u) \in Touches(u)
         /\ pc[u] = "insert" => Proposal(u).id \in Touches(u)
<1>1. UnderWay(u)
  BY DEF UnderWay, Terminal
<1>2. ASSUME pc[u] = "spend" PROVE Input(u) \in Touches(u)
  <2>1. pos[u] \in DOMAIN TxOf[u].inputs
    BY <1>2, Lists DEF CallInv
  <2> QED
    BY <2>1 DEF Input, InputsOf, Touches
<1>3. ASSUME pc[u] = "insert" PROVE Proposal(u).id \in Touches(u)
  <2>1. pos[u] \in DOMAIN TxOf[u].proposals
    BY <1>3, Lists DEF CallInv
  <2> QED
    BY <2>1 DEF Proposal, ProposedBy, Touches
<1> QED
  BY <1>1, <1>2, <1>3

\* Only its start puts a run under way, and ends its being idle.
LEMMA KeepsUnderWay ==
  ASSUME CallInv, NEW r \in Runs, RunStep(r)
  PROVE  /\ lost' = lost /\ Others(r) /\ UnderWay(r)
         /\ \A u \in Runs : UnderWay(u)' => UnderWay(u)
<1>1. CASE Validate(r)
  <2>1. /\ OnlyControl(r) /\ UNCHANGED <<call, held, lost>> /\ pc[r] \in Validating \ {"idle"}
        /\ r \notin lost
    BY <1>1, Validates DEF Validate, durableVars, Prepare, ReadInput, ReadReference, CheckResolved,
       ReadClock, RegisterNonce, Validating
  <2> QED
    BY <2>1 DEF OnlyControl, CallInv, Others, UnderWay, Validating, Terminal
<1>2. CASE Refused(r)
  <2>1. OnlyControl(r) /\ UNCHANGED <<call, held, lost>> /\ pc[r] \in {"spend", "insert"} /\ r \notin lost
    BY <1>2, Refuses DEF Refused
  <2> QED
    BY <2>1 DEF OnlyControl, CallInv, Others, UnderWay, Terminal
<1>3. CASE Found(r)
  BY <1>3 DEF Found, CallInv, Others, UnderWay, Terminal
<1>4. CASE SpendPut(r)
  <2>1. /\ OnlyControl(r) /\ UNCHANGED lost /\ pc[r] = "spend" /\ r \notin lost
        /\ call' = [call EXCEPT ![r] = "look"] /\ \A u \in Runs \ {r} : held'[u] = held[u]
    BY <1>4, SpendPuts DEF SpendPut
  <2> QED
    BY <2>1 DEF OnlyControl, CallInv, Others, UnderWay, Terminal
<1>5. CASE InsertPut(r)
  <2>1. /\ pc[r] = "insert" /\ r \notin lost /\ call' = [call EXCEPT ![r] = "latest"]
        /\ UNCHANGED <<pc, pos, held, lost>>
    BY <1>5, InsertPuts
  <2> QED
    BY <2>1 DEF CallInv, Others, UnderWay, Terminal
<1>6. CASE InsertLatest(r)
  <2>1. /\ OnlyControl(r) /\ UNCHANGED <<held, lost>> /\ pc[r] = "insert" /\ r \notin lost
        /\ call' = [call EXCEPT ![r] = "look"]
    BY <1>6, InsertEnds DEF InsertLatest
  <2> QED
    BY <2>1 DEF OnlyControl, CallInv, Others, UnderWay, Terminal
<1> QED
  BY <1>1, <1>2, <1>3, <1>4, <1>5, <1>6, Looks DEF RunStep

LEMMA ApartStep == ASSUME ConflictsApart, CallInv, ApartInv, [DurableNext]_allVars PROVE ApartInv'
<1>1. ASSUME NEW r \in Runs, Start(r) PROVE ApartInv'
  <2>1. /\ OnlyControl(r) /\ UNCHANGED lost
        /\ \A s \in Runs : UnderWay(s) => <<r, s>> \notin Apart
    BY <1>1, Validates DEF Start, durableVars
  <2>2. \A u \in Runs \ {r} : UnderWay(u)' => UnderWay(u)
    BY <2>1 DEF OnlyControl, CallInv, UnderWay
  <2>3. \A u \in Runs \ {r} : UnderWay(u)' => Touches(r) \cap Touches(u) = {}
    BY <2>1, <2>2 DEF ConflictsApart
  <2> QED
    BY <2>2, <2>3 DEF ApartInv
<1>2. ASSUME NEW r \in Runs, RunStep(r) PROVE ApartInv'
  BY <1>2, KeepsUnderWay DEF ApartInv
<1>3. CASE Crash \/ Prune \/ (Tick /\ UNCHANGED durableVars) \/ UNCHANGED allVars
  <2>1. UNCHANGED pc /\ lost \subseteq lost'
    BY <1>3, NodeSteps
  <2> QED
    BY <2>1 DEF ApartInv, UnderWay
<1> QED
  BY <1>1, <1>2, <1>3 DEF DurableNext

\* A run that is still where it was, with what it looked at.
LEMMA FrameStillSo ==
  ASSUME NEW r \in Runs, Others(r), NEW u \in Runs \ {r}, StillSo(u),
         pc[u] = "spend" /\ call[u] = "put" =>
           (Input(u) \in DOMAIN outputs' \ spent' /\ outputs'[Input(u)] = outputs[Input(u)]),
         pc[u] = "insert" /\ call[u] = "put" => Proposal(u).id \notin DOMAIN outputs',
         pc[u] = "insert" /\ call[u] = "latest" =>
           (Proposal(u).id \in DOMAIN outputs' /\ outputs'[Proposal(u).id] = outputs[Proposal(u).id])
  PROVE  StillSo(u)'
<1>1. Input(u)' = Input(u) /\ Proposal(u)' = Proposal(u)
  BY DEF Others, Input, Proposal
<1> QED
  BY <1>1 DEF Others, StillSo, Vacant

LEMMA LookStep ==
  ASSUME CallInv, ApartInv, LookInv, [DurableNext]_allVars
  PROVE  LookInv'
<1>1. ASSUME NEW r \in Runs, Start(r) \/ Validate(r) PROVE LookInv'
  <2>1. /\ OnlyControl(r) /\ UNCHANGED <<outputs, spent, call, held, lost>> /\ call[r] = "look"
    BY <1>1, Validates DEF storeVars, durableVars, CallInv, Validating
  <2>2. Others(r) /\ call'[r] = "look"
    BY <2>1 DEF Others, OnlyControl, CallInv
  <2>3. \A u \in Runs \ lost : u # r => StillSo(u)'
    BY <2>1, <2>2, FrameStillSo DEF LookInv, StillSo, Vacant
  <2>4. StillSo(r)'
    BY <2>2 DEF StillSo
  <2> QED
    BY <2>1, <2>3, <2>4 DEF LookInv
<1>2. ASSUME NEW r \in Runs, Refused(r) \/ Found(r) PROVE LookInv'
  <2>1. /\ Others(r) /\ UNCHANGED <<outputs, spent, lost>>
    BY <1>2, Refuses DEF Refused, Found, storeVars, Others, OnlyControl, CallInv
  <2>3. \A u \in Runs \ lost : u # r => StillSo(u)'
    BY <2>1, FrameStillSo DEF LookInv, StillSo, Vacant
  <2>4. CASE Refused(r)
    <3>1. pc'[r] = "rejected"
      BY <2>4, Refuses
    <3> QED
      BY <2>1, <2>3, <3>1 DEF LookInv, StillSo
  <2>5. CASE Found(r)
    <3>1. /\ pc'[r] = pc[r] /\ call'[r] = "put" /\ Input(r)' = Input(r) /\ Proposal(r)' = Proposal(r)
          /\ pc[r] = "spend" => Spendable(Input(r)) /\ held'[r] = outputs[Input(r)]
          /\ pc[r] = "insert" => Vacant(Proposal(r).id)
      BY <2>5 DEF Found, CallInv, Input, Proposal
    <3>2. StillSo(r)'
      BY <2>1, <3>1 DEF StillSo, Spendable, Vacant
    <3> QED
      BY <2>1, <2>3, <3>2 DEF LookInv
  <2> QED
    BY <1>2, <2>4, <2>5
<1>3. ASSUME NEW r \in Runs, SpendPut(r) PROVE LookInv'
  <2>1. /\ Others(r) /\ UNCHANGED lost /\ UnderWay(r)
        /\ call' = [call EXCEPT ![r] = "look"] /\ Input(r) \in InputsOf(r)
    BY <1>3, KeepsUnderWay, SpendPuts DEF RunStep
  <2>2. /\ r \notin lost /\ pc[r] = "spend" /\ call[r] = "put"
        /\ outputs' = Put(outputs, Input(r), held[r]) /\ spent' = spent \cup {Input(r)}
    BY <1>3 DEF SpendPut, Flagged
  <2>3. Input(r) \in DOMAIN outputs /\ held[r] = outputs[Input(r)]
    BY <2>2 DEF LookInv, StillSo
  <2>4. DOMAIN outputs' = DOMAIN outputs /\ \A o \in DOMAIN outputs : outputs'[o] = outputs[o]
    BY <2>2, <2>3 DEF Put
  <2>5. ASSUME NEW u \in Runs \ lost, u # r PROVE StillSo(u)'
    <3>1. ASSUME pc[u] = "spend" PROVE Input(u) # Input(r)
      BY <2>1, <2>5, <3>1, Writing DEF ApartInv, Touches
    <3> QED
      BY <2>1, <2>2, <2>4, <2>5, <3>1, FrameStillSo DEF LookInv, StillSo, Vacant
  <2>6. StillSo(r)'
    BY <2>1 DEF StillSo, CallInv
  <2> QED
    BY <2>1, <2>5, <2>6 DEF LookInv
<1>4. ASSUME NEW r \in Runs, InsertPut(r) PROVE LookInv'
  <2> DEFINE id == Proposal(r).id
  <2>1. /\ Others(r) /\ UNCHANGED <<lost, pc, pos>> /\ UnderWay(r) /\ pc[r] = "insert" /\ call[r] = "put" /\ r \notin lost
        /\ call' = [call EXCEPT ![r] = "latest"]
    BY <1>4, KeepsUnderWay, InsertPuts DEF RunStep
  <2>2. /\ DOMAIN outputs' = DOMAIN outputs \cup {id} /\ outputs'[id] = Proposal(r).body
        /\ \A o \in DOMAIN outputs : o # id => outputs'[o] = outputs[o]
        /\ spent' = spent \ {id}
    BY <1>4, InsertPuts
  <2>3. id \notin DOMAIN outputs /\ id \in Touches(r)
    BY <2>1, Writing DEF LookInv, StillSo, Vacant
  <2>4. ASSUME NEW u \in Runs \ lost, u # r PROVE StillSo(u)'
    <3>1. ASSUME pc[u] = "insert" PROVE Proposal(u).id # id
      BY <2>1, <2>3, <2>4, <3>1, Writing DEF ApartInv
    <3> HIDE DEF id
    <3> QED
      BY <2>1, <2>2, <2>3, <2>4, <3>1, FrameStillSo DEF LookInv, StillSo, Vacant
  <2>5. pc'[r] = "insert" /\ call'[r] = "latest" /\ Proposal(r)' = Proposal(r)
    BY <2>1 DEF CallInv, Proposal
  <2>6. StillSo(r)'
    BY <2>2, <2>5 DEF StillSo
  <2> QED
    BY <2>1, <2>4, <2>6 DEF LookInv
<1>5. ASSUME NEW r \in Runs, InsertLatest(r) PROVE LookInv'
  <2>1. /\ Others(r) /\ UNCHANGED <<outputs, spent, lost>> /\ call'[r] = "look"
    BY <1>5, KeepsUnderWay, InsertEnds DEF RunStep, CallInv
  <2>2. \A u \in Runs \ lost : u # r => StillSo(u)'
    BY <2>1, FrameStillSo DEF LookInv, StillSo, Vacant
  <2> QED
    BY <2>1, <2>2 DEF LookInv, StillSo
<1>6. CASE Crash \/ Prune \/ (Tick /\ UNCHANGED durableVars) \/ UNCHANGED allVars
  <2>1. UNCHANGED <<pc, pos, call, held>> /\ lost \subseteq lost' /\ lost' \subseteq Runs
    BY <1>6, NodeSteps
  <2>2. CASE UNCHANGED storeVars
    BY <2>1, <2>2 DEF LookInv, StillSo, storeVars, Vacant, Input, Proposal
  <2>3. CASE lost' = lost /\ \A r \in Runs : ~UnderWay(r)
    BY <2>1, <2>3, Writing DEF LookInv, StillSo
  <2> QED
    BY <1>6, <2>2, <2>3, NodeSteps
<1> QED
  BY <1>1, <1>2, <1>3, <1>4, <1>5, <1>6, Looks DEF DurableNext, RunStep

LEMMA LatestStep ==
  ASSUME CallInv, LookInv, LatestResolves, [DurableNext]_allVars
  PROVE  LatestResolves'
<1>1. CASE UNCHANGED storeVars
  BY <1>1 DEF LatestResolves, storeVars
<1>2. ASSUME NEW r \in Runs, SpendPut(r) PROVE LatestResolves'
  <2>1. /\ UNCHANGED latest /\ Input(r) \in DOMAIN outputs /\ held[r] = outputs[Input(r)]
        /\ outputs' = Put(outputs, Input(r), held[r])
    BY <1>2 DEF SpendPut, LookInv, StillSo
  <2> QED
    BY <2>1 DEF LatestResolves, Put
<1>3. ASSUME NEW r \in Runs, InsertPut(r) PROVE LatestResolves'
  <2>1. /\ UNCHANGED latest /\ DOMAIN outputs \subseteq DOMAIN outputs'
        /\ \A o \in DOMAIN outputs : o # Proposal(r).id => outputs'[o] = outputs[o]
    BY <1>3, InsertPuts
  <2>2. Proposal(r).id \notin DOMAIN outputs
    BY <1>3, InsertPuts DEF LookInv, StillSo, Vacant
  <2> QED
    BY <2>1, <2>2 DEF LatestResolves
<1>4. ASSUME NEW r \in Runs, InsertLatest(r) PROVE LatestResolves'
  <2>1. /\ UNCHANGED outputs /\ latest' = Put(latest, Proposal(r).body.object, Proposal(r).id)
    BY <1>4, InsertEnds
  <2>2. Proposal(r).id \in DOMAIN outputs /\ outputs[Proposal(r).id] = Proposal(r).body
    BY <1>4 DEF InsertLatest, LookInv, StillSo
  <2> QED
    BY <2>1, <2>2 DEF LatestResolves, Put
<1>5. CASE Prune
  BY <1>5 DEF Prune, PointersKept, LatestResolves
<1>6. ASSUME NEW r \in Runs, Start(r) \/ Validate(r) \/ Refused(r) \/ Found(r) PROVE UNCHANGED storeVars
  BY <1>6, Validates DEF Refused, Found
<1>7. CASE Crash \/ (Tick /\ UNCHANGED durableVars) \/ UNCHANGED allVars
  BY <1>1, <1>7 DEF Crash, Tick, allVars, vars
<1> QED
  BY <1>1, <1>2, <1>3, <1>4, <1>5, <1>6, <1>7, Looks DEF DurableNext, RunStep

LEMMA StoreInit == DurableInit => StoreInv
<1>1. ASSUME DurableInit PROVE LatestResolves
  <2>1. ASSUME NEW obj \in GenesisObjects PROVE Newest(CHOOSE o \in OutputIds : Newest(o, obj), obj)
    BY GenesisAssumption
  <2> QED
    BY <1>1, <2>1 DEF DurableInit, Init, LatestResolves, Newest
<1>2. ASSUME DurableInit PROVE ApartInv /\ LookInv
  BY <1>2 DEF DurableInit, Init, ApartInv, LookInv, StillSo, UnderWay
<1> QED
  BY <1>1, <1>2 DEF StoreInv

LEMMA StoreStep ==
  ASSUME ConflictsApart
  PROVE  CallInv /\ StoreInv /\ [DurableNext]_allVars => (CallInv /\ StoreInv)'
BY CallStep, ApartStep, LookStep, LatestStep DEF StoreInv

\* Where runs that touch one output are never under way together, every latest
\* pointer leads to a stored output of its object, also after crashes and prunings.
THEOREM PointersResolve ==
  ASSUME ConflictsApart
  PROVE  DurableSpec => []LatestResolves
<1>1. CallInv /\ StoreInv => LatestResolves
  BY DEF StoreInv
<1> QED
  BY <1>1, CallInit, StoreInit, StoreStep, PTL DEF DurableSpec

-----------------------------------------------------------------------------
(* With ids not reused: no output is consumed twice.                       *)

LEMMA SpendInit == DurableInit => SpendInv /\ MadeInv
  BY DEF DurableInit, Init, SpendInv, MadeInv, UnderWay

\* Control moves, the database and the history stay.
LEMMA FrameSpend ==
  ASSUME CallInv, SpendInv, MadeInv, NEW r \in Runs, OnlyControl(r), lost' = lost,
         UNCHANGED <<outputs, spent, spentBy, madeBy>>,
         UnderWay(r)' => (UnderWay(r) \/ madeBy[r] = {}),
         madeBy[r] # {} => pc'[r] \in {"insert", "accepted", "rejected"},
         pc'[r] = "spend" => \A i \in 1..(pos'[r] - 1) : TxOf[r].inputs[i] \in spentBy[r],
         pc'[r] \in {"insert", "accepted"} => InputsOf(r) \subseteq spentBy[r]
  PROVE  SpendInv' /\ MadeInv'
<1>1. \A u \in Runs \ {r} : pc'[u] = pc[u] /\ pos'[u] = pos[u] /\ (UnderWay(u)' <=> UnderWay(u))
  BY DEF OnlyControl, CallInv, UnderWay
<1>2. SpendInv'
  BY <1>1 DEF SpendInv
<1>3. MadeInv'
  BY <1>1 DEF MadeInv
<1> QED
  BY <1>2, <1>3

\* What InsertPut makes nobody has consumed.
LEMMA NewInsert ==
  ASSUME IdsNotReused, CallInv, StoreInv, SpendInv, MadeInv, NEW r \in Runs, InsertPut(r), NEW s \in Runs
  PROVE  Proposal(r).id \notin spentBy[s]
<1> DEFINE id == Proposal(r).id
<1>1. /\ r \notin lost /\ pc[r] = "insert" /\ id \in ProposedBy(r) /\ id \notin DOMAIN outputs
  BY InsertPuts DEF StoreInv, LookInv, StillSo, Vacant
<1> SUFFICES ASSUME id \in spentBy[s] PROVE FALSE
  OBVIOUS
<1> HIDE DEF id
<1>2. id \in InputsOf(s) /\ id \notin DOMAIN Genesis
  BY <1>1 DEF SpendInv, IdsNotReused
<1>3. PICK m \in Runs : id \in madeBy[m]
  BY <1>2 DEF MadeInv
<1>4. UnderWay(r)
  BY <1>1, Writing
<1>5. m # r
  BY <1>1, <1>3, <1>4 DEF MadeInv
<1>6. id \in ProposedBy(m)
  BY <1>3 DEF MadeInv
<1>7. InputsOf(r) \cap InputsOf(m) # {}
  BY <1>1, <1>2, <1>5, <1>6 DEF IdsNotReused
<1>8. InputsOf(r) \subseteq spentBy[r] /\ InputsOf(m) \subseteq spentBy[m]
  BY <1>1, <1>3 DEF SpendInv
<1> QED
  BY <1>5, <1>7, <1>8 DEF SpendInv

LEMMA SpendStep ==
  ASSUME IdsNotReused, CallInv, StoreInv, SpendInv, MadeInv, [DurableNext]_allVars
  PROVE  SpendInv' /\ MadeInv'
<1>1. ASSUME NEW r \in Runs, Start(r) \/ Validate(r) PROVE SpendInv' /\ MadeInv'
  <2>1. /\ OnlyControl(r) /\ Enters(r) /\ UNCHANGED <<outputs, spent, spentBy, madeBy, lost>>
        /\ pc[r] \in Validating
    BY <1>1, Validates DEF storeVars, traceVars, durableVars
  <2>2. madeBy[r] = {}
    BY <2>1 DEF MadeInv, Validating
  <2>3. TxOf[r].inputs = << >> => InputsOf(r) = {}
    BY DEF InputsOf
  <2>4. pc'[r] = "spend" => \A i \in 1..(pos'[r] - 1) : TxOf[r].inputs[i] \in spentBy[r]
    BY <2>1 DEF Enters
  <2>5. pc'[r] \in {"insert", "accepted"} => InputsOf(r) \subseteq spentBy[r]
    BY <2>1, <2>3 DEF Enters
  <2> QED
    BY <2>1, <2>2, <2>4, <2>5, FrameSpend
<1>2. ASSUME NEW r \in Runs, Refused(r) PROVE SpendInv' /\ MadeInv'
  <2>1. OnlyControl(r) /\ pc'[r] = "rejected" /\ UNCHANGED <<outputs, spent, spentBy, madeBy, lost>>
    BY <1>2, Refuses DEF Refused, storeVars, traceVars
  <2>2. ~UnderWay(r)'
    BY <2>1 DEF UnderWay, Terminal
  <2> QED
    BY <2>1, <2>2, FrameSpend
<1>3. ASSUME NEW r \in Runs, Found(r) PROVE SpendInv' /\ MadeInv'
  BY <1>3 DEF Found, storeVars, traceVars, SpendInv, MadeInv, UnderWay
<1>4. ASSUME NEW r \in Runs, SpendPut(r) PROVE SpendInv' /\ MadeInv'
  <2> DEFINE in == Input(r)
  <2>1. /\ in \in DOMAIN outputs \ spent /\ held[r] = outputs[in]
        /\ outputs' = Put(outputs, in, held[r]) /\ spent' = spent \cup {in}
        /\ pc[r] = "spend"
    BY <1>4 DEF SpendPut, Flagged, StoreInv, LookInv, StillSo
  <2>2. DOMAIN outputs' = DOMAIN outputs
    BY <2>1 DEF Put
  <2>3. /\ OnlyControl(r) /\ UNCHANGED <<madeBy, lost>> /\ in \in InputsOf(r)
        /\ spentBy' = [spentBy EXCEPT ![r] = spentBy[r] \cup {in}]
        /\ \/ pos[r] < Len(TxOf[r].inputs) /\ pc'[r] = "spend" /\ pos'[r] = pos[r] + 1
           \/ pos[r] = Len(TxOf[r].inputs) /\ pc'[r] \in {"insert", "accepted"}
    BY <1>4, SpendPuts
  <2>4. in = TxOf[r].inputs[pos[r]] /\ pos[r] \in Nat \ {0}
    BY DEF Input, CallInv
  <2> HIDE DEF in
  <2>5. /\ \A u \in Runs \ {r} : spentBy'[u] = spentBy[u] /\ pc'[u] = pc[u] /\ pos'[u] = pos[u]
        /\ spentBy'[r] = spentBy[r] \cup {in}
        /\ \A u \in Runs : UnderWay(u)' => UnderWay(u)
    BY <2>1, <2>3, <1>4, KeepsUnderWay DEF OnlyControl, CallInv, RunStep
  <2>6. \A i \in 1..pos[r] : TxOf[r].inputs[i] \in spentBy'[r]
    BY <2>1, <2>4, <2>5 DEF SpendInv
  <2>7. pc'[r] \in {"insert", "accepted"} => InputsOf(r) \subseteq spentBy'[r]
    BY <2>3, <2>6, Lists DEF InputsOf
  <2>8. /\ \A u, v \in Runs : u # v => spentBy'[u] \cap spentBy'[v] = {}
        /\ \A o \in DOMAIN outputs' \ spent', u \in Runs : o \notin spentBy'[u]
    BY <2>1, <2>2, <2>5 DEF SpendInv
  <2>9. madeBy[r] = {}
    BY <2>1 DEF MadeInv
  <2>10. pc'[r] = "spend" => \A i \in 1..(pos'[r] - 1) : TxOf[r].inputs[i] \in spentBy'[r]
    BY <2>3, <2>4, <2>6
  <2>11. SpendInv'
    BY <2>3, <2>5, <2>7, <2>8, <2>9, <2>10 DEF SpendInv
  <2>12. MadeInv'
    BY <2>1, <2>2, <2>3, <2>5, <2>9 DEF MadeInv
  <2> QED
    BY <2>11, <2>12
<1>5. ASSUME NEW r \in Runs, InsertPut(r) PROVE SpendInv' /\ MadeInv'
  <2> DEFINE id == Proposal(r).id
  <2>1. \A s \in Runs : id \notin spentBy[s]
    BY <1>5, NewInsert
  <2>2. /\ pc[r] = "insert" /\ UNCHANGED <<pc, pos, spentBy, lost>> /\ id \in ProposedBy(r)
        /\ DOMAIN outputs' = DOMAIN outputs \cup {id} /\ spent' = spent \ {id}
        /\ madeBy' = [madeBy EXCEPT ![r] = madeBy[r] \cup {id}]
    BY <1>5, InsertPuts
  <2> HIDE DEF id
  <2>3. /\ madeBy'[r] = madeBy[r] \cup {id} /\ \A u \in Runs \ {r} : madeBy'[u] = madeBy[u]
    BY <2>2 DEF CallInv
  <2>4. SpendInv'
    BY <2>1, <2>2, <2>3 DEF SpendInv
  <2>5. /\ \A u \in Runs : UnderWay(u)' <=> UnderWay(u)
        /\ \A u \in Runs : madeBy[u] \subseteq madeBy'[u] /\ id \in madeBy'[r]
    BY <2>2, <2>3 DEF UnderWay
  <2>6. MadeInv'
    BY <2>2, <2>3, <2>5 DEF MadeInv
  <2> QED
    BY <2>4, <2>6
<1>6. ASSUME NEW r \in Runs, InsertLatest(r) PROVE SpendInv' /\ MadeInv'
  <2>1. /\ OnlyControl(r) /\ UNCHANGED <<outputs, spent, spentBy, madeBy, lost>>
        /\ pc[r] = "insert" /\ pc'[r] \in {"insert", "accepted"}
    BY <1>6, InsertEnds DEF traceVars
  <2>2. UnderWay(r)' => UnderWay(r)
    BY <1>6, KeepsUnderWay DEF RunStep
  <2>3. InputsOf(r) \subseteq spentBy[r]
    BY <2>1 DEF SpendInv
  <2> QED
    BY <2>1, <2>2, <2>3, FrameSpend
<1>7. CASE Crash \/ Prune \/ (Tick /\ UNCHANGED durableVars) \/ UNCHANGED allVars
  <2>1. UNCHANGED <<pc, pos, spentBy, madeBy>> /\ lost \subseteq lost'
    BY <1>7, NodeSteps DEF traceVars
  <2>2. \A u \in Runs : UnderWay(u)' => UnderWay(u)
    BY <2>1 DEF UnderWay
  <2>3. CASE UNCHANGED storeVars
    BY <2>1, <2>2, <2>3 DEF SpendInv, MadeInv, storeVars
  <2>4. CASE /\ \A u \in Runs : ~UnderWay(u)
             /\ outputs' = [o \in DOMAIN outputs \ Prunable |-> outputs[o]]
             /\ spent' = spent \ Prunable
    <3>1. DOMAIN outputs' = DOMAIN outputs \ Prunable
      BY <2>4
    <3>2. SpendInv'
      BY <2>1, <2>4, <3>1 DEF SpendInv
    <3>3. MadeInv'
      BY <2>1, <2>2, <2>4, <3>1 DEF MadeInv
    <3> QED
      BY <3>2, <3>3
  <2> QED
    BY <1>7, <2>3, <2>4, NodeSteps
<1> QED
  BY <1>1, <1>2, <1>3, <1>4, <1>5, <1>6, <1>7, Looks DEF DurableNext, RunStep

\* No output is consumed by two accepted transactions, whatever crashes, is pruned
\* and is sent again: runs that touch one output are not under way together, and a
\* consumable id that was freed is only made again by who needs the same inputs.
THEOREM SpentOnce ==
  ASSUME ConflictsApart, IdsNotReused
  PROVE  DurableSpec => []NoDoubleSpend
<1> DEFINE Inv == CallInv /\ StoreInv /\ SpendInv /\ MadeInv
<1>1. DurableInit => Inv
  BY CallInit, StoreInit, SpendInit
<1>2. Inv /\ [DurableNext]_allVars => Inv'
  BY StoreStep, SpendStep
<1>3. Inv => NoDoubleSpend
  BY DEF SpendInv, NoDoubleSpend
<1> QED
  BY <1>1, <1>2, <1>3, PTL DEF DurableSpec

-----------------------------------------------------------------------------
(* With conflicting runs apart: value is made by mints alone.              *)

\* The database is finite, holds bodies, and flags only what it holds.
DiskInv ==
  /\ IsFiniteSet(DOMAIN outputs) /\ spent \subseteq DOMAIN outputs
  /\ \A o \in DOMAIN outputs : outputs[o] \in Bodies

\* What a run under way has read of its inputs is what is stored, but for the flag.
HasRead(r) ==
  /\ pc[r] = "idle" => snap[r] = << >>
  /\ pc[r] = "inputs" => pos[r] <= Len(TxOf[r].inputs) /\ Len(snap[r]) = pos[r] - 1
  /\ pc[r] \in {"reads", "check", "clock", "nonce", "spend", "insert"} =>
       Len(snap[r]) = Len(TxOf[r].inputs)
  /\ pc[r] \in {"clock", "nonce", "spend", "insert"} => ValidResolved(TxOf[r], snap[r])
SeesStored(r) ==
  \A i \in DOMAIN snap[r] :
    TxOf[r].inputs[i] \in DOMAIN outputs /\ outputs[TxOf[r].inputs[i]] = snap[r][i]
ReadInv ==
  /\ snap \in [Runs -> Seq(Bodies)]
  /\ \A r \in Runs : HasRead(r) /\ (UnderWay(r) => SeesStored(r))

\* A run that inserts has marked each of its inputs itself, and named none twice.
PaidFor(r) ==
  /\ \A i, j \in DOMAIN TxOf[r].inputs : TxOf[r].inputs[i] = TxOf[r].inputs[j] => i = j
  /\ \A i \in DOMAIN TxOf[r].inputs : TxOf[r].inputs[i] \in spentBy[r]
  /\ Len(snap[r]) = Len(TxOf[r].inputs) /\ ValidResolved(TxOf[r], snap[r])
PaidInv ==
  \A r \in Runs :
    /\ pc[r] \in Validating => spentBy[r] = {}
    /\ pc[r] \in Validating \cup {"spend"} => madeBy[r] = {}
    /\ spentBy[r] # {} => Len(snap[r]) = Len(TxOf[r].inputs)
    /\ UnderWay(r) => spentBy[r] \subseteq spent /\ madeBy[r] \subseteq DOMAIN outputs
    /\ pc[r] = "spend" =>
         /\ \A i \in 1..(pos[r] - 1) : TxOf[r].inputs[i] \in spentBy[r]
         /\ \A i, j \in 1..(pos[r] - 1) : TxOf[r].inputs[i] = TxOf[r].inputs[j] => i = j
    /\ pc[r] = "insert" \/ madeBy[r] # {} => PaidFor(r)

\* The inputs a run has marked, each at the first place it is named, and the
\* proposals it has inserted.
SpentAt(r) == {i \in DOMAIN TxOf[r].inputs :
                 /\ TxOf[r].inputs[i] \in spentBy[r]
                 /\ \A j \in 1..(i - 1) : TxOf[r].inputs[j] # TxOf[r].inputs[i]}
MadeAt(r) == {i \in DOMAIN TxOf[r].proposals : TxOf[r].proposals[i].id \in madeBy[r]}

Assets == UNION {DOMAIN b.res : b \in Bodies}
Worth(bodies, a) == [x \in DOMAIN bodies |-> Held(bodies[x], a)]
Spending(a) == [r \in Runs |-> Total(Worth(snap[r], a), SpentAt(r))]
Making(a) == [r \in Runs |-> Total(Worth(ProposedBodies(TxOf[r]), a), MadeAt(r))]

\* What is live and what was consumed come from the start and from what was made.
BalanceInv ==
  \A a \in Assets :
    Total(Worth(outputs, a), DOMAIN outputs \ spent) + Total(Spending(a), Runs)
      <= Total(Worth(Genesis, a), DOMAIN Genesis) + Total(Making(a), Runs)

\* The model's sums are totals.
LEMMA LiveIsTotal ==
  ASSUME NEW a
  PROVE  LiveAmount(a) = Total(Worth(outputs, a), DOMAIN outputs \ spent)
<1> DEFINE R == DOMAIN outputs \ spent
           w == Worth(outputs, a)
           B(f, s) == IF s = {} THEN 0 ELSE LET x == CHOOSE x \in s : TRUE IN Held(outputs[x], a) + f[s \ {x}]
           C(f, s) == IF s = {} THEN 0 ELSE LET x == CHOOSE x \in s : TRUE IN w[x] + f[s \ {x}]
<1>1. ASSUME NEW f, NEW s \in SUBSET R PROVE B(f, s) = C(f, s)
  BY DEF Worth
<1>2. LiveAmount(a) = (CHOOSE f : f = [s \in SUBSET R |-> B(f, s)])[R]
  BY DEF LiveAmount, MapThenSumSet, MapThenFoldSet
<1>3. Total(w, R) = (CHOOSE f : f = [s \in SUBSET R |-> C(f, s)])[R]
  BY DEF Total, MapThenSumSet, MapThenFoldSet
<1> HIDE DEF B, C
<1>4. ASSUME NEW f PROVE [s \in SUBSET R |-> B(f, s)] = [s \in SUBSET R |-> C(f, s)]
  BY <1>1
<1>5. (CHOOSE f : f = [s \in SUBSET R |-> B(f, s)]) = (CHOOSE f : f = [s \in SUBSET R |-> C(f, s)])
  BY <1>4
<1> QED
  BY <1>2, <1>3, <1>5

LEMMA StartIsTotal ==
  ASSUME NEW a
  PROVE  MapThenSumSet(LAMBDA o : Held(Genesis[o], a), DOMAIN Genesis) = Total(Worth(Genesis, a), DOMAIN Genesis)
<1> DEFINE R == DOMAIN Genesis
           w == Worth(Genesis, a)
           B(f, s) == IF s = {} THEN 0 ELSE LET x == CHOOSE x \in s : TRUE IN Held(Genesis[x], a) + f[s \ {x}]
           C(f, s) == IF s = {} THEN 0 ELSE LET x == CHOOSE x \in s : TRUE IN w[x] + f[s \ {x}]
<1>1. ASSUME NEW f, NEW s \in SUBSET R PROVE B(f, s) = C(f, s)
  BY DEF Worth
<1>2. MapThenSumSet(LAMBDA o : Held(Genesis[o], a), R) = (CHOOSE f : f = [s \in SUBSET R |-> B(f, s)])[R]
  BY DEF MapThenSumSet, MapThenFoldSet
<1>3. Total(w, R) = (CHOOSE f : f = [s \in SUBSET R |-> C(f, s)])[R]
  BY DEF Total, MapThenSumSet, MapThenFoldSet
<1> HIDE DEF B, C
<1>4. ASSUME NEW f PROVE [s \in SUBSET R |-> B(f, s)] = [s \in SUBSET R |-> C(f, s)]
  BY <1>1
<1>5. (CHOOSE f : f = [s \in SUBSET R |-> B(f, s)]) = (CHOOSE f : f = [s \in SUBSET R |-> C(f, s)])
  BY <1>4
<1> QED
  BY <1>2, <1>3, <1>5

LEMMA MintedIsTotal ==
  ASSUME NEW a, NEW r \in Runs
  PROVE  MintedBy(r, a) = Making(a)[r]
<1> DEFINE R == MadeAt(r)
           w == Worth(ProposedBodies(TxOf[r]), a)
           B(f, s) == IF s = {} THEN 0
                      ELSE LET x == CHOOSE x \in s : TRUE IN Held(TxOf[r].proposals[x].body, a) + f[s \ {x}]
           C(f, s) == IF s = {} THEN 0 ELSE LET x == CHOOSE x \in s : TRUE IN w[x] + f[s \ {x}]
<1>1. ASSUME NEW f, NEW s \in SUBSET R PROVE B(f, s) = C(f, s)
  BY DEF Worth, ProposedBodies, MadeAt
<1>2. MintedBy(r, a) = (CHOOSE f : f = [s \in SUBSET R |-> B(f, s)])[R]
  BY DEF MintedBy, MadeAt, MapThenSumSet, MapThenFoldSet
<1>3. Total(w, R) = (CHOOSE f : f = [s \in SUBSET R |-> C(f, s)])[R]
  BY DEF Total, MapThenSumSet, MapThenFoldSet
<1> HIDE DEF B, C
<1>4. ASSUME NEW f PROVE [s \in SUBSET R |-> B(f, s)] = [s \in SUBSET R |-> C(f, s)]
  BY <1>1
<1>5. (CHOOSE f : f = [s \in SUBSET R |-> B(f, s)]) = (CHOOSE f : f = [s \in SUBSET R |-> C(f, s)])
  BY <1>4
<1> QED
  BY <1>2, <1>3, <1>5 DEF Making

LEMMA IssuedIsTotal ==
  ASSUME NEW a
  PROVE  Issued(a) = Total(Worth(Genesis, a), DOMAIN Genesis)
                       + Total(Making(a), {r \in Runs : TxOf[r].command = "Mint"})
<1> DEFINE R == {r \in Runs : TxOf[r].command = "Mint"}
           w == Making(a)
           B(f, s) == IF s = {} THEN 0 ELSE LET x == CHOOSE x \in s : TRUE IN MintedBy(x, a) + f[s \ {x}]
           C(f, s) == IF s = {} THEN 0 ELSE LET x == CHOOSE x \in s : TRUE IN w[x] + f[s \ {x}]
<1>1. ASSUME NEW f, NEW s \in SUBSET R PROVE B(f, s) = C(f, s)
  BY MintedIsTotal
<1>2. MapThenSumSet(LAMBDA r : MintedBy(r, a), R) = (CHOOSE f : f = [s \in SUBSET R |-> B(f, s)])[R]
  BY DEF MapThenSumSet, MapThenFoldSet
<1>3. Total(w, R) = (CHOOSE f : f = [s \in SUBSET R |-> C(f, s)])[R]
  BY DEF Total, MapThenSumSet, MapThenFoldSet
<1> HIDE DEF B, C
<1>4. ASSUME NEW f PROVE [s \in SUBSET R |-> B(f, s)] = [s \in SUBSET R |-> C(f, s)]
  BY <1>1
<1>5. (CHOOSE f : f = [s \in SUBSET R |-> B(f, s)]) = (CHOOSE f : f = [s \in SUBSET R |-> C(f, s)])
  BY <1>4
<1> QED
  BY <1>2, <1>3, <1>5, StartIsTotal DEF Issued

\* What a counter counts is a total over the bodies that hold the asset, of some kind.
Counted(bodies, a, kinds) ==
  {i \in DOMAIN bodies : a \in DOMAIN bodies[i].res /\ bodies[i].res[a].kind \in kinds}

LEMMA CounterIsTotal ==
  ASSUME NEW bodies, NEW a, NEW kinds
  PROVE  Counter(bodies, a, kinds) = Total(Worth(bodies, a), Counted(bodies, a, kinds))
<1> DEFINE R == Counted(bodies, a, kinds)
           w == Worth(bodies, a)
           B(f, s) == IF s = {} THEN 0 ELSE LET x == CHOOSE x \in s : TRUE IN bodies[x].res[a].n + f[s \ {x}]
           C(f, s) == IF s = {} THEN 0 ELSE LET x == CHOOSE x \in s : TRUE IN w[x] + f[s \ {x}]
<1>1. ASSUME NEW f, NEW s \in SUBSET R PROVE B(f, s) = C(f, s)
  BY DEF Worth, Held, Counted
<1>2. Counter(bodies, a, kinds) = (CHOOSE f : f = [s \in SUBSET R |-> B(f, s)])[R]
  BY DEF Counter, Counted, MapThenSumSet, MapThenFoldSet
<1>3. Total(w, R) = (CHOOSE f : f = [s \in SUBSET R |-> C(f, s)])[R]
  BY DEF Total, MapThenSumSet, MapThenFoldSet
<1> HIDE DEF B, C
<1>4. ASSUME NEW f PROVE [s \in SUBSET R |-> B(f, s)] = [s \in SUBSET R |-> C(f, s)]
  BY <1>1
<1>5. (CHOOSE f : f = [s \in SUBSET R |-> B(f, s)]) = (CHOOSE f : f = [s \in SUBSET R |-> C(f, s)])
  BY <1>4
<1> QED
  BY <1>2, <1>3, <1>5

LEMMA WorthNat ==
  ASSUME NEW a, NEW bodies, NEW x \in DOMAIN bodies, bodies[x] \in Bodies
  PROVE  Worth(bodies, a)[x] \in Nat
<1>1. a \in DOMAIN bodies[x].res => bodies[x].res[a].n \in Nat
  BY ResourceAssumption
<1> QED
  BY <1>1 DEF Worth, Held

\* Whatever kind the resources of an asset are of, one of the two counters has them.
LEMMA CountsAll ==
  ASSUME NEW a, NEW bodies \in Seq(Bodies)
  PROVE  /\ IsFiniteSet(DOMAIN bodies)
         /\ AmountOf(bodies, a) \in Nat /\ ItemsOf(bodies, a) \in Nat
         /\ Total(Worth(bodies, a), DOMAIN bodies) = AmountOf(bodies, a) + ItemsOf(bodies, a)
<1> DEFINE D == DOMAIN bodies
           w == Worth(bodies, a)
           amounts == Counted(bodies, a, {"Amount"})
           items == Counted(bodies, a, {"Data", "Ref", "RefBatch"})
           others == D \ amounts
           rest == others \ items
<1>1. IsFiniteSet(D)
  <2>1. D = 1..Len(bodies) /\ Len(bodies) \in Int
    OBVIOUS
  <2> QED
    BY <2>1, FS_Interval
<1>2. \A x \in D : bodies[x] \in Bodies /\ w[x] \in Nat
  BY WorthNat
<1>3. amounts \in SUBSET D /\ items \in SUBSET others
  BY DEF Counted
<1>4. \A x \in rest : w[x] = 0
  <2> SUFFICES ASSUME NEW x \in rest, a \in DOMAIN bodies[x].res PROVE FALSE
    BY DEF Worth, Held
  <2>1. bodies[x].res[a].kind \in ResourceKinds
    BY <1>2, ResourceAssumption
  <2> QED
    BY <2>1 DEF ResourceKinds, Counted
<1> HIDE DEF D, w, amounts, items
<1>5. Total(w, D) = Total(w, amounts) + Total(w, others) /\ Total(w, amounts) \in Nat
  BY <1>1, <1>2, <1>3, TotalSplit
<1>6. IsFiniteSet(others) /\ IsFiniteSet(rest) /\ \A x \in others : w[x] \in Nat
  BY <1>1, <1>2, FS_Subset
<1> HIDE DEF others
<1>7. Total(w, others) = Total(w, items) + Total(w, rest) /\ Total(w, items) \in Nat
  BY <1>3, <1>6, TotalSplit
<1>8. Total(w, rest) = 0
  BY <1>4, <1>6, TotalNone
<1>9. AmountOf(bodies, a) = Total(w, amounts) /\ ItemsOf(bodies, a) = Total(w, items)
  BY CounterIsTotal DEF AmountOf, ItemsOf, amounts, items, w
<1> QED
  BY <1>1, <1>5, <1>7, <1>8, <1>9 DEF D, w

\* No transaction but a mint proposes more of an asset than its inputs hold.
LEMMA PaysForAll ==
  ASSUME NEW a, NEW tx, tx.command # "Mint", NEW ins \in Seq(Bodies), ProposedBodies(tx) \in Seq(Bodies),
         CheckResources(tx, ins)
  PROVE  LET outs == ProposedBodies(tx)
         IN  Total(Worth(outs, a), DOMAIN outs) <= Total(Worth(ins, a), DOMAIN ins)
<1> DEFINE outs == ProposedBodies(tx)
<1>1. /\ \A n \in {AmountOf(ins, a), AmountOf(outs, a), ItemsOf(ins, a), ItemsOf(outs, a)} : n \in Nat
      /\ Total(Worth(ins, a), DOMAIN ins) = AmountOf(ins, a) + ItemsOf(ins, a)
      /\ Total(Worth(outs, a), DOMAIN outs) = AmountOf(outs, a) + ItemsOf(outs, a)
      /\ IsFiniteSet(DOMAIN outs)
  BY CountsAll
<1>2. CASE a \in AssetsOf(outs)
  <2>1. AmountOf(outs, a) <= AmountOf(ins, a) /\ ItemsOf(outs, a) <= ItemsOf(ins, a)
    BY <1>2 DEF CheckResources
  <2> HIDE DEF outs
  <2> QED
    BY <1>1, <2>1 DEF outs
<1>3. CASE a \notin AssetsOf(outs)
  <2>1. \A x \in DOMAIN outs : Worth(outs, a)[x] = 0
    BY <1>3 DEF AssetsOf, Worth, Held
  <2> HIDE DEF outs
  <2>2. Total(Worth(outs, a), DOMAIN outs) = 0
    BY <1>1, <2>1, TotalNone
  <2> QED
    BY <1>1, <2>2 DEF outs
<1> QED
  BY <1>2, <1>3

LEMMA BodiesProposed ==
  ASSUME NEW r \in Runs
  PROVE  /\ ProposedBodies(TxOf[r]) \in Seq(Bodies)
         /\ DOMAIN ProposedBodies(TxOf[r]) = DOMAIN TxOf[r].proposals
<1> DEFINE list == TxOf[r].proposals
<1>1. list \in Seq([id : OutputIds, body : Bodies]) /\ DOMAIN list = 1..Len(list) /\ Len(list) \in Nat
  BY Lists
<1> HIDE DEF list
<1>2. \A i \in 1..Len(list) : list[i].body \in Bodies
  <2>1. \A i \in 1..Len(list) : list[i] \in [id : OutputIds, body : Bodies]
    <3> DEFINE P == [id : OutputIds, body : Bodies]
    <3>1. list \in Seq(P)
      BY <1>1
    <3> HIDE DEF P
    <3>2. \A i \in 1..Len(list) : list[i] \in P
      BY <3>1
    <3> QED
      BY <3>2 DEF P
  <2> QED
    BY <2>1
<1>3. ProposedBodies(TxOf[r]) = [i \in 1..Len(list) |-> list[i].body]
  BY <1>1 DEF ProposedBodies, list
<1>4. [i \in 1..Len(list) |-> list[i].body] \in Seq(Bodies)
  BY <1>1, <1>2
<1> QED
  BY <1>1, <1>3, <1>4 DEF list

\* What the totals of one run range over.
LEMMA RunTotals ==
  ASSUME ReadInv, PaidInv, NEW a, NEW r \in Runs
  PROVE  /\ SpentAt(r) \in SUBSET DOMAIN snap[r] /\ IsFiniteSet(DOMAIN snap[r])
         /\ \A i \in DOMAIN snap[r] : Worth(snap[r], a)[i] \in Nat
         /\ MadeAt(r) \in SUBSET DOMAIN ProposedBodies(TxOf[r]) /\ IsFiniteSet(DOMAIN ProposedBodies(TxOf[r]))
         /\ \A i \in DOMAIN ProposedBodies(TxOf[r]) : Worth(ProposedBodies(TxOf[r]), a)[i] \in Nat
         /\ Spending(a)[r] \in Nat /\ Making(a)[r] \in Nat
<1> DEFINE ins == snap[r]
           outs == ProposedBodies(TxOf[r])
<1>1. ins \in Seq(Bodies) /\ outs \in Seq(Bodies) /\ DOMAIN outs = DOMAIN TxOf[r].proposals
  BY BodiesProposed DEF ReadInv
<1>2. SpentAt(r) \in SUBSET DOMAIN ins
  <2>1. CASE spentBy[r] = {}
    BY <2>1 DEF SpentAt
  <2>2. CASE Len(ins) = Len(TxOf[r].inputs)
    BY <1>1, <2>2, Lists DEF SpentAt
  <2> QED
    BY <2>1, <2>2 DEF PaidInv
<1>3. MadeAt(r) \in SUBSET DOMAIN outs
  BY <1>1 DEF MadeAt
<1>4. IsFiniteSet(DOMAIN ins) /\ IsFiniteSet(DOMAIN outs)
  BY <1>1, CountsAll
<1>5. /\ \A i \in DOMAIN ins : Worth(ins, a)[i] \in Nat
      /\ \A i \in DOMAIN outs : Worth(outs, a)[i] \in Nat
  <2>1. /\ \A i \in DOMAIN ins : ins[i] \in Bodies
        /\ \A i \in DOMAIN outs : outs[i] \in Bodies
    BY <1>1
  <2> QED
    BY <2>1, WorthNat
<1> HIDE DEF ins, outs
<1>6. Total(Worth(ins, a), SpentAt(r)) \in Nat /\ Total(Worth(outs, a), MadeAt(r)) \in Nat
  BY <1>2, <1>3, <1>4, <1>5, TotalSplit
<1> QED
  BY <1>2, <1>3, <1>4, <1>5, <1>6 DEF ins, outs, Spending, Making

\* What a run inserted of an asset is no more than what it marked spent.
LEMMA RunPays ==
  ASSUME ReadInv, PaidInv, NEW a, NEW r \in Runs, TxOf[r].command # "Mint"
  PROVE  Making(a)[r] <= Spending(a)[r]
<1> DEFINE ins == snap[r]
           outs == ProposedBodies(TxOf[r])
<1>1. CASE madeBy[r] = {}
  <2>1. MadeAt(r) = {} /\ IsFiniteSet({})
    BY <1>1, FS_EmptySet DEF MadeAt
  <2>2. Making(a)[r] = 0
    BY <2>1, TotalNone DEF Making
  <2> QED
    BY <2>2, RunTotals
<1>2. CASE PaidFor(r)
  <2>1. SpentAt(r) = DOMAIN ins
    <3>1. ins \in Seq(Bodies) /\ DOMAIN ins = DOMAIN TxOf[r].inputs
      BY <1>2, Lists DEF ReadInv, PaidFor
    <3>2. \A i \in DOMAIN TxOf[r].inputs : \A j \in 1..(i - 1) : j \in DOMAIN TxOf[r].inputs /\ j # i
      BY Lists
    <3> QED
      BY <1>2, <3>1, <3>2 DEF SpentAt, PaidFor
  <2>2. ins \in Seq(Bodies) /\ outs \in Seq(Bodies) /\ CheckResources(TxOf[r], ins)
    BY <1>2, BodiesProposed DEF ReadInv, PaidFor, ValidResolved
  <2>3. Total(Worth(outs, a), DOMAIN outs) <= Total(Worth(ins, a), DOMAIN ins)
    BY <2>2, PaysForAll
  <2>4. Total(Worth(outs, a), MadeAt(r)) <= Total(Worth(outs, a), DOMAIN outs)
    <3>1. /\ MadeAt(r) \in SUBSET DOMAIN outs /\ IsFiniteSet(DOMAIN outs)
          /\ \A i \in DOMAIN outs : Worth(outs, a)[i] \in Nat
      BY RunTotals
    <3> HIDE DEF outs
    <3>2. /\ Total(Worth(outs, a), DOMAIN outs)
               = Total(Worth(outs, a), MadeAt(r)) + Total(Worth(outs, a), DOMAIN outs \ MadeAt(r))
          /\ Total(Worth(outs, a), MadeAt(r)) \in Nat /\ Total(Worth(outs, a), DOMAIN outs \ MadeAt(r)) \in Nat
      BY <3>1, TotalSplit
    <3> QED
      BY <3>2
  <2>5. /\ Making(a)[r] = Total(Worth(outs, a), MadeAt(r)) /\ Making(a)[r] \in Nat
        /\ Spending(a)[r] = Total(Worth(ins, a), DOMAIN ins) /\ Spending(a)[r] \in Nat
        /\ Total(Worth(outs, a), DOMAIN outs) \in Nat
    <3>1. Total(Worth(outs, a), DOMAIN outs) \in Nat
      BY <2>2, CountsAll
    <3> QED
      BY <2>1, <3>1, RunTotals DEF Making, Spending
  <2> HIDE DEF ins, outs
  <2> QED
    BY <2>3, <2>4, <2>5
<1> QED
  BY <1>1, <1>2 DEF PaidInv

LEMMA Balanced ==
  ASSUME DiskInv, ReadInv, PaidInv, BalanceInv
  PROVE  NothingFromCrashes
<1> SUFFICES ASSUME NEW a \in UNION {DOMAIN outputs[o].res : o \in DOMAIN outputs}
             PROVE  LiveAmount(a) <= Issued(a)
  BY DEF NothingFromCrashes
<1> DEFINE minters == {r \in Runs : TxOf[r].command = "Mint"}
           payers == Runs \ minters
           live == Total(Worth(outputs, a), DOMAIN outputs \ spent)
           given == Total(Worth(Genesis, a), DOMAIN Genesis)
           made == Making(a)
           paid == Spending(a)
<1>1. live + Total(paid, Runs) <= given + Total(made, Runs)
  BY DEF BalanceInv, Assets, DiskInv
<1>2. /\ IsFiniteSet(Runs) /\ minters \in SUBSET Runs /\ IsFiniteSet(payers)
      /\ \A r \in Runs : made[r] \in Nat /\ paid[r] \in Nat
      /\ \A r \in payers : made[r] <= paid[r]
  BY FiniteAssumption, FS_Subset, RunTotals, RunPays
<1>3. live \in Nat /\ given \in Nat
  <2>1. IsFiniteSet(DOMAIN outputs) /\ \A o \in DOMAIN outputs : Worth(outputs, a)[o] \in Nat
    BY WorthNat DEF DiskInv
  <2>2. IsFiniteSet(DOMAIN Genesis) /\ \A o \in DOMAIN Genesis : Worth(Genesis, a)[o] \in Nat
    BY WorthNat, FiniteAssumption, GenesisAssumption
  <2>3. DOMAIN outputs \ spent \in SUBSET DOMAIN outputs /\ DOMAIN Genesis \in SUBSET DOMAIN Genesis
    OBVIOUS
  <2> QED
    BY <2>1, <2>2, <2>3, TotalStep
<1> HIDE DEF minters, made, paid, live, given
<1>4. /\ Total(made, Runs) = Total(made, minters) + Total(made, payers)
      /\ Total(made, minters) \in Nat /\ Total(made, payers) \in Nat
  BY <1>2, TotalSplit
<1>5. /\ Total(paid, Runs) = Total(paid, minters) + Total(paid, payers)
      /\ Total(paid, minters) \in Nat /\ Total(paid, payers) \in Nat
  BY <1>2, TotalSplit
<1>6. Total(made, payers) <= Total(paid, payers)
  BY <1>2, TotalMore
<1>7. live <= given + Total(made, minters)
  BY <1>1, <1>3, <1>4, <1>5, <1>6
<1> QED
  BY <1>7, LiveIsTotal, IssuedIsTotal DEF live, given, made, minters

LEMMA ValueInit == DurableInit => DiskInv /\ ReadInv /\ PaidInv /\ BalanceInv
<1> SUFFICES ASSUME DurableInit PROVE DiskInv /\ ReadInv /\ PaidInv /\ BalanceInv
  OBVIOUS
<1> USE DEF DurableInit, Init
<1>1. DiskInv
  BY FiniteAssumption, GenesisAssumption DEF DiskInv
<1>2. ReadInv
  <2>1. << >> \in Seq(Bodies) /\ DOMAIN << >> = {}
    OBVIOUS
  <2> QED
    BY <2>1 DEF ReadInv, UnderWay, HasRead, SeesStored
<1>3. PaidInv
  BY DEF PaidInv, UnderWay
<1>4. BalanceInv
  <2> SUFFICES ASSUME NEW a \in Assets
               PROVE  Total(Worth(outputs, a), DOMAIN outputs \ spent) + Total(Spending(a), Runs)
                        <= Total(Worth(Genesis, a), DOMAIN Genesis) + Total(Making(a), Runs)
    BY DEF BalanceInv
  <2> DEFINE given == Total(Worth(Genesis, a), DOMAIN Genesis)
  <2>1. Total(Worth(outputs, a), DOMAIN outputs \ spent) = given
    <3>1. DOMAIN Genesis \ {} = DOMAIN Genesis
      OBVIOUS
    <3> QED
      BY <3>1
  <2>2. \A r \in Runs : Spending(a)[r] = 0 /\ Making(a)[r] = 0
    <3> SUFFICES ASSUME NEW r \in Runs PROVE Spending(a)[r] = 0 /\ Making(a)[r] = 0
      OBVIOUS
    <3>1. SpentAt(r) = {} /\ MadeAt(r) = {} /\ IsFiniteSet({})
      BY FS_EmptySet DEF SpentAt, MadeAt
    <3> QED
      BY <3>1, TotalNone DEF Spending, Making
  <2>3. Total(Spending(a), Runs) = 0 /\ Total(Making(a), Runs) = 0
    BY <2>2, TotalNone, FiniteAssumption
  <2>4. given \in Nat
    <3>1. \A o \in DOMAIN Genesis : Worth(Genesis, a)[o] \in Nat
      BY WorthNat, GenesisAssumption
    <3>2. DOMAIN Genesis \in SUBSET DOMAIN Genesis
      OBVIOUS
    <3> QED
      BY <3>1, <3>2, TotalStep, FiniteAssumption
  <2> HIDE DEF given
  <2> QED
    BY <2>1, <2>3, <2>4 DEF given
<1> QED
  BY <1>1, <1>2, <1>3, <1>4

\* What a put finds: the record it got, unspent, or no record at all.
LEMMA PutFinds ==
  ASSUME CallInv, LookInv, DiskInv, NEW r \in Runs
  PROVE  /\ SpendPut(r) => /\ Input(r) \in DOMAIN outputs \ spent
                           /\ DOMAIN outputs' = DOMAIN outputs /\ spent' = spent \cup {Input(r)}
                           /\ \A o \in DOMAIN outputs : outputs'[o] = outputs[o]
         /\ InsertPut(r) => /\ Proposal(r).id \notin DOMAIN outputs /\ spent' = spent
                            /\ DOMAIN outputs' = DOMAIN outputs \cup {Proposal(r).id}
                            /\ outputs'[Proposal(r).id] = Proposal(r).body /\ Proposal(r).body \in Bodies
                            /\ \A o \in DOMAIN outputs : outputs'[o] = outputs[o]
<1>1. ASSUME SpendPut(r)
      PROVE  /\ Input(r) \in DOMAIN outputs \ spent
             /\ DOMAIN outputs' = DOMAIN outputs /\ spent' = spent \cup {Input(r)}
             /\ \A o \in DOMAIN outputs : outputs'[o] = outputs[o]
  <2>1. /\ outputs' = Put(outputs, Input(r), held[r]) /\ spent' = spent \cup {Input(r)}
        /\ Input(r) \in DOMAIN outputs \ spent /\ held[r] = outputs[Input(r)]
    BY <1>1 DEF SpendPut, Flagged, LookInv, StillSo
  <2> QED
    BY <2>1 DEF Put
<1>2. ASSUME InsertPut(r)
      PROVE  /\ Proposal(r).id \notin DOMAIN outputs /\ spent' = spent
             /\ DOMAIN outputs' = DOMAIN outputs \cup {Proposal(r).id}
             /\ outputs'[Proposal(r).id] = Proposal(r).body /\ Proposal(r).body \in Bodies
             /\ \A o \in DOMAIN outputs : outputs'[o] = outputs[o]
  <2> DEFINE p == Proposal(r)
  <2>1. /\ p.id \notin DOMAIN outputs /\ pos[r] \in DOMAIN TxOf[r].proposals
        /\ DOMAIN outputs' = DOMAIN outputs \cup {p.id} /\ outputs'[p.id] = p.body
        /\ \A o \in DOMAIN outputs : o # p.id => outputs'[o] = outputs[o]
        /\ spent' = spent \ {p.id}
    BY <1>2, InsertPuts DEF LookInv, StillSo, Vacant
  <2>2. p.body \in Bodies
    <3>1. /\ DOMAIN ProposedBodies(TxOf[r]) = DOMAIN TxOf[r].proposals
          /\ ProposedBodies(TxOf[r]) \in Seq(Bodies)
      BY BodiesProposed
    <3>2. ProposedBodies(TxOf[r])[pos[r]] \in Bodies
      BY <2>1, <3>1
    <3> QED
      BY <2>1, <3>2 DEF ProposedBodies, Proposal
  <2> HIDE DEF p
  <2> QED
    BY <2>1, <2>2 DEF DiskInv, p
<1> QED
  BY <1>1, <1>2

\* The other steps of a run leave the store, and what runs did to it, alone.
LEMMA StoreStays ==
  ASSUME CallInv, NEW r \in Runs, Start(r) \/ Validate(r) \/ Refused(r) \/ Found(r) \/ InsertLatest(r)
  PROVE  UNCHANGED <<outputs, spent, spentBy, madeBy>>
  BY Validates, InsertEnds DEF Refused, Found, storeVars, traceVars

LEMMA DiskStep == ASSUME CallInv, LookInv, DiskInv, [DurableNext]_allVars PROVE DiskInv'
<1>1. ASSUME NEW r \in Runs, Start(r) \/ Validate(r) \/ Refused(r) \/ Found(r) \/ InsertLatest(r) PROVE DiskInv'
  BY <1>1, StoreStays DEF DiskInv
<1>2. ASSUME NEW r \in Runs, SpendPut(r) PROVE DiskInv'
  BY <1>2, PutFinds DEF DiskInv
<1>3. ASSUME NEW r \in Runs, InsertPut(r) PROVE DiskInv'
  <2>1. IsFiniteSet(DOMAIN outputs \cup {Proposal(r).id})
    BY FS_AddElement DEF DiskInv
  <2>2. \A o \in DOMAIN outputs' : outputs'[o] \in Bodies
    BY <1>3, PutFinds DEF DiskInv
  <2> QED
    BY <1>3, <2>1, <2>2, PutFinds DEF DiskInv
<1>4. CASE Crash \/ Prune \/ (Tick /\ UNCHANGED durableVars) \/ UNCHANGED allVars
  <2>1. CASE UNCHANGED storeVars
    BY <2>1 DEF storeVars, DiskInv
  <2>2. CASE outputs' = [o \in DOMAIN outputs \ Prunable |-> outputs[o]] /\ spent' = spent \ Prunable
    <3>1. IsFiniteSet(DOMAIN outputs \ Prunable)
      BY FS_Subset DEF DiskInv
    <3> QED
      BY <2>2, <3>1 DEF DiskInv
  <2> QED
    BY <1>4, <2>1, <2>2, NodeSteps
<1> QED
  BY <1>1, <1>2, <1>3, <1>4, Looks DEF DurableNext, RunStep

\* A run that validates reads what is stored.
LEMMA ValidatesRead ==
  ASSUME CallInv, DiskInv, ReadInv, NEW r \in Runs, Start(r) \/ Validate(r)
  PROVE  /\ snap' \in [Runs -> Seq(Bodies)] /\ \A u \in Runs \ {r} : snap'[u] = snap[u]
         /\ HasRead(r)' /\ SeesStored(r)'
<1> DEFINE tx == TxOf[r]
<1>0. /\ HasRead(r) /\ snap \in [Runs -> Seq(Bodies)] /\ snap[r] \in Seq(Bodies) /\ UNCHANGED outputs
      /\ pos[r] \in Nat \ {0} /\ OnlyControl(r) /\ (UnderWay(r) => SeesStored(r))
  BY Validates DEF ReadInv, CallInv, storeVars
<1>1. CASE Start(r)
  <2>1. snap' = snap /\ pc[r] = "idle" /\ snap[r] = << >> /\ pos'[r] = 1
    BY <1>0, <1>1 DEF Start, Begin, GoTo, HasRead, CallInv
  <2>2. \/ pc'[r] = "inputs" /\ tx.inputs # << >>
        \/ pc'[r] \in {"reads", "check"} /\ tx.inputs = << >>
        \/ pc'[r] = "rejected"
    BY <1>1 DEF Start, Begin, GoTo, AfterBegin, AfterInputs, CallInv
  <2>3. (tx.inputs # << >> => 1 <= Len(tx.inputs)) /\ Len(<< >>) = 0
    BY Lists
  <2>4. HasRead(r)'
    BY <1>0, <2>1, <2>2, <2>3 DEF HasRead
  <2>5. SeesStored(r)'
    BY <2>1 DEF SeesStored
  <2> QED
    BY <1>0, <2>1, <2>4, <2>5
<1>2. CASE Validate(r) /\ ReadInput(r)
  <2> DEFINE o == tx.inputs[pos[r]]
             ins == snap[r]
  <2>1. pc[r] = "inputs" /\ pos[r] <= Len(tx.inputs) /\ Len(ins) = pos[r] - 1 /\ SeesStored(r)
    BY <1>0, <1>2 DEF ReadInput, HasRead, Validate, UnderWay, Terminal
  <2>2. CASE snap' = snap /\ Reject(r)
    <3>1. pc'[r] = "rejected"
      BY <2>2 DEF Reject, GoTo, CallInv
    <3> QED
      BY <1>0, <2>1, <2>2, <3>1 DEF HasRead, SeesStored
  <2>3. CASE /\ o \in DOMAIN outputs /\ snap' = [snap EXCEPT ![r] = Append(snap[r], outputs[o])]
             /\ Advance(r, tx.inputs, AfterInputs(tx))
    <3>1. outputs[o] \in Bodies
      BY <2>3 DEF DiskInv
    <3>2. /\ Append(ins, outputs[o]) \in Seq(Bodies) /\ Len(Append(ins, outputs[o])) = pos[r]
          /\ DOMAIN Append(ins, outputs[o]) = 1..pos[r]
          /\ \A i \in 1..pos[r] : Append(ins, outputs[o])[i] = IF i = pos[r] THEN outputs[o] ELSE ins[i]
          /\ DOMAIN ins = 1..(pos[r] - 1)
      <4> DEFINE e == outputs[o]
      <4>1. ins \in Seq(Bodies) /\ e \in Bodies /\ pos[r] \in Nat /\ Len(ins) = pos[r] - 1
        BY <1>0, <2>1, <3>1
      <4> HIDE DEF ins, e
      <4>2. /\ Append(ins, e) \in Seq(Bodies) /\ Len(Append(ins, e)) = Len(ins) + 1
            /\ Append(ins, e)[Len(ins) + 1] = e /\ \A i \in 1..Len(ins) : Append(ins, e)[i] = ins[i]
        BY <4>1
      <4>3. DOMAIN ins = 1..(pos[r] - 1) /\ DOMAIN Append(ins, e) = 1..pos[r]
        BY <4>1, <4>2
      <4>4. \A i \in 1..pos[r] : i = pos[r] \/ i \in 1..Len(ins)
        BY <4>1
      <4> QED
        BY <4>1, <4>2, <4>3, <4>4 DEF e
    <3>3. snap' \in [Runs -> Seq(Bodies)] /\ snap'[r] = Append(ins, outputs[o]) /\ \A u \in Runs \ {r} : snap'[u] = snap[u]
      <4> HIDE DEF o
      <4> QED
        BY <1>0, <2>3, <3>2
    <3>4. \/ pos[r] < Len(tx.inputs) /\ pc'[r] = "inputs" /\ pos'[r] = pos[r] + 1
          \/ ~(pos[r] < Len(tx.inputs)) /\ pc'[r] \in {"reads", "check"}
      <4>1. AfterInputs(tx) \in {"reads", "check"}
        BY DEF AfterInputs
      <4> QED
        BY <2>1, <2>3, <4>1, Advanced DEF Phases
    <3>5. HasRead(r)'
      <4>1. Len(snap'[r]) = pos[r] /\ Len(tx.inputs) \in Nat
        BY <3>2, <3>3, Lists
      <4>2. pos[r] \in Nat /\ pos[r] <= Len(tx.inputs)
        BY <1>0, <2>1
      <4>3. CASE pos[r] < Len(tx.inputs) /\ pc'[r] = "inputs" /\ pos'[r] = pos[r] + 1
        BY <4>1, <4>2, <4>3 DEF HasRead
      <4>4. CASE ~(pos[r] < Len(tx.inputs)) /\ pc'[r] \in {"reads", "check"}
        BY <4>1, <4>2, <4>4 DEF HasRead
      <4> QED
        BY <3>4, <4>3, <4>4
    <3>6. SeesStored(r)'
      <4> SUFFICES ASSUME NEW i \in DOMAIN snap'[r]
                   PROVE  tx.inputs[i] \in DOMAIN outputs /\ outputs[tx.inputs[i]] = snap'[r][i]
        BY <1>0 DEF SeesStored
      <4>1. CASE i = pos[r]
        BY <2>3, <3>2, <3>3, <4>1
      <4>2. CASE i \in DOMAIN ins
        BY <2>1, <3>2, <3>3, <4>2, <1>0 DEF SeesStored
      <4> QED
        BY <3>2, <3>3, <4>1, <4>2, <1>0
    <3> QED
      BY <3>3, <3>5, <3>6
  <2> QED
    BY <1>2, <2>2, <2>3 DEF ReadInput
<1>3. CASE Validate(r) /\ (ReadReference(r) \/ CheckResolved(r) \/ ReadClock(r) \/ RegisterNonce(r))
  <2>1. snap' = snap /\ pc[r] \in {"reads", "check", "clock", "nonce"} /\ r \notin lost
    BY <1>3 DEF Validate, ReadReference, CheckResolved, ReadClock, RegisterNonce
  <2>2. SeesStored(r)'
    BY <1>0, <2>1 DEF SeesStored, UnderWay, Terminal
  <2>3. /\ pc'[r] \in {"reads", "check", "clock", "nonce", "spend", "insert", "accepted", "rejected"}
        /\ pc'[r] \in {"clock", "nonce", "spend", "insert"} => ValidResolved(tx, snap[r])
    <3>1. CASE Validate(r) /\ ReadReference(r)
      <4>1. pc[r] = "reads" /\ (Advance(r, tx.reads, "check") \/ Reject(r))
        BY <3>1 DEF ReadReference
      <4> QED
        BY <4>1 DEF Advance, Reject, GoTo, CallInv
    <3>2. CASE Validate(r) /\ CheckResolved(r)
      BY <3>2 DEF CheckResolved, GoTo, AfterNonce, AfterSpend, CallInv
    <3>3. CASE Validate(r) /\ ReadClock(r)
      BY <1>0, <3>3 DEF ReadClock, GoTo, CallInv, HasRead
    <3>4. CASE Validate(r) /\ RegisterNonce(r)
      <4>1. pc[r] = "nonce" /\ (GoTo(r, AfterNonce(tx)) \/ GoTo(r, "rejected"))
        BY <3>4 DEF RegisterNonce, Reject
      <4> QED
        BY <1>0, <4>1 DEF GoTo, AfterNonce, AfterSpend, CallInv, HasRead
    <3> QED
      BY <1>3, <3>1, <3>2, <3>3, <3>4
  <2>4. HasRead(r)'
    BY <1>0, <2>1, <2>3 DEF HasRead
  <2> QED
    BY <1>0, <2>1, <2>2, <2>4
<1> QED
  BY <1>1, <1>2, <1>3 DEF Validate, Prepare

\* What was stored is stored still.
Preserves == \A o \in DOMAIN outputs : o \in DOMAIN outputs' /\ outputs'[o] = outputs[o]

LEMMA StillSees ==
  ASSUME Preserves, NEW u \in Runs, SeesStored(u), snap'[u] = snap[u]
  PROVE  SeesStored(u)'
  BY DEF Preserves, SeesStored

\* The store calls read nothing more.
LEMMA SnapStays ==
  ASSUME NEW r \in Runs, SpendGet(r) \/ SpendPut(r) \/ InsertHas(r) \/ InsertPut(r) \/ InsertLatest(r)
  PROVE  snap' = snap
  BY DEF SpendGet, SpendPut, InsertHas, InsertPut, InsertLatest, runVars

\* Where a run is after a step of a store call.
LEMMA CallMoves ==
  ASSUME CallInv, NEW r \in Runs, SpendGet(r) \/ SpendPut(r) \/ InsertHas(r) \/ InsertPut(r) \/ InsertLatest(r)
  PROVE  /\ Others(r) /\ UnderWay(r) /\ \A u \in Runs : UnderWay(u)' => UnderWay(u)
         /\ pc[r] \in {"spend", "insert"} /\ pc'[r] \in {"spend", "insert", "accepted", "rejected"}
<1>1. Others(r) /\ UnderWay(r) /\ \A u \in Runs : UnderWay(u)' => UnderWay(u)
  BY KeepsUnderWay DEF RunStep
<1>2. pc[r] \in {"spend", "insert"}
  BY DEF SpendGet, SpendPut, InsertHas, InsertPut, InsertLatest
<1>3. CASE SpendGet(r) \/ InsertHas(r)
  BY <1>1, <1>2, <1>3, Looks, Refuses DEF Found
<1>4. CASE SpendPut(r) \/ InsertLatest(r) \/ InsertPut(r)
  BY <1>1, <1>2, <1>4, SpendPuts, InsertEnds, InsertPuts
<1> QED
  BY <1>1, <1>2, <1>3, <1>4

LEMMA ReadStep ==
  ASSUME CallInv, LookInv, DiskInv, ReadInv, [DurableNext]_allVars
  PROVE  ReadInv'
<1>1. ASSUME NEW r \in Runs, Start(r) \/ Validate(r) PROVE ReadInv'
  <2>1. /\ snap' \in [Runs -> Seq(Bodies)] /\ \A u \in Runs \ {r} : snap'[u] = snap[u]
        /\ HasRead(r)' /\ SeesStored(r)'
    BY <1>1, ValidatesRead
  <2>2. OnlyControl(r) /\ UNCHANGED <<outputs, lost>>
    BY <1>1, Validates DEF storeVars, durableVars
  <2>3. ASSUME NEW u \in Runs \ {r} PROVE HasRead(u)' /\ (UnderWay(u)' => SeesStored(u)')
    <3>1. pc'[u] = pc[u] /\ pos'[u] = pos[u] /\ snap'[u] = snap[u] /\ (UnderWay(u)' => UnderWay(u))
      BY <2>1, <2>2 DEF OnlyControl, CallInv, UnderWay
    <3>2. Preserves
      BY <2>2 DEF Preserves
    <3> QED
      BY <3>1, <3>2, StillSees DEF ReadInv, HasRead
  <2> QED
    BY <2>1, <2>3 DEF ReadInv
<1>2. ASSUME NEW r \in Runs, SpendGet(r) \/ SpendPut(r) \/ InsertHas(r) \/ InsertPut(r) \/ InsertLatest(r)
      PROVE  ReadInv'
  <2>1. snap' = snap /\ Others(r) /\ \A u \in Runs : UnderWay(u)' => UnderWay(u)
    BY <1>2, SnapStays, CallMoves
  <2>2. Preserves
    <3>1. CASE SpendPut(r) \/ InsertPut(r)
      BY <3>1, PutFinds DEF Preserves
    <3>2. CASE SpendGet(r) \/ InsertHas(r) \/ InsertLatest(r)
      BY <3>2, StoreStays, Looks DEF Preserves
    <3> QED
      BY <1>2, <3>1, <3>2
  <2>3. HasRead(r)'
    BY <1>2, <2>1, CallMoves DEF ReadInv, HasRead
  <2>4. ASSUME NEW u \in Runs PROVE HasRead(u)' /\ (UnderWay(u)' => SeesStored(u)')
    <3>1. CASE u = r
      BY <2>1, <2>2, <2>3, <3>1, StillSees DEF ReadInv
    <3>2. CASE u # r
      BY <2>1, <2>2, <3>2, StillSees DEF ReadInv, HasRead, Others
    <3> QED
      BY <3>1, <3>2
  <2> QED
    BY <2>1, <2>4 DEF ReadInv
<1>3. CASE Crash \/ Prune \/ (Tick /\ UNCHANGED durableVars) \/ UNCHANGED allVars
  <2>1. snap' = snap
    BY <1>3 DEF Crash, Prune, Tick, allVars, vars, runVars
  <2>2. UNCHANGED <<pc, pos>> /\ lost \subseteq lost'
    BY <1>3, NodeSteps
  <2>3. \A u \in Runs : HasRead(u)' /\ (UnderWay(u)' => UnderWay(u))
    BY <2>1, <2>2 DEF ReadInv, HasRead, UnderWay
  <2>4. CASE UNCHANGED storeVars
    BY <2>1, <2>3, <2>4, StillSees DEF ReadInv, Preserves, storeVars
  <2>5. CASE \A u \in Runs : ~UnderWay(u)
    BY <2>1, <2>3, <2>5 DEF ReadInv
  <2> QED
    BY <1>3, <2>4, <2>5, NodeSteps
<1> QED
  BY <1>1, <1>2, <1>3 DEF DurableNext, RunStep

LEMMA PaidStep ==
  ASSUME CallInv, LookInv, DiskInv, ReadInv, ReadInv', PaidInv, [DurableNext]_allVars
  PROVE  PaidInv'
<1> DEFINE P(u) ==
      /\ pc[u] \in Validating => spentBy[u] = {}
      /\ pc[u] \in Validating \cup {"spend"} => madeBy[u] = {}
      /\ spentBy[u] # {} => Len(snap[u]) = Len(TxOf[u].inputs)
      /\ UnderWay(u) => spentBy[u] \subseteq spent /\ madeBy[u] \subseteq DOMAIN outputs
      /\ pc[u] = "spend" =>
           /\ \A i \in 1..(pos[u] - 1) : TxOf[u].inputs[i] \in spentBy[u]
           /\ \A i, j \in 1..(pos[u] - 1) : TxOf[u].inputs[i] = TxOf[u].inputs[j] => i = j
      /\ pc[u] = "insert" \/ madeBy[u] # {} => PaidFor(u)
<1>0. \A u \in Runs : P(u)
  BY DEF PaidInv
<1>1. ASSUME NEW r \in Runs, P(r)',
             \A u \in Runs \ {r} : pc'[u] = pc[u] /\ pos'[u] = pos[u] /\ snap'[u] = snap[u]
                                   /\ spentBy'[u] = spentBy[u] /\ madeBy'[u] = madeBy[u]
                                   /\ (UnderWay(u)' => UnderWay(u)),
             DOMAIN outputs \subseteq DOMAIN outputs', spent \subseteq spent'
      PROVE  PaidInv'
  <2>1. ASSUME NEW u \in Runs \ {r} PROVE P(u)'
    <3>1. PaidFor(u) => PaidFor(u)'
      BY <1>1 DEF PaidFor
    <3> QED
      BY <1>0, <1>1, <3>1
  <2> QED
    BY <1>1, <2>1 DEF PaidInv
<1>2. ASSUME NEW r \in Runs, Start(r) \/ Validate(r) PROVE PaidInv'
  <2>1. /\ snap' \in [Runs -> Seq(Bodies)] /\ \A u \in Runs \ {r} : snap'[u] = snap[u]
        /\ HasRead(r)'
    BY <1>2, ValidatesRead
  <2>2. /\ OnlyControl(r) /\ UNCHANGED <<outputs, spent, spentBy, madeBy, lost>> /\ pc[r] \in Validating /\ Enters(r)
    BY <1>2, Validates DEF storeVars, traceVars, durableVars
  <2>3. spentBy'[r] = {} /\ madeBy'[r] = {}
    BY <1>0, <2>2
  <2>4. \A u \in Runs \ {r} : pc'[u] = pc[u] /\ pos'[u] = pos[u] /\ (UnderWay(u)' => UnderWay(u))
    BY <2>2 DEF OnlyControl, CallInv, UnderWay
  <2>5. pc'[r] = "spend" => pos'[r] - 1 = 0
    BY <2>2 DEF Enters
  <2>6. pc'[r] = "insert" => PaidFor(r)'
    <3> SUFFICES ASSUME pc'[r] = "insert" PROVE PaidFor(r)'
      OBVIOUS
    <3>1. DOMAIN TxOf[r].inputs = {}
      BY <2>2 DEF Enters
    <3> QED
      BY <2>1, <3>1 DEF PaidFor, HasRead
  <2>7. P(r)'
    BY <2>3, <2>5, <2>6
  <2> QED
    BY <1>1, <2>1, <2>2, <2>4, <2>7
<1>3. ASSUME NEW r \in Runs, SpendGet(r) \/ InsertHas(r) \/ InsertLatest(r) PROVE PaidInv'
  <2>1. /\ Others(r) /\ UnderWay(r) /\ \A u \in Runs : UnderWay(u)' => UnderWay(u)
        /\ UNCHANGED <<snap, outputs, spent, spentBy, madeBy>>
    BY <1>3, SnapStays, CallMoves, StoreStays, Looks
  <2>2. \/ pc'[r] = "rejected"
        \/ pc'[r] = pc[r] /\ pos'[r] = pos[r]
        \/ pc[r] = "insert" /\ pc'[r] \in {"insert", "accepted"}
    BY <1>3, Looks, Refuses, InsertEnds DEF Found
  <2>3. PaidFor(r) => PaidFor(r)'
    BY <2>1 DEF PaidFor
  <2>4. P(r)'
    BY <1>0, <2>1, <2>2, <2>3 DEF Validating
  <2> QED
    BY <1>1, <2>1, <2>4 DEF Others
<1>4. ASSUME NEW r \in Runs, SpendPut(r) PROVE PaidInv'
  <2> DEFINE list == TxOf[r].inputs
  <2>1. /\ Others(r) /\ UnderWay(r) /\ \A u \in Runs : UnderWay(u)' => UnderWay(u)
        /\ snap' = snap /\ madeBy' = madeBy /\ pc[r] = "spend"
    BY <1>4, SnapStays, CallMoves, SpendPuts DEF SpendPut
  <2>2. /\ Input(r) \in DOMAIN outputs \ spent /\ spent' = spent \cup {Input(r)} /\ DOMAIN outputs' = DOMAIN outputs
    BY <1>4, PutFinds
  <2>3. /\ spentBy'[r] = spentBy[r] \cup {list[pos[r]]} /\ \A u \in Runs \ {r} : spentBy'[u] = spentBy[u]
        /\ Input(r) = list[pos[r]] /\ pos[r] \in DOMAIN list
        /\ \/ pos[r] < Len(list) /\ pc'[r] = "spend" /\ pos'[r] = pos[r] + 1
           \/ pos[r] = Len(list) /\ pc'[r] \in {"insert", "accepted"}
    BY <1>4, SpendPuts DEF CallInv, Input
  <2>4. /\ madeBy[r] = {} /\ spentBy[r] \subseteq spent /\ Len(snap[r]) = Len(list) /\ ValidResolved(TxOf[r], snap[r])
        /\ \A i \in 1..(pos[r] - 1) : list[i] \in spentBy[r]
        /\ \A i, j \in 1..(pos[r] - 1) : list[i] = list[j] => i = j
    BY <1>0, <2>1 DEF ReadInv, HasRead
  <2>5. DOMAIN list = 1..Len(list) /\ Len(list) \in Nat /\ pos[r] \in 1..Len(list)
    BY <2>3, Lists
  <2> HIDE DEF list
  <2>6. \A i \in 1..pos[r] : i = pos[r] \/ i \in 1..(pos[r] - 1)
    BY <2>5
  <2>7. list[pos[r]] \notin spentBy[r]
    BY <2>2, <2>3, <2>4
  <2>8. /\ \A i \in 1..pos[r] : list[i] \in spentBy'[r]
        /\ \A i, j \in 1..pos[r] : list[i] = list[j] => i = j
    BY <2>3, <2>4, <2>6, <2>7
  <2>9. pc'[r] = "insert" => PaidFor(r)'
    <3> SUFFICES ASSUME pc'[r] = "insert" PROVE PaidFor(r)'
      OBVIOUS
    <3>1. DOMAIN list = 1..pos[r]
      BY <2>3, <2>5
    <3> QED
      BY <2>1, <2>4, <2>8, <3>1 DEF PaidFor, list
  <2>10. pc'[r] = "spend" => pos'[r] - 1 = pos[r]
    BY <2>3, <2>5
  <2>11. P(r)'
    <3>1. /\ pc'[r] \notin Validating /\ madeBy'[r] = {} /\ Len(snap'[r]) = Len(TxOf[r].inputs)
          /\ spentBy'[r] \subseteq spent'
      BY <2>1, <2>2, <2>3, <2>4 DEF list, Validating
    <3>2. pc'[r] = "spend" =>
            /\ \A i \in 1..(pos'[r] - 1) : TxOf[r].inputs[i] \in spentBy'[r]
            /\ \A i, j \in 1..(pos'[r] - 1) : TxOf[r].inputs[i] = TxOf[r].inputs[j] => i = j
      BY <2>8, <2>10 DEF list
    <3> QED
      BY <2>9, <3>1, <3>2
  <2>12. \A u \in Runs \ {r} : /\ pc'[u] = pc[u] /\ pos'[u] = pos[u] /\ snap'[u] = snap[u]
                               /\ spentBy'[u] = spentBy[u] /\ madeBy'[u] = madeBy[u]
                               /\ (UnderWay(u)' => UnderWay(u))
    BY <2>1, <2>3 DEF Others
  <2>13. DOMAIN outputs \subseteq DOMAIN outputs' /\ spent \subseteq spent'
    BY <2>2
  <2> HIDE DEF P
  <2> QED
    BY <1>1, <2>11, <2>12, <2>13
<1>5. ASSUME NEW r \in Runs, InsertPut(r) PROVE PaidInv'
  <2>1. /\ Others(r) /\ UnderWay(r) /\ \A u \in Runs : UnderWay(u)' => UnderWay(u)
        /\ snap' = snap /\ pc[r] = "insert" /\ UNCHANGED <<spentBy, pc, pos>>
    BY <1>5, SnapStays, CallMoves, InsertPuts
  <2>2. spent' = spent /\ DOMAIN outputs' = DOMAIN outputs \cup {Proposal(r).id}
    BY <1>5, PutFinds
  <2>3. madeBy'[r] = madeBy[r] \cup {Proposal(r).id} /\ \A u \in Runs \ {r} : madeBy'[u] = madeBy[u]
    <3>1. madeBy' = [madeBy EXCEPT ![r] = madeBy[r] \cup {Proposal(r).id}]
      BY <1>5, InsertPuts
    <3>2. DOMAIN madeBy = Runs
      BY DEF CallInv
    <3> QED
      BY <3>1, <3>2
  <2>4. PaidFor(r)'
    BY <1>0, <2>1 DEF PaidFor
  <2>5. P(r)'
    BY <1>0, <2>1, <2>2, <2>3, <2>4 DEF Validating
  <2>6. \A u \in Runs \ {r} : /\ pc'[u] = pc[u] /\ pos'[u] = pos[u] /\ snap'[u] = snap[u]
                              /\ spentBy'[u] = spentBy[u] /\ madeBy'[u] = madeBy[u]
                              /\ (UnderWay(u)' => UnderWay(u))
    BY <2>1, <2>3 DEF Others
  <2>7. DOMAIN outputs \subseteq DOMAIN outputs' /\ spent \subseteq spent'
    BY <2>2
  <2> HIDE DEF P
  <2> QED
    BY <1>1, <2>5, <2>6, <2>7
<1>6. CASE Crash \/ Prune \/ (Tick /\ UNCHANGED durableVars) \/ UNCHANGED allVars
  <2>1. snap' = snap
    BY <1>6 DEF Crash, Prune, Tick, allVars, vars, runVars
  <2>2. UNCHANGED <<pc, pos, spentBy, madeBy>> /\ lost \subseteq lost'
    BY <1>6, NodeSteps DEF traceVars
  <2>3. \A u \in Runs : UnderWay(u)' => UnderWay(u) /\ (UNCHANGED <<outputs, spent>>)
    <3>1. \A u \in Runs : UnderWay(u)' => UnderWay(u)
      BY <2>2 DEF UnderWay
    <3>2. UNCHANGED <<outputs, spent>> \/ \A u \in Runs : ~UnderWay(u)
      BY <1>6, NodeSteps DEF storeVars
    <3> QED
      BY <3>1, <3>2
  <2>4. ASSUME NEW u \in Runs PROVE P(u)'
    <3>1. PaidFor(u) => PaidFor(u)'
      BY <2>1, <2>2 DEF PaidFor
    <3> QED
      BY <1>0, <2>1, <2>2, <2>3, <3>1
  <2> QED
    BY <2>4 DEF PaidInv
<1> QED
  BY <1>2, <1>3, <1>4, <1>5, <1>6 DEF DurableNext, RunStep

LEMMA LiveNat ==
  ASSUME DiskInv, NEW a
  PROVE  /\ \A o \in DOMAIN outputs : Worth(outputs, a)[o] \in Nat
         /\ \A s \in SUBSET DOMAIN outputs :
              /\ IsFiniteSet(s) /\ Total(Worth(outputs, a), s) \in Nat
              /\ \A o \in s : Total(Worth(outputs, a), s)
                                = Worth(outputs, a)[o] + Total(Worth(outputs, a), s \ {o})
<1>1. IsFiniteSet(DOMAIN outputs) /\ \A o \in DOMAIN outputs : Worth(outputs, a)[o] \in Nat
  BY WorthNat DEF DiskInv
<1>2. \A s \in SUBSET DOMAIN outputs : IsFiniteSet(s)
  BY <1>1, FS_Subset
<1> QED
  BY <1>1, <1>2, TotalStep

\* A run that marks and inserts nothing keeps what it spent and made.
LEMMA RunStays ==
  ASSUME NEW a, NEW u \in Runs, spentBy'[u] = spentBy[u], madeBy'[u] = madeBy[u],
         snap'[u] = snap[u] \/ spentBy[u] = {}
  PROVE  Spending(a)'[u] = Spending(a)[u] /\ Making(a)'[u] = Making(a)[u]
<1>1. SpentAt(u)' = SpentAt(u) /\ MadeAt(u)' = MadeAt(u)
  BY DEF SpentAt, MadeAt
<1>2. Spending(a)[u] = Total(Worth(snap[u], a), SpentAt(u)) /\ Making(a)'[u] = Making(a)[u]
  BY <1>1 DEF Spending, Making
<1>3. Spending(a)'[u] = Total(Worth(snap'[u], a), SpentAt(u))
  BY <1>1 DEF Spending
<1>4. CASE spentBy[u] = {}
  <2>1. SpentAt(u) = {} /\ IsFiniteSet({})
    BY <1>4, FS_EmptySet DEF SpentAt
  <2>2. Total(Worth(snap'[u], a), {}) = 0 /\ Total(Worth(snap[u], a), {}) = 0
    BY <2>1, TotalNone
  <2> QED
    BY <1>2, <1>3, <2>1, <2>2
<1> QED
  BY <1>2, <1>3, <1>4

\* The books stay balanced when one run's do: what it takes off, it puts on.
LEMMA BalanceKept ==
  ASSUME ReadInv, PaidInv, DiskInv, BalanceInv, NEW r \in Runs,
         \A u \in Runs \ {r} : spentBy'[u] = spentBy[u] /\ madeBy'[u] = madeBy[u]
                               /\ (snap'[u] = snap[u] \/ spentBy[u] = {}),
         \A a \in Assets : LET live == Total(Worth(outputs, a), DOMAIN outputs \ spent)
                           IN  /\ live' \in Nat /\ Spending(a)'[r] \in Nat /\ Making(a)'[r] \in Nat
                               /\ live' + Spending(a)'[r] + Making(a)[r]
                                    <= live + Spending(a)[r] + Making(a)'[r]
  PROVE  BalanceInv'
<1> SUFFICES ASSUME NEW a \in Assets
             PROVE  Total(Worth(outputs', a), DOMAIN outputs' \ spent') + Total(Spending(a)', Runs)
                      <= Total(Worth(Genesis, a), DOMAIN Genesis) + Total(Making(a)', Runs)
  BY DEF BalanceInv
<1> DEFINE live == Total(Worth(outputs, a), DOMAIN outputs \ spent)
           now1 == Total(Worth(outputs', a), DOMAIN outputs' \ spent')
           given == Total(Worth(Genesis, a), DOMAIN Genesis)
           paid == Spending(a)
           made == Making(a)
           paid1 == Spending(a)'
           made1 == Making(a)'
<1>1. live + Total(paid, Runs) <= given + Total(made, Runs)
  BY DEF BalanceInv
<1>2. /\ now1 \in Nat /\ paid1[r] \in Nat /\ made1[r] \in Nat
      /\ now1 + paid1[r] + made[r] <= live + paid[r] + made1[r]
  OBVIOUS
<1>3. \A u \in Runs \ {r} : paid1[u] = paid[u] /\ made1[u] = made[u]
  BY RunStays
<1>4. \A u \in Runs : paid[u] \in Nat /\ made[u] \in Nat
  BY RunTotals
<1>5. live \in Nat /\ given \in Nat
  <2>1. DOMAIN outputs \ spent \in SUBSET DOMAIN outputs
    OBVIOUS
  <2>2. IsFiniteSet(DOMAIN Genesis) /\ \A o \in DOMAIN Genesis : Worth(Genesis, a)[o] \in Nat
    BY WorthNat, FiniteAssumption, GenesisAssumption
  <2>3. DOMAIN Genesis \in SUBSET DOMAIN Genesis
    OBVIOUS
  <2> QED
    BY <2>1, <2>2, <2>3, LiveNat, TotalStep
<1> HIDE DEF live, now1, given, paid, made, paid1, made1
<1>6. \A u \in Runs : paid1[u] \in Nat /\ made1[u] \in Nat
  BY <1>2, <1>3, <1>4
<1>7. Total(paid1, Runs) + paid[r] = Total(paid, Runs) + paid1[r]
  BY <1>3, <1>4, <1>6, TotalMoves, FiniteAssumption
<1>8. Total(made1, Runs) + made[r] = Total(made, Runs) + made1[r]
  BY <1>3, <1>4, <1>6, TotalMoves, FiniteAssumption
<1>9. /\ Total(paid1, Runs) \in Nat /\ Total(paid, Runs) \in Nat
      /\ Total(made1, Runs) \in Nat /\ Total(made, Runs) \in Nat
  <2>1. Runs \in SUBSET Runs
    OBVIOUS
  <2> QED
    BY <2>1, <1>4, <1>6, TotalStep, FiniteAssumption
<1>10. paid[r] \in Nat /\ made[r] \in Nat
  BY <1>4
<1>11. now1 + Total(paid1, Runs) <= given + Total(made1, Runs)
  BY <1>1, <1>2, <1>5, <1>7, <1>8, <1>9, <1>10
<1> QED
  BY <1>11 DEF now1, paid1, given, made1

\* A step that keeps what is live, and marks and inserts nothing, keeps the balance.
LEMMA BalanceSame ==
  ASSUME ReadInv, PaidInv, DiskInv, BalanceInv,
         \A u \in Runs : spentBy'[u] = spentBy[u] /\ madeBy'[u] = madeBy[u]
                         /\ (snap'[u] = snap[u] \/ spentBy[u] = {}),
         DOMAIN outputs' \ spent' = DOMAIN outputs \ spent,
         \A o \in DOMAIN outputs \ spent : outputs'[o] = outputs[o] /\ o \in DOMAIN outputs'
  PROVE  BalanceInv'
<1> SUFFICES ASSUME NEW a \in Assets
             PROVE  Total(Worth(outputs', a), DOMAIN outputs' \ spent') + Total(Spending(a)', Runs)
                      <= Total(Worth(Genesis, a), DOMAIN Genesis) + Total(Making(a)', Runs)
  BY DEF BalanceInv
<1>1. \A u \in Runs : /\ Spending(a)'[u] = Spending(a)[u] /\ Making(a)'[u] = Making(a)[u]
                      /\ Spending(a)[u] \in Nat /\ Making(a)[u] \in Nat
  BY RunStays, RunTotals
<1>2. Total(Spending(a)', Runs) = Total(Spending(a), Runs) /\ Total(Making(a)', Runs) = Total(Making(a), Runs)
  <2> DEFINE paid == Spending(a)
             made == Making(a)
             paid1 == Spending(a)'
             made1 == Making(a)'
  <2> HIDE DEF paid, made, paid1, made1
  <2>1. \A u \in Runs : paid1[u] = paid[u] /\ made1[u] = made[u] /\ paid[u] \in Nat /\ made[u] \in Nat
    BY <1>1 DEF paid, made, paid1, made1
  <2>2. Total(paid1, Runs) = Total(paid, Runs) /\ Total(made1, Runs) = Total(made, Runs)
    BY <2>1, TotalSame, FiniteAssumption
  <2> QED
    BY <2>2 DEF paid, made, paid1, made1
<1>3. Total(Worth(outputs', a), DOMAIN outputs' \ spent') = Total(Worth(outputs, a), DOMAIN outputs \ spent)
  <2> DEFINE R == DOMAIN outputs \ spent
             v == Worth(outputs', a)
             w == Worth(outputs, a)
  <2>1. IsFiniteSet(R) /\ \A o \in R : w[o] \in Nat
    BY LiveNat
  <2>2. \A o \in R : v[o] = w[o]
    BY DEF Worth
  <2> HIDE DEF R, v, w
  <2>3. Total(v, R) = Total(w, R)
    BY <2>1, <2>2, TotalSame
  <2> QED
    BY <2>3 DEF R, v, w
<1> QED
  BY <1>2, <1>3 DEF BalanceInv

\* Marking an input takes its worth off what is live and puts it on what was consumed.
LEMMA BalanceSpends ==
  ASSUME CallInv, LookInv, DiskInv, ReadInv, PaidInv, NEW r \in Runs, SpendPut(r), NEW a
  PROVE  LET live == Total(Worth(outputs, a), DOMAIN outputs \ spent)
         IN  /\ live' \in Nat /\ Spending(a)'[r] \in Nat /\ Making(a)'[r] \in Nat
             /\ live' + Spending(a)'[r] + Making(a)[r] <= live + Spending(a)[r] + Making(a)'[r]
<1> DEFINE list == TxOf[r].inputs
           i == pos[r]
           o == Input(r)
           R == DOMAIN outputs \ spent
           w == Worth(outputs, a)
           v == Worth(outputs', a)
           seen == Worth(snap[r], a)
           S == SpentAt(r)
<1>1. /\ o \in R /\ DOMAIN outputs' \ spent' = R \ {o} /\ \A x \in R \ {o} : outputs'[x] = outputs[x] /\ x \in DOMAIN outputs'
  BY PutFinds
<1>2. Total(w, R) = w[o] + Total(w, R \ {o}) /\ Total(w, R \ {o}) \in Nat /\ w[o] \in Nat /\ Total(w, R) \in Nat
  BY <1>1, LiveNat
<1>3. Total(v, R \ {o}) = Total(w, R \ {o})
  <2>1. IsFiniteSet(R \ {o}) /\ \A x \in R \ {o} : w[x] \in Nat
    BY LiveNat
  <2>2. \A x \in R \ {o} : v[x] = w[x]
    BY <1>1 DEF Worth
  <2> HIDE DEF R, v, w, o
  <2> QED
    BY <2>1, <2>2, TotalSame
<1>4. /\ i \in DOMAIN list /\ o = list[i] /\ pc[r] = "spend" /\ UnderWay(r) /\ snap' = snap
      /\ spentBy'[r] = spentBy[r] \cup {o} /\ madeBy' = madeBy
  <2>1. spentBy' = [spentBy EXCEPT ![r] = spentBy[r] \cup {o}] /\ DOMAIN spentBy = Runs
    BY SpendPuts DEF CallInv
  <2>2. i \in DOMAIN list /\ o = list[i] /\ pc[r] = "spend" /\ UnderWay(r) /\ snap' = snap /\ madeBy' = madeBy
    BY SpendPuts, SnapStays, CallMoves DEF Input, SpendPut
  <2> HIDE DEF o, i, list
  <2> QED
    BY <2>1, <2>2
<1>5. /\ DOMAIN list = 1..Len(list) /\ Len(list) \in Nat /\ Len(snap[r]) = Len(list) /\ snap[r] \in Seq(Bodies)
      /\ DOMAIN snap[r] = DOMAIN list /\ SeesStored(r)
      /\ o \notin spentBy[r] /\ \A j \in 1..(i - 1) : list[j] \in spentBy[r]
  <2>1. DOMAIN list = 1..Len(list) /\ Len(list) \in Nat
    BY Lists
  <2>2. Len(snap[r]) = Len(list) /\ snap[r] \in Seq(Bodies) /\ SeesStored(r)
    BY <1>4 DEF ReadInv, HasRead
  <2>3. o \notin spentBy[r] /\ \A j \in 1..(i - 1) : list[j] \in spentBy[r]
    BY <1>1, <1>4 DEF PaidInv
  <2> QED
    BY <2>1, <2>2, <2>3
<1>6. i \notin S /\ SpentAt(r)' = S \cup {i}
  <2> HIDE DEF o
  <2>1. i \notin S
    BY <1>4, <1>5 DEF SpentAt
  <2>2. i \in Int /\ \A j \in DOMAIN list : j \in Int /\ (j < i => j \in 1..(i - 1)) /\ (i < j => i \in 1..(j - 1))
    BY <1>4, <1>5
  <2>3. ASSUME NEW j \in DOMAIN list PROVE j \in SpentAt(r)' <=> j \in S \cup {i}
    <3>1. CASE j = i
      BY <1>4, <1>5, <3>1 DEF SpentAt
    <3>2. CASE j < i
      BY <1>4, <1>5, <2>2, <3>2 DEF SpentAt
    <3>3. CASE i < j
      BY <1>4, <1>5, <2>2, <3>3 DEF SpentAt
    <3> QED
      BY <2>2, <3>1, <3>2, <3>3
  <2>4. SpentAt(r)' \subseteq DOMAIN list /\ S \cup {i} \subseteq DOMAIN list
    BY <1>4 DEF SpentAt
  <2> QED
    BY <2>1, <2>3, <2>4
<1>7. seen[i] = w[o]
  BY <1>1, <1>4, <1>5 DEF SeesStored, Worth
<1>8. Total(seen, S \cup {i}) = seen[i] + Total(seen, S) /\ Total(seen, S) \in Nat
  <2>1. /\ IsFiniteSet(DOMAIN snap[r]) /\ \A x \in DOMAIN snap[r] : seen[x] \in Nat
        /\ S \in SUBSET DOMAIN snap[r] /\ i \in DOMAIN snap[r]
    BY <1>4, <1>5, RunTotals
  <2>2. S \cup {i} \in SUBSET DOMAIN snap[r] /\ (S \cup {i}) \ {i} = S
    BY <1>6, <2>1
  <2> HIDE DEF S, seen, i
  <2> QED
    BY <2>1, <2>2, TotalStep
<1>9. Spending(a)'[r] = Total(seen, S \cup {i}) /\ Spending(a)[r] = Total(seen, S)
  BY <1>4, <1>6 DEF Spending
<1>10. Making(a)'[r] = Making(a)[r] /\ Making(a)[r] \in Nat
  BY <1>4, RunTotals DEF Making, MadeAt
<1>11. Total(Worth(outputs, a), DOMAIN outputs \ spent)' = Total(v, R \ {o})
  BY <1>1
<1> HIDE DEF R, w, v, seen, S, o, i, list
<1>12. /\ Total(v, R \ {o}) \in Nat /\ Spending(a)'[r] \in Nat /\ Making(a)'[r] \in Nat
       /\ Total(v, R \ {o}) + Spending(a)'[r] + Making(a)[r] <= Total(w, R) + Spending(a)[r] + Making(a)'[r]
  BY <1>2, <1>3, <1>7, <1>8, <1>9, <1>10
<1> QED
  BY <1>11, <1>12 DEF R, w

\* Inserting a proposal puts its worth on what is live and on what was made.
LEMMA BalanceMakes ==
  ASSUME CallInv, LookInv, DiskInv, ReadInv, PaidInv, NEW r \in Runs, InsertPut(r), NEW a
  PROVE  LET live == Total(Worth(outputs, a), DOMAIN outputs \ spent)
         IN  /\ live' \in Nat /\ Spending(a)'[r] \in Nat /\ Making(a)'[r] \in Nat
             /\ live' + Spending(a)'[r] + Making(a)[r] <= live + Spending(a)[r] + Making(a)'[r]
<1> DEFINE i == pos[r]
           o == Proposal(r).id
           R == DOMAIN outputs \ spent
           w == Worth(outputs, a)
           v == Worth(outputs', a)
           outs == ProposedBodies(TxOf[r])
           made == Worth(outs, a)
           S == MadeAt(r)
           T == MadeAt(r)'
<1>1. /\ o \notin DOMAIN outputs /\ spent' = spent /\ DOMAIN outputs' = DOMAIN outputs \cup {o}
      /\ outputs'[o] = Proposal(r).body /\ Proposal(r).body \in Bodies
      /\ \A x \in DOMAIN outputs : outputs'[x] = outputs[x]
  BY PutFinds
<1>2. DOMAIN outputs' \ spent' = R \cup {o} /\ o \notin R
  BY <1>1 DEF DiskInv
<1>3. IsFiniteSet(R) /\ (\A x \in R : w[x] \in Nat) /\ Total(w, R) \in Nat
  BY LiveNat
<1>4. (\A x \in R : v[x] = w[x]) /\ v[o] \in Nat
  <2>1. \A x \in R : v[x] = w[x]
    BY <1>1 DEF Worth
  <2>2. o \in DOMAIN outputs' /\ outputs'[o] \in Bodies
    BY <1>1
  <2> QED
    BY <2>1, <2>2, WorthNat
<1>5. Total(v, R \cup {o}) = v[o] + Total(w, R)
  <2> HIDE DEF R, v, w, o
  <2>1. Total(v, R) = Total(w, R)
    BY <1>3, <1>4, TotalSame
  <2>2. IsFiniteSet(R \cup {o}) /\ (\A x \in R \cup {o} : v[x] \in Nat) /\ (R \cup {o}) \ {o} = R
    BY <1>2, <1>3, <1>4, FS_AddElement
  <2>3. Total(v, R \cup {o}) = v[o] + Total(v, R)
    BY <2>2, TotalStep
  <2> QED
    BY <2>1, <2>3
<1>6. /\ pc[r] = "insert" /\ UnderWay(r) /\ UNCHANGED <<snap, spentBy>> /\ i \in DOMAIN TxOf[r].proposals
      /\ madeBy'[r] = madeBy[r] \cup {o} /\ o \notin madeBy[r]
  <2>1. madeBy' = [madeBy EXCEPT ![r] = madeBy[r] \cup {o}] /\ DOMAIN madeBy = Runs
    BY InsertPuts DEF CallInv
  <2>2. pc[r] = "insert" /\ UnderWay(r) /\ UNCHANGED <<snap, spentBy>> /\ i \in DOMAIN TxOf[r].proposals
    BY InsertPuts, SnapStays, CallMoves
  <2>3. o \notin madeBy[r]
    BY <1>1, <2>2 DEF PaidInv
  <2> HIDE DEF o, i
  <2> QED
    BY <2>1, <2>2, <2>3
<1>7. i \notin S /\ i \in T /\ S \subseteq T \ {i}
  BY <1>6 DEF MadeAt, Proposal
<1>8. made[i] = v[o]
  <2>1. i \in DOMAIN outs /\ outs[i] = Proposal(r).body
    BY <1>6, BodiesProposed DEF ProposedBodies, Proposal
  <2>2. made[i] = Held(Proposal(r).body, a)
    BY <2>1 DEF Worth
  <2>3. v[o] = Held(Proposal(r).body, a)
    BY <1>1 DEF Worth
  <2> QED
    BY <2>2, <2>3
<1>9. /\ Total(made, T) \in Nat /\ Total(made, S) \in Nat
      /\ Total(made, S) + made[i] <= Total(made, T)
  <2>1. IsFiniteSet(DOMAIN outs) /\ \A x \in DOMAIN outs : made[x] \in Nat
    BY RunTotals
  <2>2. T \in SUBSET DOMAIN outs
    BY BodiesProposed DEF MadeAt
  <2>3. IsFiniteSet(T \ {i}) /\ (\A x \in T \ {i} : made[x] \in Nat) /\ made[i] \in Nat
    BY <1>7, <2>1, <2>2, FS_Subset
  <2> HIDE DEF outs, made, S, T, i
  <2>4. Total(made, T) = made[i] + Total(made, T \ {i}) /\ Total(made, T) \in Nat
    BY <1>7, <2>1, <2>2, TotalStep
  <2>5. /\ Total(made, T \ {i}) = Total(made, S) + Total(made, (T \ {i}) \ S)
        /\ Total(made, S) \in Nat /\ Total(made, (T \ {i}) \ S) \in Nat
    BY <1>7, <2>3, TotalSplit
  <2> QED
    BY <2>3, <2>4, <2>5
<1>10. Making(a)'[r] = Total(made, T) /\ Making(a)[r] = Total(made, S)
  BY DEF Making
<1>11. Spending(a)'[r] = Spending(a)[r] /\ Spending(a)[r] \in Nat
  BY <1>6, RunTotals DEF Spending, SpentAt
<1>12. Total(Worth(outputs, a), DOMAIN outputs \ spent)' = Total(v, R \cup {o})
  BY <1>2
<1> HIDE DEF R, w, v, made, S, T, o, i
<1>13. /\ Total(v, R \cup {o}) \in Nat /\ Spending(a)'[r] \in Nat /\ Making(a)'[r] \in Nat
       /\ Total(v, R \cup {o}) + Spending(a)'[r] + Making(a)[r] <= Total(w, R) + Spending(a)[r] + Making(a)'[r]
  BY <1>3, <1>4, <1>5, <1>8, <1>9, <1>10, <1>11
<1> QED
  BY <1>12, <1>13 DEF R, w

LEMMA BalanceStep ==
  ASSUME CallInv, LookInv, DiskInv, ReadInv, PaidInv, BalanceInv, [DurableNext]_allVars
  PROVE  BalanceInv'
<1>1. ASSUME NEW r \in Runs, Start(r) \/ Validate(r) PROVE BalanceInv'
  <2>1. UNCHANGED <<outputs, spent, spentBy, madeBy>> /\ pc[r] \in Validating
    BY <1>1, Validates DEF storeVars, traceVars
  <2>2. spentBy[r] = {} /\ \A u \in Runs \ {r} : snap'[u] = snap[u]
    BY <1>1, <2>1, ValidatesRead DEF PaidInv
  <2> QED
    BY <2>1, <2>2, BalanceSame
<1>2. ASSUME NEW r \in Runs, SpendGet(r) \/ InsertHas(r) \/ InsertLatest(r) PROVE BalanceInv'
  <2>1. UNCHANGED <<snap, outputs, spent, spentBy, madeBy>>
    BY <1>2, SnapStays, StoreStays, Looks
  <2> QED
    BY <2>1, BalanceSame
<1>3. ASSUME NEW r \in Runs, SpendPut(r) PROVE BalanceInv'
  <2>1. snap' = snap /\ madeBy' = madeBy /\ \A u \in Runs \ {r} : spentBy'[u] = spentBy[u]
    BY <1>3, SnapStays, SpendPuts DEF CallInv
  <2> QED
    BY <1>3, <2>1, BalanceSpends, BalanceKept
<1>4. ASSUME NEW r \in Runs, InsertPut(r) PROVE BalanceInv'
  <2>1. madeBy' = [madeBy EXCEPT ![r] = madeBy[r] \cup {Proposal(r).id}] /\ DOMAIN madeBy = Runs
    BY <1>4, InsertPuts DEF CallInv
  <2>2. snap' = snap /\ spentBy' = spentBy /\ \A u \in Runs \ {r} : madeBy'[u] = madeBy[u]
    BY <1>4, <2>1, SnapStays, InsertPuts
  <2> QED
    BY <1>4, <2>2, BalanceMakes, BalanceKept
<1>5. CASE Crash \/ Prune \/ (Tick /\ UNCHANGED durableVars) \/ UNCHANGED allVars
  <2>1. snap' = snap /\ UNCHANGED <<spentBy, madeBy>>
    BY <1>5, NodeSteps DEF Crash, Prune, Tick, allVars, vars, runVars, traceVars
  <2>2. CASE UNCHANGED storeVars
    BY <2>1, <2>2, BalanceSame DEF storeVars
  <2>3. CASE outputs' = [o \in DOMAIN outputs \ Prunable |-> outputs[o]] /\ spent' = spent \ Prunable
    <3>1. Prunable \subseteq spent
      BY DEF Prunable
    <3>2. /\ DOMAIN outputs' \ spent' = DOMAIN outputs \ spent
          /\ \A o \in DOMAIN outputs \ spent : outputs'[o] = outputs[o] /\ o \in DOMAIN outputs'
      BY <2>3, <3>1
    <3> QED
      BY <2>1, <3>2, BalanceSame
  <2> QED
    BY <1>5, <2>2, <2>3, NodeSteps
<1> QED
  BY <1>1, <1>2, <1>3, <1>4, <1>5 DEF DurableNext, RunStep

\* Crashes may lose value, they never make any: what is live of an asset was there at
\* the start or was minted, whatever crashes between two puts and whatever is pruned.
THEOREM ValueFromMints ==
  ASSUME ConflictsApart
  PROVE  DurableSpec => []NothingFromCrashes
<1> DEFINE Inv == CallInv /\ StoreInv /\ DiskInv /\ ReadInv /\ PaidInv /\ BalanceInv
<1>1. DurableInit => Inv
  BY CallInit, StoreInit, ValueInit
<1>2. Inv /\ [DurableNext]_allVars => Inv'
  <2> SUFFICES ASSUME Inv, [DurableNext]_allVars PROVE Inv'
    OBVIOUS
  <2>1. CallInv' /\ StoreInv'
    BY StoreStep
  <2>2. LookInv
    BY DEF StoreInv
  <2>3. DiskInv' /\ ReadInv'
    BY <2>2, DiskStep, ReadStep
  <2>4. PaidInv' /\ BalanceInv'
    BY <2>2, <2>3, PaidStep, BalanceStep
  <2> QED
    BY <2>1, <2>3, <2>4
<1>3. Inv => NothingFromCrashes
  BY Balanced
<1> QED
  BY <1>1, <1>2, <1>3, PTL DEF DurableSpec

-----------------------------------------------------------------------------
(* The compute database *)

RebuildSteps == {"none", "copy", "set aside", "install", "roll back", "verify", "discard"}
KeysIn(p) == DOMAIN databases[p]
AllBinary(p) == \A k \in KeysIn(p) : databases[p][k] = "binary"
\* The database that has what the node has written, in today's format after a rebuild.
Complete(p) == p \in DOMAIN databases /\ (~interrupted => entries \subseteq KeysIn(p) /\ (rebuilt => AllBinary(p)))

\* The state of a command has the same parts at every step.
ShapeInv == DOMAIN rebuild = DOMAIN NoRebuild

PlacesInv ==
  /\ rebuild.n \in Nat /\ rebuild.step \in RebuildSteps
  /\ rebuild.step # "none" => ~running /\ rebuild.n > 0
  /\ running => Live \in DOMAIN databases
  /\ \A p \in DOMAIN databases : databases[p] \in [KeysIn(p) -> Formats]
  /\ \A p \in DOMAIN databases : p = Live \/ \E i \in 1..rebuild.n : p = Target(i) \/ p = Backup(i)

CopyInv ==
  LET copy == Target(rebuild.n)
      old == Backup(rebuild.n)
  IN  /\ rebuild.step = "none" /\ ~interrupted => Complete(Live)
      /\ rebuild.step \in {"copy", "set aside"} =>
           /\ Complete(Live) /\ copy \in DOMAIN databases /\ old \notin DOMAIN databases
           /\ KeysIn(copy) \subseteq KeysIn(Live) /\ AllBinary(copy)
           /\ KeysIn(Live) \subseteq KeysIn(copy) \cup rebuild.left /\ rebuild.left \subseteq KeysIn(Live)
      /\ rebuild.step = "set aside" => rebuild.left = {}
      /\ rebuild.step \in {"install", "roll back"} =>
           /\ Complete(old) /\ copy \in DOMAIN databases /\ Live \notin DOMAIN databases
           /\ KeysIn(old) \subseteq KeysIn(copy) /\ AllBinary(copy)
      /\ rebuild.step \in {"verify", "discard"} =>
           /\ Complete(Live) /\ old \in DOMAIN databases /\ KeysIn(old) \subseteq KeysIn(Live) /\ AllBinary(Live)

HeldInv == \A k \in entries : \E p \in DOMAIN databases : k \in KeysIn(p)

DatabasesInv == PlacesInv /\ CopyInv /\ HeldInv

-----------------------------------------------------------------------------
(* Batches *)

\* A batch step by step: db[0] is what it starts from, db[i] what the first i operations make of it.
LEMMA BatchSteps ==
  ASSUME NEW V, NEW base \in V, NEW Ops, NEW ops \in Seq(Ops), \A d \in V, op \in Ops : ApplyOp(d, op) \in V
  PROVE  \E db \in [0..Len(ops) -> V] :
           /\ db[0] = base /\ db[Len(ops)] = WriteBatch(base, ops)
           /\ \A i \in 1..Len(ops) : db[i] = ApplyOp(db[i - 1], ops[i])
<1> DEFINE D == DOMAIN ops
           n == Len(ops)
           Body(f, s) == IF s = {} THEN base ELSE ApplyOp(f[s \ {Max(s)}], ops[Max(s)])
           iter == CHOOSE f : f = [s \in SUBSET D |-> Body(f, s)]
           pick == [s \in SUBSET D |-> Max(s)]
           step == [p \in D \X V |-> ApplyOp(p[2], ops[p[1]])]
<1>1. WriteBatch(base, ops) = iter[D]
  BY DEF WriteBatch, FoldLeft, MapThenFoldSet
<1>2. IsFiniteSet(D) /\ D = 1..n /\ n \in Nat /\ \A i \in D : ops[i] \in Ops
  BY FS_Interval
<1>3. \A s \in SUBSET D : s # {} => Max(s) \in s /\ \A i \in s : i <= Max(s)
  BY <1>2, GreatestOf
<1> HIDE DEF D, n
<1>4. PICK f \in [SUBSET D -> V] : f = [s \in SUBSET D |-> Body(f, s)]
  <2>1. Adds(step, D, V)
    BY <1>2 DEF Adds
  <2>2. Picks(pick, D)
    BY <1>3 DEF Picks
  <2>3. PICK f \in [SUBSET D -> V] : FoldsBy(f, D, base, step, pick)
    <3> HIDE DEF step, pick
    <3> QED
      BY <1>2, <2>1, <2>2, FoldExists
  <2>4. ASSUME NEW s \in SUBSET D PROVE f[s] = Body(f, s)
    <3>1. f[s] = IF s = {} THEN base ELSE step[<<pick[s], f[s \ {pick[s]}]>>]
      BY <2>3 DEF FoldsBy
    <3>2. s # {} => Max(s) \in D /\ f[s \ {Max(s)}] \in V
      BY <1>3, <2>3
    <3> QED
      BY <3>1, <3>2
  <2>5. f = [s \in SUBSET D |-> Body(f, s)]
    BY <2>3, <2>4
  <2> QED
    BY <2>3, <2>5
<1>5. iter = [s \in SUBSET D |-> Body(iter, s)]
  BY <1>4
<1> HIDE DEF iter
<1>6. iter[{}] \in V
  BY <1>5
<1>7. ASSUME NEW s \in SUBSET D, s # {}, iter[s \ {pick[s]}] \in V PROVE iter[s] \in V
  <2>1. iter[s] = ApplyOp(iter[s \ {Max(s)}], ops[Max(s)]) /\ pick[s] = Max(s)
    BY <1>5, <1>7
  <2>2. ops[Max(s)] \in Ops
    BY <1>2, <1>3, <1>7
  <2> HIDE DEF pick
  <2> QED
    BY <1>7, <2>1, <2>2
<1>8. ASSUME NEW s \in SUBSET D PROVE iter[s] \in V
  <2>1. ASSUME NEW r \in SUBSET s, r # {}, iter[r \ {pick[r]}] \in V PROVE iter[r] \in V
    BY <1>7, <2>1
  <2>2. \A r \in SUBSET s : r # {} => pick[r] \in r
    BY <1>3
  <2>3. IsFiniteSet(s)
    BY <1>2, FS_Subset
  <2> HIDE DEF pick
  <2>4. \A r \in SUBSET s : r # {} => pick[r] \in r /\ (iter[r \ {pick[r]}] \in V => iter[r] \in V)
    BY <2>1, <2>2
  <2> QED
    BY <1>6, <2>3, <2>4, FoldStays
<1> DEFINE db == [i \in 0..n |-> iter[1..i]]
<1>9. db \in [0..n -> V]
  BY <1>2, <1>8
<1>10. db[0] = base /\ db[n] = WriteBatch(base, ops)
  <2>1. 1..0 = {} /\ iter[{}] = base /\ 0 \in 0..n /\ n \in 0..n
    BY <1>2, <1>5
  <2> QED
    BY <1>1, <1>2, <2>1
<1>11. ASSUME NEW i \in 1..n PROVE db[i] = ApplyOp(db[i - 1], ops[i])
  <2>1. 1..i \in SUBSET D /\ 1..i # {} /\ i \in 1..i /\ i \in 0..n /\ i - 1 \in 0..n
    <3>1. i \in Nat /\ 1 <= i /\ i <= n
      BY <1>2
    <3>2. 1..i \subseteq 1..n
      BY <1>2, <3>1
    <3>3. i \in 1..i /\ i \in 0..n /\ i - 1 \in 0..n
      BY <1>2, <3>1
    <3> QED
      BY <1>2, <3>2, <3>3
  <2>2. Max(1..i) = i
    <3>1. Max(1..i) \in 1..i /\ i <= Max(1..i)
      BY <1>3, <2>1
    <3> QED
      BY <3>1
  <2>3. (1..i) \ {i} = 1..(i - 1)
    OBVIOUS
  <2>4. iter[1..i] = ApplyOp(iter[(1..i) \ {Max(1..i)}], ops[Max(1..i)])
    BY <1>5, <2>1
  <2> QED
    BY <2>1, <2>2, <2>3, <2>4
<1> HIDE DEF db
<1> QED
  BY <1>9, <1>10, <1>11 DEF n

LEMMA AsSequence ==
  ASSUME NEW S, IsFiniteSet(S)
  PROVE  SetToSeq(S) \in Seq(S)
<1>1. Cardinality(S) \in Nat /\ ExistsBijection(1..Cardinality(S), S)
  BY FS_CardinalityType
<1>2. \E f \in [1..Cardinality(S) -> S] : IsInjective(f)
  <2>1. PICK f \in Bijection(1..Cardinality(S), S) : TRUE
    BY <1>1 DEF ExistsBijection
  <2>2. f \in [1..Cardinality(S) -> S] /\ IsInjective(f)
    BY <2>1 DEF Bijection, Injection, Surjection, IsInjective
  <2> QED
    BY <2>2
<1>3. SetToSeq(S) \in [1..Cardinality(S) -> S]
  BY <1>2 DEF SetToSeq
<1> QED
  BY <1>1, <1>3

Deletions(S) == SetToSeq({BatchDelete(k) : k \in S})

\* A batch that deletes keys of S keeps the others, and what they hold.
LEMMA OnlyDeleted ==
  ASSUME NEW F, NEW K, NEW base \in [K -> F], NEW S, IsFiniteSet(S)
  PROVE  LET r == WriteBatch(base, Deletions(S))
         IN  /\ K \ S \subseteq DOMAIN r /\ DOMAIN r \subseteq K
             /\ r \in [DOMAIN r -> F] /\ \A k \in DOMAIN r : r[k] = base[k]
<1> DEFINE Ops == {BatchDelete(k) : k \in S}
           ops == SetToSeq(Ops)
           Left(rest) == [k \in rest |-> base[k]]
           V == {Left(rest) : rest \in {r \in SUBSET K : K \ S \subseteq r}}
<1>1. IsFiniteSet(Ops)
  <2> DEFINE f == [k \in S |-> BatchDelete(k)]
  <2>1. f \in Surjection(S, Ops)
    BY DEF Surjection
  <2> QED
    BY <2>1, FS_Surjection DEF ExistsSurjection
<1>2. ops \in Seq(Ops)
  BY <1>1, AsSequence
<1>3. base \in V
  <2>1. base = Left(K)
    OBVIOUS
  <2> QED
    BY <2>1
<1>4. ASSUME NEW d \in V, NEW op \in Ops PROVE ApplyOp(d, op) \in V
  <2>1. PICK rest \in SUBSET K : K \ S \subseteq rest /\ d = Left(rest)
    OBVIOUS
  <2>2. PICK k \in S : op = BatchDelete(k)
    OBVIOUS
  <2>3. ApplyOp(d, op) = DeleteEntry(d, k)
    BY <2>2 DEF ApplyOp, BatchDelete
  <2>4. DeleteEntry(d, k) = Left(rest \ {k})
    BY <2>1 DEF DeleteEntry
  <2>5. rest \ {k} \in SUBSET K /\ K \ S \subseteq rest \ {k}
    BY <2>1, <2>2
  <2> HIDE DEF Left
  <2> QED
    BY <2>3, <2>4, <2>5
<1> HIDE DEF Ops, ops, V
<1>5. PICK db \in [0..Len(ops) -> V] : db[Len(ops)] = WriteBatch(base, ops)
  BY <1>2, <1>3, <1>4, BatchSteps
<1>6. Len(ops) \in 0..Len(ops)
  BY <1>2
<1>7. WriteBatch(base, ops) \in V
  BY <1>5, <1>6
<1>8. ASSUME NEW r \in V
      PROVE  /\ K \ S \subseteq DOMAIN r /\ DOMAIN r \subseteq K
             /\ r \in [DOMAIN r -> F] /\ \A k \in DOMAIN r : r[k] = base[k]
  BY DEF V
<1>9. WriteBatch(base, Deletions(S)) \in V
  BY <1>7 DEF ops, Ops, Deletions
<1> QED
  BY <1>8, <1>9

-----------------------------------------------------------------------------
(* A rebuild *)

LEMMA Places ==
  /\ \A i \in Nat : Live # Target(i) /\ Live # Backup(i)
  /\ \A i, j \in Nat : Target(i) # Backup(j) /\ (Target(i) = Target(j) => i = j) /\ (Backup(i) = Backup(j) => i = j)
<1>1. "live" # "rebuild" /\ "live" # "backup" /\ "rebuild" # "backup"
  OBVIOUS
<1>2. \A x, y, i, j : <<x, i>> = <<y, j>> => x = y /\ i = j
  OBVIOUS
<1> QED
  BY <1>1, <1>2, Zenon DEF Live, Target, Backup

\* What another number's rebuild left behind has other names.
LEMMA OtherPlaces ==
  ASSUME PlacesInv
  PROVE  Target(rebuild.n + 1) \notin DOMAIN databases /\ Backup(rebuild.n + 1) \notin DOMAIN databases
<1>1. \A i \in 1..rebuild.n : i \in Nat /\ i # rebuild.n + 1
  BY DEF PlacesInv
<1>2. rebuild.n + 1 \in Nat
  BY DEF PlacesInv
<1> DEFINE n == rebuild.n + 1
<1>3. Target(n) # Live /\ Backup(n) # Live
  BY <1>2, Places
<1>4. ASSUME NEW i \in 1..rebuild.n
      PROVE  /\ Target(n) # Target(i) /\ Target(n) # Backup(i)
             /\ Backup(n) # Target(i) /\ Backup(n) # Backup(i)
  <2>1. i \in Nat /\ i # n
    BY <1>1
  <2> HIDE DEF n
  <2> QED
    BY <1>2, <2>1, Places DEF n
<1>5. \A p \in DOMAIN databases : p = Live \/ \E i \in 1..rebuild.n : p = Target(i) \/ p = Backup(i)
  BY DEF PlacesInv
<1> HIDE DEF n
<1>6. Target(n) \notin DOMAIN databases
  BY <1>3, <1>4, <1>5
<1>7. Backup(n) \notin DOMAIN databases
  BY <1>3, <1>4, <1>5
<1> QED
  BY <1>6, <1>7 DEF n

LEMMA StartDisk == DiskInit => DatabasesInv
<1> SUFFICES ASSUME DiskInit PROVE DatabasesInv
  OBVIOUS
<1> USE DEF DiskInit, NoRebuild, KeysIn
<1>1. DOMAIN databases = {Live} /\ databases[Live] = LegacyDb
  OBVIOUS
<1>2. PlacesInv
  BY <1>1, MaintenanceAssumption DEF PlacesInv, RebuildSteps
<1>3. HeldInv /\ Complete(Live)
  BY <1>1 DEF HeldInv, Complete
<1>4. CopyInv
  BY <1>3 DEF CopyInv
<1> QED
  BY <1>2, <1>3, <1>4 DEF DatabasesInv

LEMMA StartStopInv ==
  ASSUME DatabasesInv, StartNode \/ StopNode
  PROVE  DatabasesInv'
<1> USE DEF DatabasesInv
<1>1. CASE Live \in DOMAIN databases \/ StopNode
  <2>1. UNCHANGED <<databases, rebuild, entries, interrupted, rebuilt>> /\ (running' => Live \in DOMAIN databases)
    BY <1>1 DEF StartNode, StopNode, OpenDatabase
  <2>2. running' => rebuild.step = "none"
    BY <1>1 DEF StartNode, StopNode, At
  <2>3. PlacesInv'
    BY <2>1, <2>2 DEF PlacesInv, KeysIn
  <2>4. HeldInv' /\ CopyInv'
    BY <2>1 DEF CopyInv, HeldInv, Complete, AllBinary, KeysIn
  <2> QED
    BY <2>3, <2>4
<1>2. CASE Live \notin DOMAIN databases /\ StartNode
  <2>1. /\ databases' = PutEntry(databases, Live, Empty) /\ UNCHANGED <<rebuild, entries, interrupted, rebuilt>>
        /\ rebuild.step = "none" /\ interrupted
    BY <1>2 DEF StartNode, OpenDatabase, At, CopyInv, Complete
  <2>2. /\ DOMAIN databases' = DOMAIN databases \cup {Live} /\ databases'[Live] = << >>
        /\ \A p \in DOMAIN databases : databases'[p] = databases[p]
    BY <1>2, <2>1 DEF PutEntry, Empty
  <2>3. << >> \in [DOMAIN << >> -> Formats] /\ DOMAIN << >> = {}
    OBVIOUS
  <2>4. PlacesInv'
    BY <2>1, <2>2, <2>3 DEF PlacesInv, KeysIn
  <2>5. HeldInv' /\ CopyInv'
    BY <1>2, <2>1, <2>2 DEF HeldInv, CopyInv, KeysIn
  <2> QED
    BY <2>4, <2>5
<1> QED
  BY <1>1, <1>2

LEMMA NodeWritesInv ==
  ASSUME DatabasesInv, NEW k \in DbKeys, NodeWrites(k)
  PROVE  DatabasesInv'
<1> USE DEF DatabasesInv
<1>1. /\ running /\ rebuild.step = "none" /\ Live \in DOMAIN databases /\ UNCHANGED <<running, rebuild, interrupted, rebuilt>>
      /\ entries' = entries \cup {k} /\ databases' = [databases EXCEPT ![Live] = PutEntry(@, k, "binary")]
  BY DEF NodeWrites, PlacesInv
<1>2. /\ DOMAIN databases' = DOMAIN databases /\ \A p \in DOMAIN databases \ {Live} : databases'[p] = databases[p]
      /\ databases'[Live] = [x \in KeysIn(Live) \cup {k} |-> IF x = k THEN "binary" ELSE databases[Live][x]]
  BY <1>1 DEF PutEntry, KeysIn
<1>3. databases[Live] \in [KeysIn(Live) -> Formats] /\ "binary" \in Formats
  BY <1>1 DEF PlacesInv, Formats
<1>4. databases'[Live] \in [KeysIn(Live) \cup {k} -> Formats] /\ DOMAIN databases'[Live] = KeysIn(Live) \cup {k}
  BY <1>2, <1>3
<1>5. PlacesInv'
  BY <1>1, <1>2, <1>4 DEF PlacesInv, KeysIn
<1>6. HeldInv'
  BY <1>1, <1>2, <1>4 DEF HeldInv, KeysIn
<1>7. ~interrupted => Complete(Live)'
  BY <1>1, <1>2, <1>4 DEF CopyInv, Complete, AllBinary, KeysIn
<1>8. CopyInv'
  BY <1>1, <1>7 DEF CopyInv
<1> QED
  BY <1>5, <1>6, <1>8

LEMMA PruneInv ==
  ASSUME DatabasesInv, PruneDb
  PROVE  DatabasesInv'
<1> USE DEF DatabasesInv
<1> DEFINE outdated == DOMAIN databases[Live] \cap Outdated
           K == KeysIn(Live)
           batch == Deletions(outdated)
<1>1. /\ rebuild.step = "none" /\ Live \in DOMAIN databases /\ UNCHANGED <<running, rebuild, interrupted, rebuilt>>
      /\ entries' = entries \ outdated /\ databases' = [databases EXCEPT ![Live] = WriteBatch(databases[Live], batch)]
  BY DEF PruneDb, At, Deletions
<1>2. databases[Live] \in [K -> Formats] /\ IsFiniteSet(outdated)
  BY <1>1, MaintenanceAssumption, FS_Intersection DEF PlacesInv
<1> DEFINE r == WriteBatch(databases[Live], batch)
<1>3. K \ outdated \subseteq DOMAIN r /\ DOMAIN r \subseteq K /\ r \in [DOMAIN r -> Formats]
      /\ \A k \in DOMAIN r : r[k] = databases[Live][k]
  <2> HIDE DEF outdated, K
  <2>1. K \ outdated \subseteq DOMAIN r /\ DOMAIN r \subseteq K
    BY <1>2, OnlyDeleted
  <2>2. r \in [DOMAIN r -> Formats]
    BY <1>2, OnlyDeleted
  <2>3. \A k \in DOMAIN r : r[k] = databases[Live][k]
    BY <1>2, OnlyDeleted
  <2> QED
    BY <2>1, <2>2, <2>3
<1> HIDE DEF r
<1>4. /\ DOMAIN databases' = DOMAIN databases /\ \A p \in DOMAIN databases \ {Live} : databases'[p] = databases[p]
      /\ databases'[Live] = r
  BY <1>1 DEF r
<1>5. databases'[Live] \in [DOMAIN r -> Formats]
  BY <1>3, <1>4
<1>6. PlacesInv'
  BY <1>1, <1>4, <1>5 DEF PlacesInv, KeysIn
<1>7. HeldInv'
  BY <1>1, <1>3, <1>4, <1>5 DEF HeldInv, KeysIn
<1>8. ~interrupted => Complete(Live)'
  BY <1>1, <1>3, <1>4, <1>5 DEF CopyInv, Complete, AllBinary, KeysIn
<1>9. CopyInv'
  BY <1>1, <1>8 DEF CopyInv
<1> QED
  BY <1>6, <1>7, <1>9

LEMMA BeginInv ==
  ASSUME DatabasesInv, BeginRebuild
  PROVE  DatabasesInv'
<1> USE DEF DatabasesInv
<1>1. PICK n \in Nat, dry \in BOOLEAN, discard \in BOOLEAN :
        /\ n = rebuild.n + 1 /\ databases' = PutEntry(databases, Target(n), Empty)
        /\ rebuild' = [step |-> "copy", n |-> n, dryRun |-> dry, discard |-> discard,
                       left |-> DOMAIN databases[Live], counted |-> CountEntries(Live)]
  BY DEF BeginRebuild, PlacesInv
<1>2. /\ rebuild.step = "none" /\ Live \in DOMAIN databases /\ ~running
      /\ UNCHANGED <<running, entries, interrupted, rebuilt>>
  BY DEF BeginRebuild, Lockable, At
<1>3. Target(n) \notin DOMAIN databases /\ Backup(n) \notin DOMAIN databases /\ Target(n) # Backup(n) /\ Target(n) # Live
  BY <1>1, OtherPlaces, Places
<1>4. /\ DOMAIN databases' = DOMAIN databases \cup {Target(n)} /\ databases'[Target(n)] = << >>
      /\ \A p \in DOMAIN databases : databases'[p] = databases[p]
  BY <1>1, <1>3 DEF PutEntry, Empty
<1>5. << >> \in [DOMAIN << >> -> Formats] /\ DOMAIN << >> = {}
  OBVIOUS
<1>6. PlacesInv'
  <2>1. \A p \in DOMAIN databases' : databases'[p] \in [DOMAIN databases'[p] -> Formats]
    BY <1>4, <1>5 DEF PlacesInv, KeysIn
  <2>2. ASSUME NEW p \in DOMAIN databases'
        PROVE  p = Live \/ \E i \in 1..n : p = Target(i) \/ p = Backup(i)
    <3>1. 1..rebuild.n \subseteq 1..n /\ n \in 1..n
      BY <1>1 DEF PlacesInv
    <3>2. p = Target(n) \/ p \in DOMAIN databases
      BY <1>4
    <3> QED
      BY <3>1, <3>2 DEF PlacesInv
  <2>3. rebuild'.n = n /\ rebuild'.step = "copy" /\ n > 0
    BY <1>1 DEF PlacesInv
  <2> QED
    BY <1>2, <1>4, <2>1, <2>2, <2>3 DEF PlacesInv, KeysIn, RebuildSteps
<1>7. HeldInv'
  BY <1>2, <1>4 DEF HeldInv, KeysIn
<1>8. Complete(Live)'
  BY <1>2, <1>4 DEF CopyInv, Complete, AllBinary, KeysIn
<1>9. CopyInv'
  <2>1. rebuild'.n = n /\ rebuild'.step = "copy" /\ rebuild'.left = DOMAIN databases[Live]
    BY <1>1
  <2> QED
    BY <1>2, <1>3, <1>4, <1>5, <1>8, <2>1 DEF CopyInv, AllBinary, KeysIn
<1> QED
  BY <1>6, <1>7, <1>9

LEMMA CopyEntryInv ==
  ASSUME DatabasesInv, NEW k, CopyEntry(k)
  PROVE  DatabasesInv'
<1> USE DEF DatabasesInv
<1> DEFINE copy == Target(rebuild.n)
           old == Backup(rebuild.n)
<1>1. /\ rebuild.step = "copy" /\ k \in rebuild.left /\ UNCHANGED <<running, entries, interrupted, rebuilt>>
      /\ databases' = [databases EXCEPT ![copy] = PutEntry(@, k, "binary")]
      /\ rebuild' = [rebuild EXCEPT !.left = @ \ {k}]
  BY DEF CopyEntry, At
<1>2. /\ Complete(Live) /\ copy \in DOMAIN databases /\ old \notin DOMAIN databases
      /\ KeysIn(copy) \subseteq KeysIn(Live) /\ AllBinary(copy)
      /\ KeysIn(Live) \subseteq KeysIn(copy) \cup rebuild.left /\ rebuild.left \subseteq KeysIn(Live)
  BY <1>1 DEF CopyInv
<1>3. rebuild.n \in Nat /\ copy # Live /\ databases[copy] \in [KeysIn(copy) -> Formats] /\ "binary" \in Formats
  BY <1>2, Places DEF PlacesInv, Formats
<1>4. /\ rebuild'.n = rebuild.n /\ rebuild'.step = "copy" /\ rebuild'.left = rebuild.left \ {k}
  BY <1>1
<1> HIDE DEF copy, old
<1>5. /\ DOMAIN databases' = DOMAIN databases /\ \A p \in DOMAIN databases \ {copy} : databases'[p] = databases[p]
      /\ databases'[copy] = [x \in KeysIn(copy) \cup {k} |-> IF x = k THEN "binary" ELSE databases[copy][x]]
  BY <1>1, <1>2 DEF PutEntry, KeysIn
<1>6. databases'[copy] \in [KeysIn(copy) \cup {k} -> Formats] /\ DOMAIN databases'[copy] = KeysIn(copy) \cup {k}
  BY <1>3, <1>5
<1>7. PlacesInv'
  BY <1>1, <1>4, <1>5, <1>6 DEF PlacesInv, KeysIn
<1>8. HeldInv'
  BY <1>1, <1>5, <1>6 DEF HeldInv, KeysIn
<1>9. Complete(Live)' /\ KeysIn(Live)' = KeysIn(Live)
  BY <1>1, <1>2, <1>3, <1>5 DEF Complete, AllBinary, KeysIn
<1>10. \A x \in DOMAIN databases'[copy] : databases'[copy][x] = "binary"
  BY <1>2, <1>5 DEF AllBinary, KeysIn
<1>11. copy = Target(rebuild'.n) /\ old = Backup(rebuild'.n)
  BY <1>4 DEF copy, old
<1>12. CopyInv'
  <2>1. DOMAIN databases'[copy] \subseteq KeysIn(Live)'
    BY <1>1, <1>2, <1>6, <1>9
  <2>2. KeysIn(Live)' \subseteq DOMAIN databases'[copy] \cup rebuild'.left /\ rebuild'.left \subseteq KeysIn(Live)'
    BY <1>2, <1>4, <1>6, <1>9
  <2> QED
    BY <1>2, <1>4, <1>5, <1>9, <1>10, <1>11, <2>1, <2>2 DEF CopyInv, AllBinary, KeysIn
<1> QED
  BY <1>7, <1>8, <1>12

\* The command ends where nothing is lost by it, or goes on.
LEMMA RebuildEndsInv ==
  ASSUME DatabasesInv, UNCHANGED <<databases, running, entries>>, Finish, rebuild.step # "none",
         \/ (interrupted => interrupted') /\ rebuilt' = rebuilt /\ rebuild.step \in {"copy", "set aside", "verify", "discard"}
         \/ interrupted' /\ rebuilt' = rebuilt
         \/ interrupted' = interrupted /\ rebuild.step = "verify"
  PROVE  DatabasesInv'
<1> USE DEF DatabasesInv
<1>1. rebuild'.n = rebuild.n /\ rebuild'.step = "none"
  BY DEF Finish, NoRebuild
<1>2. PlacesInv'
  BY <1>1 DEF PlacesInv, KeysIn, RebuildSteps
<1>3. HeldInv'
  BY DEF HeldInv, KeysIn
<1>4. ~interrupted' => Complete(Live)'
  BY DEF CopyInv, Complete, AllBinary, KeysIn
<1>5. CopyInv'
  BY <1>1, <1>4 DEF CopyInv
<1> QED
  BY <1>2, <1>3, <1>5

LEMMA RebuildGoesOn ==
  ASSUME ShapeInv, DatabasesInv, UNCHANGED <<databases, running, entries, interrupted, rebuilt>>, NEW step, ToStep(step),
         \/ rebuild.step = "copy" /\ rebuild.left = {} /\ step = "set aside"
         \/ rebuild.step = "install" /\ step = "roll back"
         \/ rebuild.step = "verify" /\ step = "discard"
  PROVE  DatabasesInv'
<1> USE DEF DatabasesInv
<1>1. rebuild'.n = rebuild.n /\ rebuild'.step = step /\ rebuild'.left = rebuild.left
  <2>1. DOMAIN rebuild = DOMAIN NoRebuild
    BY DEF ShapeInv
  <2> QED
    BY <2>1 DEF ToStep, NoRebuild
<1>2. PlacesInv'
  BY <1>1 DEF PlacesInv, KeysIn, RebuildSteps
<1>3. HeldInv'
  BY DEF HeldInv, KeysIn
<1>4. CopyInv'
  BY <1>1 DEF CopyInv, Complete, AllBinary, KeysIn
<1> QED
  BY <1>2, <1>3, <1>4

LEMMA CompareInv ==
  ASSUME ShapeInv, DatabasesInv, CompareCounts
  PROVE  DatabasesInv'
<1> DEFINE copy == Target(rebuild.n)
<1>1. /\ rebuild.step = "copy" /\ rebuild.left = {} /\ UNCHANGED <<running, entries, interrupted, rebuilt>>
      /\ \/ Finish /\ UNCHANGED databases
         \/ Finish /\ databases' = DeleteEntry(databases, copy)
         \/ ToStep("set aside") /\ UNCHANGED databases
  BY DEF CompareCounts, At
<1>2. CASE Finish /\ UNCHANGED databases
  BY <1>1, <1>2, RebuildEndsInv
<1>3. CASE ToStep("set aside") /\ UNCHANGED databases
  BY <1>1, <1>3, RebuildGoesOn
<1>4. CASE Finish /\ databases' = DeleteEntry(databases, copy)
  <2> USE DEF DatabasesInv
  <2>1. rebuild'.n = rebuild.n /\ rebuild'.step = "none"
    BY <1>4 DEF Finish, NoRebuild
  <2>2. Complete(Live) /\ KeysIn(copy) \subseteq KeysIn(Live) /\ copy # Live
    BY <1>1, Places DEF CopyInv, PlacesInv
  <2> HIDE DEF copy
  <2>3. DOMAIN databases' = DOMAIN databases \ {copy} /\ \A p \in DOMAIN databases' : databases'[p] = databases[p]
    BY <1>4 DEF DeleteEntry
  <2>4. PlacesInv'
    BY <1>1, <2>1, <2>2, <2>3 DEF PlacesInv, KeysIn, RebuildSteps
  <2>5. HeldInv'
    BY <1>1, <2>2, <2>3 DEF HeldInv, KeysIn, Complete
  <2>6. Complete(Live)'
    BY <1>1, <2>2, <2>3 DEF Complete, AllBinary, KeysIn
  <2>7. CopyInv'
    BY <2>1, <2>6 DEF CopyInv
  <2> QED
    BY <2>4, <2>5, <2>7
<1> QED
  BY <1>1, <1>2, <1>3, <1>4

\* A rename of one database to a new name.
LEMMA Moved ==
  ASSUME NEW from \in DOMAIN databases, NEW to, to \notin DOMAIN databases, Move(from, to)
  PROVE  /\ DOMAIN databases' = (DOMAIN databases \ {from}) \cup {to} /\ databases'[to] = databases[from]
         /\ \A p \in DOMAIN databases \ {from} : p # to /\ databases'[p] = databases[p]
  BY DEF Move

LEMMA MovedHeld ==
  ASSUME DatabasesInv, NEW from \in DOMAIN databases, NEW to, to \notin DOMAIN databases, Move(from, to), entries' = entries
  PROVE  HeldInv'
<1>1. /\ DOMAIN databases' = (DOMAIN databases \ {from}) \cup {to} /\ databases'[to] = databases[from]
      /\ \A p \in DOMAIN databases \ {from} : p # to /\ databases'[p] = databases[p]
  BY Moved
<1> QED
  BY <1>1 DEF DatabasesInv, HeldInv, KeysIn

LEMMA MovedTyped ==
  ASSUME DatabasesInv, NEW from \in DOMAIN databases, NEW to, to \notin DOMAIN databases, Move(from, to),
         to = Live \/ \E i \in 1..rebuild.n : to = Backup(i),
         ~running', rebuild'.n = rebuild.n, rebuild.n > 0, rebuild'.step \in RebuildSteps
  PROVE  PlacesInv'
<1>1. /\ DOMAIN databases' = (DOMAIN databases \ {from}) \cup {to} /\ databases'[to] = databases[from]
      /\ \A p \in DOMAIN databases \ {from} : p # to /\ databases'[p] = databases[p]
  BY Moved
<1> QED
  BY <1>1 DEF DatabasesInv, PlacesInv, KeysIn

LEMMA SetAsideInv ==
  ASSUME ShapeInv, DatabasesInv, SetAside
  PROVE  DatabasesInv'
<1> USE DEF DatabasesInv
<1> DEFINE copy == Target(rebuild.n)
           old == Backup(rebuild.n)
<1>1. rebuild.step = "set aside" /\ UNCHANGED <<running, entries, interrupted, rebuilt>>
  BY DEF SetAside, At
<1>2. CASE Finish /\ UNCHANGED databases
  BY <1>1, <1>2, RebuildEndsInv
<1>3. CASE Move(Live, old) /\ ToStep("install")
  <2>1. rebuild'.n = rebuild.n /\ rebuild'.step = "install"
    BY <1>3 DEF ToStep
  <2>2. /\ Complete(Live) /\ copy \in DOMAIN databases /\ old \notin DOMAIN databases
        /\ KeysIn(copy) \subseteq KeysIn(Live) /\ AllBinary(copy) /\ KeysIn(Live) \subseteq KeysIn(copy)
    BY <1>1 DEF CopyInv
  <2>3. Live \in DOMAIN databases /\ ~running /\ rebuild.n \in Nat /\ rebuild.n > 0 /\ copy # Live /\ old # Live
    BY <1>1, <2>2, Places DEF PlacesInv, Complete
  <2>4. rebuild.n \in 1..rebuild.n
    BY <2>3
  <2>5. HeldInv'
    BY <1>1, <1>3, <2>2, <2>3, MovedHeld
  <2>6. PlacesInv'
    BY <1>1, <1>3, <2>1, <2>2, <2>3, <2>4, MovedTyped DEF RebuildSteps
  <2>7. copy = Target(rebuild'.n) /\ old = Backup(rebuild'.n)
    BY <2>1
  <2> HIDE DEF copy, old
  <2>8. /\ DOMAIN databases' = (DOMAIN databases \ {Live}) \cup {old} /\ databases'[old] = databases[Live]
        /\ \A p \in DOMAIN databases \ {Live} : p # old /\ databases'[p] = databases[p]
    BY <1>3, <2>2, <2>3, Moved
  <2>9. CopyInv'
    BY <1>1, <2>1, <2>2, <2>3, <2>7, <2>8 DEF CopyInv, Complete, AllBinary, KeysIn
  <2> QED
    BY <2>5, <2>6, <2>9
<1> QED
  BY <1>2, <1>3 DEF SetAside

LEMMA InstallInv ==
  ASSUME ShapeInv, DatabasesInv, Install
  PROVE  DatabasesInv'
<1> USE DEF DatabasesInv
<1> DEFINE copy == Target(rebuild.n)
           old == Backup(rebuild.n)
<1>1. rebuild.step = "install" /\ UNCHANGED <<running, entries, interrupted, rebuilt>>
  BY DEF Install, At
<1>2. CASE ToStep("roll back") /\ UNCHANGED databases
  BY <1>1, <1>2, RebuildGoesOn
<1>3. CASE Move(copy, Live) /\ ToStep("verify")
  <2>1. rebuild'.n = rebuild.n /\ rebuild'.step = "verify"
    BY <1>3 DEF ToStep
  <2>2. /\ Complete(old) /\ copy \in DOMAIN databases /\ Live \notin DOMAIN databases
        /\ KeysIn(old) \subseteq KeysIn(copy) /\ AllBinary(copy)
    BY <1>1 DEF CopyInv
  <2>3. ~running /\ rebuild.n \in Nat /\ rebuild.n > 0 /\ copy # old
    BY <1>1, <2>2, Places DEF PlacesInv, Complete
  <2>4. HeldInv'
    BY <1>1, <1>3, <2>2, <2>3, MovedHeld
  <2>5. PlacesInv'
    BY <1>1, <1>3, <2>1, <2>2, <2>3, MovedTyped DEF RebuildSteps
  <2>6. old = Backup(rebuild'.n)
    BY <2>1
  <2>7. /\ DOMAIN databases' = (DOMAIN databases \ {copy}) \cup {Live} /\ databases'[Live] = databases[copy]
        /\ \A p \in DOMAIN databases \ {copy} : p # Live /\ databases'[p] = databases[p]
    BY <1>3, <2>2, Moved
  <2> HIDE DEF copy, old
  <2>8. CopyInv'
    BY <1>1, <2>1, <2>2, <2>3, <2>6, <2>7 DEF CopyInv, Complete, AllBinary, KeysIn
  <2> QED
    BY <2>4, <2>5, <2>8
<1> QED
  BY <1>2, <1>3 DEF Install

LEMMA RollBackInv ==
  ASSUME DatabasesInv, RollBack
  PROVE  DatabasesInv'
<1> USE DEF DatabasesInv
<1> DEFINE old == Backup(rebuild.n)
<1>1. rebuild.step = "roll back" /\ UNCHANGED <<running, entries, rebuilt>> /\ Finish
  BY DEF RollBack, At
<1>2. CASE interrupted' = TRUE /\ UNCHANGED databases
  BY <1>1, <1>2, RebuildEndsInv
<1>3. CASE Move(old, Live) /\ UNCHANGED interrupted
  <2>1. rebuild'.n = rebuild.n /\ rebuild'.step = "none"
    BY <1>1 DEF Finish, NoRebuild
  <2>2. Complete(old) /\ Live \notin DOMAIN databases /\ old \in DOMAIN databases
    BY <1>1 DEF CopyInv, Complete
  <2>3. ~running /\ rebuild.n \in Nat /\ rebuild.n > 0
    BY <1>1 DEF PlacesInv
  <2>4. HeldInv'
    BY <1>1, <1>3, <2>2, MovedHeld
  <2>5. PlacesInv'
    BY <1>1, <1>3, <2>1, <2>2, <2>3, MovedTyped DEF RebuildSteps
  <2>6. /\ DOMAIN databases' = (DOMAIN databases \ {old}) \cup {Live} /\ databases'[Live] = databases[old]
        /\ \A p \in DOMAIN databases \ {old} : p # Live /\ databases'[p] = databases[p]
    BY <1>3, <2>2, Moved
  <2> HIDE DEF old
  <2>7. CopyInv'
    BY <1>1, <1>3, <2>1, <2>2, <2>6 DEF CopyInv, Complete, AllBinary, KeysIn
  <2> QED
    BY <2>4, <2>5, <2>7
<1> QED
  BY <1>2, <1>3 DEF RollBack

LEMMA DiscardInv ==
  ASSUME DatabasesInv, DiscardBackup
  PROVE  DatabasesInv'
<1> USE DEF DatabasesInv
<1> DEFINE old == Backup(rebuild.n)
<1>1. /\ rebuild.step = "discard" /\ UNCHANGED <<running, entries, interrupted>> /\ Finish
      /\ databases' = DeleteEntry(databases, old)
  BY DEF DiscardBackup, At
<1>2. rebuild'.n = rebuild.n /\ rebuild'.step = "none"
  BY <1>1 DEF Finish, NoRebuild
<1>3. Complete(Live) /\ KeysIn(old) \subseteq KeysIn(Live) /\ AllBinary(Live) /\ old # Live
  BY <1>1, Places DEF CopyInv, PlacesInv
<1> HIDE DEF old
<1>4. DOMAIN databases' = DOMAIN databases \ {old} /\ \A p \in DOMAIN databases' : databases'[p] = databases[p]
  BY <1>1 DEF DeleteEntry
<1>5. PlacesInv'
  BY <1>1, <1>2, <1>3, <1>4 DEF PlacesInv, KeysIn, RebuildSteps
<1>6. HeldInv'
  BY <1>1, <1>3, <1>4 DEF HeldInv, KeysIn, Complete
<1>7. Complete(Live)'
  BY <1>1, <1>3, <1>4 DEF Complete, AllBinary, KeysIn
<1>8. CopyInv'
  BY <1>2, <1>7 DEF CopyInv
<1> QED
  BY <1>5, <1>6, <1>8

LEMMA ShapeStep == ShapeInv /\ [DiskNext]_diskVars => ShapeInv'
<1> SUFFICES ASSUME ShapeInv, [DiskNext]_diskVars PROVE ShapeInv'
  OBVIOUS
<1> DEFINE Shape == DOMAIN rebuild' = DOMAIN NoRebuild
<1>1. Finish => Shape
  BY DEF Finish, NoRebuild
<1>2. \A step : ToStep(step) => Shape
  BY DEF ToStep, ShapeInv
<1>3. UNCHANGED rebuild => Shape
  BY DEF ShapeInv
<1>4. BeginRebuild => Shape
  BY DEF BeginRebuild, NoRebuild
<1>5. \A k : CopyEntry(k) => Shape
  BY DEF CopyEntry, ShapeInv
<1>6. CompareCounts \/ SetAside \/ Install \/ VerifyInstalled => Finish \/ \E step : ToStep(step)
  BY Zenon DEF CompareCounts, SetAside, Install, VerifyInstalled
<1>7. CopyFails \/ RollBack \/ DiscardBackup \/ KillRebuild => Finish
  BY DEF CopyFails, RollBack, DiscardBackup, KillRebuild
<1>8. StartNode \/ StopNode \/ PruneDb \/ UNCHANGED diskVars \/ (\E k \in DbKeys : NodeWrites(k)) => UNCHANGED rebuild
  BY DEF StartNode, StopNode, PruneDb, diskVars, NodeWrites
<1> HIDE DEF Shape
<1>9. Shape
  BY <1>1, <1>2, <1>3, <1>4, <1>5, <1>6, <1>7, <1>8, Zenon DEF DiskNext
<1> QED
  BY <1>9 DEF Shape, ShapeInv

LEMMA RebuildStep == ShapeInv /\ DatabasesInv /\ [DiskNext]_diskVars => DatabasesInv'
<1> SUFFICES ASSUME ShapeInv, DatabasesInv, [DiskNext]_diskVars PROVE DatabasesInv'
  OBVIOUS
<1>1. CASE UNCHANGED diskVars
  BY <1>1 DEF DatabasesInv, PlacesInv, CopyInv, HeldInv, Complete, AllBinary, KeysIn, diskVars
<1>2. CASE CopyFails
  BY <1>2, RebuildEndsInv DEF CopyFails, At
<1>3. CASE VerifyInstalled
  <2>1. rebuild.step = "verify" /\ UNCHANGED <<databases, running, entries, interrupted>>
    BY <1>3 DEF VerifyInstalled, At
  <2>2. (Finish /\ rebuild.step = "verify") \/ (ToStep("discard") /\ UNCHANGED rebuilt)
    BY <1>3, <2>1 DEF VerifyInstalled
  <2> QED
    BY <2>1, <2>2, RebuildEndsInv, RebuildGoesOn
<1>4. CASE KillRebuild
  <2>1. /\ rebuild.step # "none" /\ UNCHANGED <<databases, running, entries, rebuilt>> /\ Finish
        /\ interrupted' = (interrupted \/ rebuild.step = "install" \/ rebuild.step = "roll back")
    BY <1>4 DEF KillRebuild, At
  <2>2. CASE interrupted \/ rebuild.step \in {"install", "roll back"}
    BY <2>1, <2>2, RebuildEndsInv
  <2>3. CASE ~interrupted /\ rebuild.step \notin {"install", "roll back"}
    BY <2>1, <2>3, RebuildEndsInv DEF DatabasesInv, PlacesInv, RebuildSteps
  <2> QED
    BY <2>2, <2>3
<1> QED
  BY <1>1, <1>2, <1>3, <1>4, StartStopInv, PruneInv, NodeWritesInv, CopyEntryInv, BeginInv, CompareInv, SetAsideInv,
     InstallInv, RollBackInv, DiscardInv DEF DiskNext

(* Every entry a node has written and no prune has deleted is on the disk, and *)
(* between commands in the configured database, unless a rebuild ended between *)
(* its renames: for any keys, and any number of rebuilds, failures and kills.  *)
THEOREM RebuildLosesNothing == DiskSpec => []NothingLost
<1>1. DatabasesInv => NothingLost
  BY DEF DatabasesInv, CopyInv, HeldInv, Complete, AllBinary, KeysIn, NothingLost, At
<1>2. DiskInit => ShapeInv
  BY DEF DiskInit, ShapeInv
<1> QED
  BY <1>1, <1>2, StartDisk, ShapeStep, RebuildStep, PTL DEF DiskSpec

-----------------------------------------------------------------------------
(* The index *)

IsFunction(f) == f = [x \in DOMAIN f |-> f[x]]

\* What an index entry under a key of each kind says.
Right(k, v) ==
  /\ k[1] = "h" => v \in DOMAIN IndexedBlocks /\ IndexedBlocks[v] = k[2]
  /\ k[1] = "n" => v = IndexedBlocks[k[2]]

\* What a call is about, and which keys are in the database by its step.
FitsCall(doing, present) ==
  LET subject == doing.ops[1]
      pairs == (DOMAIN Operations) \X UNION {Operations[o] : o \in DOMAIN Operations}
  IN  /\ doing.step \in {"hash", "number", "cache", "latest"} => subject \in DOMAIN IndexedBlocks
      /\ doing.step \in {"number", "cache", "latest"} => HashKey(IndexedBlocks[subject]) \in present
      /\ doing.step \in {"cache", "latest"} => NumberKey(subject) \in present
      /\ doing.step = "cache operation" => OpKey(subject[1]) \in present
      /\ doing.step = "batch" => doing.ops \in Seq(pairs)
      /\ doing.step = "keep hash" => Right(HashKey(doing.ops[1]), doing.ops[2])

\* A finished call has its keys in the database, or its file in the archive.
KnownBy(f, present, files_) ==
  \/ f[1] = "operation" /\ OpKey(f[2]) \in present
  \/ f[1] = "segment" /\ Entry(files_, SegmentFile(f[2])) = {"whole"}
  \/ /\ f[1] = "block" /\ f[2] \in DOMAIN IndexedBlocks /\ f[3] = IndexedBlocks[f[2]]
     /\ NumberKey(f[2]) \in present /\ HashKey(f[3]) \in present

CallsInv ==
  /\ DOMAIN indexing = Indexers
  /\ \A t \in Indexers : DOMAIN indexing[t] = {"step", "ops", "left"} /\ FitsCall(indexing[t], DOMAIN index)
RightInv == IsFunction(index) /\ \A k \in DOMAIN index : Right(k, index[k])
BlockCacheInv == \A n \in DOMAIN blockCache : Right(HashKey(n), blockCache[n])
FoundInv == \A f \in found : KnownBy(f, DOMAIN index, archive)

IndexInv == CallsInv /\ RightInv /\ BlockCacheInv /\ FoundInv

\* What r holds is in base, or one of values under one of keys.
FromOrIn(r, base, ks, values) ==
  \A k \in DOMAIN r : (k \in DOMAIN base /\ r[k] = base[k]) \/ (k \in ks /\ r[k] \in values)

\* A batch that puts entries has a key for each of them, and keeps the other keys and what they hold.
LEMMA OnlyPut ==
  ASSUME NEW base, IsFunction(base), NEW K, NEW W,
         NEW Ops, \A op \in Ops : op.put = TRUE /\ op.key \in K /\ op.value \in W, NEW ops \in Seq(Ops)
  PROVE  LET r == WriteBatch(base, ops)
         IN  /\ DOMAIN base \subseteq DOMAIN r /\ DOMAIN r \subseteq DOMAIN base \cup K
             /\ IsFunction(r) /\ FromOrIn(r, base, K, W)
             /\ \A i \in DOMAIN ops : ops[i].key \in DOMAIN r
<1> DEFINE X == W \cup {base[k] : k \in DOMAIN base}
           AllKept(d) == /\ DOMAIN base \subseteq DOMAIN d
                      /\ \A k \in DOMAIN d : (k \in DOMAIN base /\ d[k] = base[k]) \/ (k \in K /\ d[k] \in W)
           V == {d \in UNION {[D -> X] : D \in SUBSET (DOMAIN base \cup K)} : AllKept(d)}
           n == Len(ops)
<1>1. base \in V
  BY DOMAIN base \in SUBSET (DOMAIN base \cup K) DEF IsFunction
<1>2. ASSUME NEW d \in V, NEW op \in Ops PROVE /\ ApplyOp(d, op) \in V
                                              /\ DOMAIN ApplyOp(d, op) = DOMAIN d \cup {op.key}
  <2>1. PICK D \in SUBSET (DOMAIN base \cup K) : d \in [D -> X]
    OBVIOUS
  <2>2. ApplyOp(d, op) = [x \in D \cup {op.key} |-> IF x = op.key THEN op.value ELSE d[x]]
    BY <2>1 DEF ApplyOp, PutEntry
  <2>3. op.key \in K /\ op.value \in W /\ D \cup {op.key} \in SUBSET (DOMAIN base \cup K)
    BY <2>1
  <2>4. AllKept(d)
    OBVIOUS
  <2> DEFINE r == ApplyOp(d, op)
  <2>5. r \in [D \cup {op.key} -> X] /\ DOMAIN r = D \cup {op.key}
    BY <2>1, <2>2, <2>3
  <2>6. AllKept(r)
    BY <2>1, <2>2, <2>3, <2>4
  <2> HIDE DEF r, X, AllKept
  <2>7. r \in V
    BY <2>3, <2>5, <2>6
  <2> QED
    BY <2>1, <2>5, <2>7 DEF r
<1>3. \A d \in V : AllKept(d) /\ DOMAIN d \subseteq DOMAIN base \cup K /\ d = [k \in DOMAIN d |-> d[k]]
  OBVIOUS
<1>a. \A d \in V, op \in Ops : ApplyOp(d, op) \in V
  BY <1>2
<1> HIDE DEF V
<1>4. PICK db \in [0..n -> V] : /\ db[0] = base /\ db[n] = WriteBatch(base, ops)
                               /\ \A i \in 1..n : db[i] = ApplyOp(db[i - 1], ops[i])
  <2>1. \E db \in [0..Len(ops) -> V] :
           /\ db[0] = base /\ db[Len(ops)] = WriteBatch(base, ops)
           /\ \A i \in 1..Len(ops) : db[i] = ApplyOp(db[i - 1], ops[i])
    BY ONLY <1>1, <1>a, ops \in Seq(Ops), BatchSteps
  <2> QED
    BY <2>1
<1>5. n \in Nat /\ DOMAIN ops = 1..n /\ \A i \in 1..n : ops[i] \in Ops
  OBVIOUS
<1> HIDE DEF n, AllKept
<1> DEFINE A == {m \in Nat : m <= n => \A i \in 1..m : ops[i].key \in DOMAIN db[m]}
<1>6. 0 \in A
  OBVIOUS
<1>7. ASSUME NEW m \in Nat, m \in A PROVE m + 1 \in A
  <2> SUFFICES ASSUME m + 1 <= n PROVE \A i \in 1..(m + 1) : ops[i].key \in DOMAIN db[m + 1]
    OBVIOUS
  <2>1. m <= n /\ m + 1 \in 1..n /\ m \in 0..n /\ (m + 1) - 1 = m
    BY <1>5
  <2>2. db[m + 1] = ApplyOp(db[m], ops[m + 1])
    BY <1>4, <2>1
  <2>3. DOMAIN db[m + 1] = DOMAIN db[m] \cup {ops[m + 1].key}
    BY <1>2, <1>4, <1>5, <2>1, <2>2
  <2>4. \A i \in 1..m : ops[i].key \in DOMAIN db[m]
    BY <1>7, <2>1
  <2>5. \A i \in 1..(m + 1) : i \in 1..m \/ i = m + 1
    BY <1>5
  <2> QED
    BY <2>3, <2>4, <2>5
<1>8. n \in A
  <2> HIDE DEF A
  <2> QED
    BY <1>5, <1>6, <1>7, AllNumbers
<1>9. \A i \in 1..n : ops[i].key \in DOMAIN db[n]
  BY <1>5, <1>8
<1>10. WriteBatch(base, ops) \in V
  BY <1>4, <1>5
<1> QED
  BY <1>3, <1>4, <1>5, <1>9, <1>10 DEF AllKept, IsFunction, FromOrIn

-----------------------------------------------------------------------------
LEMMA FitsMore ==
  ASSUME NEW doing, NEW present, NEW more, present \subseteq more, FitsCall(doing, present)
  PROVE  FitsCall(doing, more)
  BY DEF FitsCall

LEMMA KnownMore ==
  ASSUME NEW f, NEW present, NEW more, present \subseteq more, NEW files_, KnownBy(f, present, files_)
  PROVE  KnownBy(f, more, files_)
  BY DEF KnownBy

\* A step of one call that takes no key from the database.
LEMMA CallGoesOn ==
  ASSUME CallsInv, NEW t \in Indexers, NEW doing, indexing' = [indexing EXCEPT ![t] = doing],
         DOMAIN doing = {"step", "ops", "left"}, DOMAIN index \subseteq DOMAIN index', FitsCall(doing, DOMAIN index')
  PROVE  CallsInv'
<1>1. DOMAIN indexing' = Indexers /\ indexing'[t] = doing /\ \A u \in Indexers \ {t} : indexing'[u] = indexing[u]
  BY DEF CallsInv
<1>2. ASSUME NEW u \in Indexers \ {t} PROVE FitsCall(indexing'[u], DOMAIN index')
  BY <1>1, FitsMore DEF CallsInv
<1> QED
  BY <1>1, <1>2 DEF CallsInv

LEMMA CallEnds ==
  ASSUME CallsInv, NEW t \in Indexers, EndCall(t), DOMAIN index \subseteq DOMAIN index'
  PROVE  CallsInv'
<1>1. indexing' = [indexing EXCEPT ![t] = IndexIdle]
  BY DEF EndCall
<1>2. DOMAIN IndexIdle = {"step", "ops", "left"} /\ FitsCall(IndexIdle, DOMAIN index')
  BY DEF IndexIdle, FitsCall
<1> QED
  BY <1>1, <1>2, CallGoesOn

LEMMA CallBegins ==
  ASSUME CallsInv, NEW t \in Indexers, NEW step, NEW ops, CallIndex(t, step, ops), UNCHANGED index,
         FitsCall([step |-> step, ops |-> ops, left |-> ops], DOMAIN index)
  PROVE  CallsInv'
<1> DEFINE doing == [step |-> step, ops |-> ops, left |-> ops]
<1>1. indexing' = [indexing EXCEPT ![t] = doing] /\ DOMAIN doing = {"step", "ops", "left"} /\ FitsCall(doing, DOMAIN index')
  BY DEF CallIndex
<1> HIDE DEF doing
<1> QED
  BY <1>1, CallGoesOn

LEMMA CallSteps ==
  ASSUME CallsInv, NEW t \in Indexers, NEW step, IndexStep(t, step), DOMAIN index \subseteq DOMAIN index',
         FitsCall([step |-> step, ops |-> indexing[t].ops, left |-> indexing[t].left], DOMAIN index')
  PROVE  CallsInv'
<1> DEFINE doing == [step |-> step, ops |-> indexing[t].ops, left |-> indexing[t].left]
<1>1. DOMAIN indexing = Indexers /\ DOMAIN indexing[t] = {"step", "ops", "left"}
  BY DEF CallsInv
<1>2. indexing' = [indexing EXCEPT ![t] = doing]
  <2> DEFINE moved == [indexing[t] EXCEPT !.step = step]
  <2>0. indexing' = [indexing EXCEPT ![t].step = step]
    BY DEF IndexStep
  <2>1. indexing' = [indexing EXCEPT ![t] = moved]
    BY <2>0
  <2>2. moved = doing
    BY <1>1
  <2> QED
    BY <2>1, <2>2
<1>3. DOMAIN doing = {"step", "ops", "left"} /\ FitsCall(doing, DOMAIN index')
  OBVIOUS
<1> HIDE DEF doing
<1> QED
  BY <1>2, <1>3, CallGoesOn

\* One right entry is put into the index.
LEMMA EntryPut ==
  ASSUME RightInv, FoundInv, NEW k, NEW v, Right(k, v), index' = PutEntry(index, k, v), UNCHANGED <<found, archive>>
  PROVE  RightInv' /\ FoundInv' /\ DOMAIN index \subseteq DOMAIN index' /\ k \in DOMAIN index'
<1>1. DOMAIN index' = DOMAIN index \cup {k} /\ \A x \in DOMAIN index' : index'[x] = IF x = k THEN v ELSE index[x]
  BY DEF PutEntry
<1>a. IsFunction(index')
  BY DEF PutEntry, IsFunction
<1>2. RightInv'
  BY <1>1, <1>a DEF RightInv
<1>3. ASSUME NEW f \in found' PROVE KnownBy(f, DOMAIN index', archive')
  <2>1. KnownBy(f, DOMAIN index, archive)
    BY DEF FoundInv
  <2> QED
    BY <1>1, <2>1, KnownMore
<1> QED
  BY <1>1, <1>2, <1>3 DEF FoundInv

LEMMA StartIndex == IndexInit => IndexInv
<1> SUFFICES ASSUME IndexInit PROVE IndexInv
  OBVIOUS
<1>1. DOMAIN index = {} /\ DOMAIN blockCache = {} /\ found = {} /\ IsFunction(index)
  BY DEF IndexInit, Empty, IsFunction
<1>2. DOMAIN IndexIdle = {"step", "ops", "left"} /\ FitsCall(IndexIdle, DOMAIN index)
  BY DEF IndexIdle, FitsCall
<1>3. CallsInv
  BY <1>2 DEF IndexInit, CallsInv
<1> QED
  BY <1>1, <1>3 DEF IndexInv, RightInv, BlockCacheInv, FoundInv

LEMMA IndexBlockInv ==
  ASSUME IndexInv, NEW t \in Indexers, IndexBlock(t)
  PROVE  IndexInv'
<1>1. PICK b \in DOMAIN IndexedBlocks : CallIndex(t, "hash", <<b>>)
  BY DEF IndexBlock
<1>2. UNCHANGED <<index, blockCache, found, archive>>
  BY DEF IndexBlock, caches
<1>3. FitsCall([step |-> "hash", ops |-> <<b>>, left |-> <<b>>], DOMAIN index)
  BY DEF FitsCall
<1>4. CallsInv'
  BY <1>1, <1>2, <1>3, CallBegins DEF IndexInv
<1> QED
  BY <1>2, <1>4 DEF IndexInv, RightInv, BlockCacheInv, FoundInv

LEMMA PutHashInv ==
  ASSUME IndexInv, NEW t \in Indexers, PutHash(t)
  PROVE  IndexInv'
<1> DEFINE b == Subject(t)
           k == HashKey(IndexedBlocks[b])
<1>1. /\ indexing[t].step = "hash" /\ index' = PutEntry(index, k, b) /\ IndexStep(t, "number")
      /\ UNCHANGED <<blockCache, found, archive>>
  BY DEF PutHash, IndexAt, caches
<1>2. b \in DOMAIN IndexedBlocks
  BY <1>1 DEF IndexInv, CallsInv, FitsCall, Subject
<1>3. Right(k, b)
  BY <1>2 DEF Right, HashKey
<1>4. RightInv' /\ FoundInv' /\ DOMAIN index \subseteq DOMAIN index' /\ k \in DOMAIN index'
  <2> HIDE DEF b, k
  <2> QED
    BY <1>1, <1>3, EntryPut DEF IndexInv
<1>5. FitsCall([step |-> "number", ops |-> indexing[t].ops, left |-> indexing[t].left], DOMAIN index')
  BY <1>2, <1>4 DEF FitsCall, Subject
<1>6. CallsInv'
  BY <1>1, <1>4, <1>5, CallSteps DEF IndexInv
<1> QED
  BY <1>1, <1>4, <1>6 DEF IndexInv, BlockCacheInv

LEMMA PutNumberInv ==
  ASSUME IndexInv, NEW t \in Indexers, PutNumber(t)
  PROVE  IndexInv'
<1> DEFINE b == Subject(t)
           k == NumberKey(b)
<1>1. /\ indexing[t].step = "number" /\ index' = PutEntry(index, k, IndexedBlocks[b]) /\ IndexStep(t, "cache")
      /\ UNCHANGED <<blockCache, found, archive>>
  BY DEF PutNumber, IndexAt, caches
<1>2. b \in DOMAIN IndexedBlocks /\ HashKey(IndexedBlocks[b]) \in DOMAIN index
  BY <1>1 DEF IndexInv, CallsInv, FitsCall, Subject
<1>3. Right(k, IndexedBlocks[b])
  BY <1>2 DEF Right, NumberKey
<1>4. RightInv' /\ FoundInv' /\ DOMAIN index \subseteq DOMAIN index' /\ k \in DOMAIN index'
  <2> HIDE DEF b, k
  <2> QED
    BY <1>1, <1>3, EntryPut DEF IndexInv
<1>5. FitsCall([step |-> "cache", ops |-> indexing[t].ops, left |-> indexing[t].left], DOMAIN index')
  BY <1>2, <1>4 DEF FitsCall, Subject
<1>6. CallsInv'
  BY <1>1, <1>4, <1>5, CallSteps DEF IndexInv
<1> QED
  BY <1>1, <1>4, <1>6 DEF IndexInv, BlockCacheInv

LEMMA CacheBlockInv ==
  ASSUME IndexInv, NEW t \in Indexers, CacheBlock(t)
  PROVE  IndexInv'
<1> DEFINE b == Subject(t)
<1>1. /\ indexing[t].step = "cache" /\ blockCache' = PutEntry(blockCache, IndexedBlocks[b], b)
      /\ IndexStep(t, "latest") /\ UNCHANGED <<index, found, archive>>
  BY DEF CacheBlock, IndexAt
<1>2. b \in DOMAIN IndexedBlocks /\ HashKey(IndexedBlocks[b]) \in DOMAIN index /\ NumberKey(b) \in DOMAIN index
  BY <1>1 DEF IndexInv, CallsInv, FitsCall, Subject
<1>3. BlockCacheInv'
  <2> HIDE DEF b
  <2>1. /\ DOMAIN blockCache' = DOMAIN blockCache \cup {IndexedBlocks[b]}
        /\ \A n \in DOMAIN blockCache' : blockCache'[n] = IF n = IndexedBlocks[b] THEN b ELSE blockCache[n]
    BY <1>1 DEF PutEntry
  <2> QED
    BY <1>2, <2>1 DEF IndexInv, BlockCacheInv, Right, HashKey
<1>4. FitsCall([step |-> "latest", ops |-> indexing[t].ops, left |-> indexing[t].left], DOMAIN index')
  BY <1>1, <1>2 DEF FitsCall, Subject
<1>5. CallsInv'
  BY <1>1, <1>4, CallSteps DEF IndexInv
<1> QED
  BY <1>1, <1>3, <1>5 DEF IndexInv, RightInv, FoundInv

LEMMA SetLatestInv ==
  ASSUME IndexInv, NEW t \in Indexers, SetLatestIndexed(t)
  PROVE  IndexInv'
<1> DEFINE b == Subject(t)
           new == <<"block", b, IndexedBlocks[b]>>
<1>1. /\ indexing[t].step = "latest" /\ found' = found \cup {new}
      /\ EndCall(t) /\ UNCHANGED <<index, blockCache, archive>>
  BY DEF SetLatestIndexed, IndexAt
<1>2. b \in DOMAIN IndexedBlocks /\ HashKey(IndexedBlocks[b]) \in DOMAIN index /\ NumberKey(b) \in DOMAIN index
  BY <1>1 DEF IndexInv, CallsInv, FitsCall, Subject
<1>3. KnownBy(new, DOMAIN index, archive)
  BY <1>2 DEF KnownBy
<1>4. CallsInv'
  BY <1>1, CallEnds DEF IndexInv
<1> HIDE DEF new
<1> QED
  BY <1>1, <1>3, <1>4 DEF IndexInv, RightInv, BlockCacheInv, FoundInv

LEMMA IndexOperationInv ==
  ASSUME IndexInv, NEW t \in Indexers, IndexOperation(t)
  PROVE  IndexInv'
<1>1. PICK o, e : CallIndex(t, "operation", <<<<o, e>>>>)
  BY DEF IndexOperation
<1>2. UNCHANGED <<index, blockCache, found, archive>>
  BY DEF IndexOperation, caches
<1>3. FitsCall([step |-> "operation", ops |-> <<<<o, e>>>>, left |-> <<<<o, e>>>>], DOMAIN index)
  BY DEF FitsCall
<1>4. CallsInv'
  BY <1>1, <1>2, <1>3, CallBegins DEF IndexInv
<1> QED
  BY <1>2, <1>4 DEF IndexInv, RightInv, BlockCacheInv, FoundInv

LEMMA PutOperationInv ==
  ASSUME IndexInv, NEW t \in Indexers, PutOperation(t)
  PROVE  IndexInv'
<1> DEFINE k == OpKey(Subject(t)[1])
           e == Subject(t)[2]
<1>1. /\ index' = PutEntry(index, k, e) /\ IndexStep(t, "cache operation")
      /\ UNCHANGED <<blockCache, found, archive>>
  BY DEF PutOperation, caches
<1>2. Right(k, e)
  BY DEF Right, OpKey
<1>3. RightInv' /\ FoundInv' /\ DOMAIN index \subseteq DOMAIN index' /\ k \in DOMAIN index'
  <2> HIDE DEF k, e
  <2> QED
    BY <1>1, <1>2, EntryPut DEF IndexInv
<1>4. FitsCall([step |-> "cache operation", ops |-> indexing[t].ops, left |-> indexing[t].left], DOMAIN index')
  BY <1>3 DEF FitsCall, Subject
<1>5. CallsInv'
  BY <1>1, <1>3, <1>4, CallSteps DEF IndexInv
<1> QED
  BY <1>1, <1>3, <1>5 DEF IndexInv, BlockCacheInv

LEMMA CacheOperationInv ==
  ASSUME IndexInv, NEW t \in Indexers, CacheOperation(t)
  PROVE  IndexInv'
<1> DEFINE new == <<"operation", Subject(t)[1], 0>>
<1>1. /\ indexing[t].step = "cache operation" /\ found' = found \cup {new}
      /\ EndCall(t) /\ UNCHANGED <<index, blockCache, archive>>
  BY DEF CacheOperation, IndexAt
<1>2. KnownBy(new, DOMAIN index, archive)
  BY <1>1 DEF KnownBy, IndexInv, CallsInv, FitsCall, Subject
<1>3. CallsInv'
  BY <1>1, CallEnds DEF IndexInv
<1> HIDE DEF new
<1> QED
  BY <1>1, <1>2, <1>3 DEF IndexInv, RightInv, BlockCacheInv, FoundInv

LEMMA IndexBatchInv ==
  ASSUME IndexInv, NEW t \in Indexers, IndexBatch(t)
  PROVE  IndexInv'
<1> DEFINE pairs == (DOMAIN Operations) \X UNION {Operations[o] : o \in DOMAIN Operations}
           Of(ops) == {<<o, ops[o]>> : o \in DOMAIN ops}
<1>1. PICK ops \in [DOMAIN Operations -> UNION {Operations[o] : o \in DOMAIN Operations}] :
        CallIndex(t, "batch", SetToSeq(Of(ops)))
  BY DEF IndexBatch
<1>2. UNCHANGED <<index, blockCache, found, archive>>
  BY DEF IndexBatch, caches
<1>3. SetToSeq(Of(ops)) \in Seq(pairs)
  <2>1. Of(ops) \subseteq pairs
    OBVIOUS
  <2>2. IsFiniteSet(Of(ops))
    <3> DEFINE f == [o \in DOMAIN Operations |-> <<o, ops[o]>>]
    <3>1. f \in Surjection(DOMAIN Operations, Of(ops))
      BY DEF Surjection
    <3> QED
      BY <3>1, IndexAssumption, FS_Surjection DEF ExistsSurjection
  <2> HIDE DEF Of, pairs
  <2>3. SetToSeq(Of(ops)) \in Seq(Of(ops))
    BY <2>2, AsSequence
  <2> QED
    BY <2>1, <2>3
<1>4. FitsCall([step |-> "batch", ops |-> SetToSeq(Of(ops)), left |-> SetToSeq(Of(ops))], DOMAIN index)
  <2> HIDE DEF Of
  <2> QED
    BY <1>3 DEF FitsCall
<1> HIDE DEF Of
<1>5. CallsInv'
  BY <1>1, <1>2, <1>4, CallBegins DEF IndexInv
<1> QED
  BY <1>2, <1>5 DEF IndexInv, RightInv, BlockCacheInv, FoundInv

LEMMA CacheBatchInv ==
  ASSUME IndexInv, NEW t \in Indexers, CacheBatch(t)
  PROVE  IndexInv'
<1> DEFINE doing == [indexing[t] EXCEPT !.left = Tail(indexing[t].left)]
<1>1. UNCHANGED <<index, blockCache, found, archive>> /\ indexing' = [indexing EXCEPT ![t] = doing]
  BY DEF CacheBatch
<1>2. /\ DOMAIN indexing[t] = {"step", "ops", "left"} /\ FitsCall(indexing[t], DOMAIN index)
  BY DEF IndexInv, CallsInv
<1>4. DOMAIN doing = {"step", "ops", "left"} /\ doing.step = indexing[t].step /\ doing.ops = indexing[t].ops
  BY <1>2
<1>5. FitsCall(doing, DOMAIN index')
  BY <1>1, <1>2, <1>4 DEF FitsCall
<1> HIDE DEF doing
<1>3. CallsInv'
  BY <1>1, <1>4, <1>5, CallGoesOn DEF IndexInv
<1> QED
  BY <1>1, <1>3 DEF IndexInv, RightInv, BlockCacheInv, FoundInv

LEMMA PutBatchInv ==
  ASSUME IndexInv, NEW t \in Indexers, PutBatch(t)
  PROVE  IndexInv'
<1> DEFINE pairs == (DOMAIN Operations) \X UNION {Operations[o] : o \in DOMAIN Operations}
           mine == indexing[t].ops
           PutOf(pair) == BatchPut(OpKey(pair[1]), pair[2])
           batch == [i \in DOMAIN mine |-> PutOf(mine[i])]
           Ops == {PutOf(pair) : pair \in pairs}
           K == {OpKey(pair[1]) : pair \in pairs}
           W == {pair[2] : pair \in pairs}
<1>1. /\ indexing[t].step = "batch" /\ index' = WriteBatch(index, batch) /\ EndCall(t)
      /\ found' = found \cup {<<"operation", op[1], 0>> : op \in Batched(t)}
      /\ UNCHANGED <<blockCache, archive>>
  BY DEF PutBatch, IndexAt, caches
<1>2. mine \in Seq(pairs)
  BY <1>1 DEF IndexInv, CallsInv, FitsCall
<1>3. batch \in Seq(Ops) /\ DOMAIN batch = DOMAIN mine
  <2>1. mine \in [1..Len(mine) -> pairs] /\ Len(mine) \in Nat
    BY <1>2
  <2> HIDE DEF pairs, PutOf, mine
  <2>2. batch \in [1..Len(mine) -> Ops] /\ DOMAIN batch = DOMAIN mine
    BY <2>1
  <2> QED
    BY <2>1, <2>2
<1>4. \A op \in Ops : op.put = TRUE /\ op.key \in K /\ op.value \in W
  BY DEF BatchPut
<1>5. \A i \in DOMAIN mine : batch[i].key = OpKey(mine[i][1])
  BY DEF BatchPut
<1>6. \A k \in K : \A v : Right(k, v)
  BY DEF Right, OpKey
<1> HIDE DEF Ops, K, W, batch, pairs
<1> DEFINE r == WriteBatch(index, batch)
<1>b. IsFunction(index)
  BY DEF IndexInv, RightInv
<1>7. /\ IsFunction(r) /\ FromOrIn(r, index, K, W)
      /\ DOMAIN index \subseteq DOMAIN r /\ DOMAIN r \subseteq DOMAIN index \cup K
      /\ \A i \in DOMAIN batch : batch[i].key \in DOMAIN r
  <2> HIDE DEF mine, PutOf
  <2>0. batch \in Seq(Ops)
    BY <1>3
  <2>1. IsFunction(r)
    BY <1>b, <2>0, <1>4, OnlyPut
  <2>2. DOMAIN index \subseteq DOMAIN r /\ DOMAIN r \subseteq DOMAIN index \cup K
    BY <1>b, <2>0, <1>4, OnlyPut
  <2>3. \A i \in DOMAIN batch : batch[i].key \in DOMAIN r
    BY <1>b, <2>0, <1>4, OnlyPut
  <2>4. FromOrIn(r, index, K, W)
    BY <1>b, <2>0, <1>4, OnlyPut
  <2> HIDE DEF r
  <2> QED
    BY <2>1, <2>2, <2>3, <2>4
<1> HIDE DEF r
<1>8. index' = r
  BY <1>1 DEF r
<1>9. CallsInv'
  BY <1>1, <1>7, <1>8, CallEnds DEF IndexInv
<1>10. RightInv'
  BY <1>6, <1>7, <1>8 DEF IndexInv, RightInv, FromOrIn
<1>11. ASSUME NEW f \in found' PROVE KnownBy(f, DOMAIN index', archive')
  <2>1. CASE f \in found
    <3>1. KnownBy(f, DOMAIN index, archive)
      BY <2>1 DEF IndexInv, FoundInv
    <3> QED
      BY <1>1, <1>7, <1>8, <3>1, KnownMore
  <2>2. CASE f \notin found
    <3>1. PICK i \in DOMAIN mine : f = <<"operation", mine[i][1], 0>>
      BY <1>1, <2>2 DEF Batched
    <3>2. OpKey(mine[i][1]) \in DOMAIN index'
      BY <1>3, <1>5, <1>7, <1>8
    <3> QED
      BY <3>1, <3>2 DEF KnownBy
  <2> QED
    BY <2>1, <2>2
<1> QED
  BY <1>1, <1>9, <1>10, <1>11 DEF IndexInv, BlockCacheInv, FoundInv

LEMMA ReadingInv ==
  ASSUME IndexInv, NEW t \in Indexers, ReadHash(t) \/ ReadOperation(t)
  PROVE  IndexInv'
<1>1. PICK step, k, x :
        /\ step \in {"keep hash", "keep operation"} /\ ReadEntry(t, step, k, x)
        /\ step = "keep hash" => k \notin DOMAIN blockCache /\ x \in GetBlockHash(k)
  <2>1. CASE ReadHash(t)
    <3>1. PICK n \in Range(IndexedBlocks) \ DOMAIN blockCache : \E b \in GetBlockHash(n) : ReadEntry(t, "keep hash", n, b)
      BY <2>1 DEF ReadHash
    <3>2. PICK b \in GetBlockHash(n) : ReadEntry(t, "keep hash", n, b)
      BY <3>1
    <3> WITNESS "keep hash", n, b
    <3> QED
      BY <3>2
  <2>2. CASE ReadOperation(t)
    <3>1. PICK o \in DOMAIN Operations : \E e \in GetOperation(o) : ReadEntry(t, "keep operation", o, e)
      BY <2>2 DEF ReadOperation
    <3>2. PICK e \in GetOperation(o) : ReadEntry(t, "keep operation", o, e)
      BY <3>1
    <3> WITNESS "keep operation", o, e
    <3> QED
      BY <3>2
  <2> QED
    BY <2>1, <2>2
<1> DEFINE doing == [step |-> step, ops |-> <<k, x>>, left |-> << >>]
<1>2. indexing' = [indexing EXCEPT ![t] = doing] /\ UNCHANGED <<index, blockCache, found, archive>>
  BY <1>1 DEF ReadEntry, IndexIdle, caches
<1>3. ASSUME step = "keep hash" PROVE Right(HashKey(k), x)
  <2>1. HashKey(k) \in DOMAIN index /\ x = index[HashKey(k)]
    BY <1>1, <1>3 DEF GetBlockHash, Entry
  <2> QED
    BY <2>1 DEF IndexInv, RightInv
<1>4. DOMAIN doing = {"step", "ops", "left"} /\ FitsCall(doing, DOMAIN index')
  BY <1>1, <1>3 DEF FitsCall
<1> HIDE DEF doing
<1>5. CallsInv'
  BY <1>2, <1>4, CallGoesOn DEF IndexInv
<1> QED
  BY <1>2, <1>5 DEF IndexInv, RightInv, BlockCacheInv, FoundInv

\* However much later, what was read is right for its height.
LEMMA KeepInv ==
  ASSUME IndexInv, NEW t \in Indexers, KeepHash(t) \/ KeepOperation(t)
  PROVE  IndexInv'
<1>1. EndCall(t) /\ UNCHANGED <<index, found, archive>>
  BY DEF KeepHash, KeepOperation
<1>2. CallsInv'
  BY <1>1, CallEnds DEF IndexInv
<1>3. BlockCacheInv'
  <2>1. CASE KeepOperation(t)
    BY <2>1 DEF KeepOperation, IndexInv, BlockCacheInv
  <2>2. CASE KeepHash(t)
    <3>1. PICK n, b : n = indexing[t].ops[1] /\ b = indexing[t].ops[2]
      OBVIOUS
    <3>2. blockCache' = PutEntry(blockCache, n, b) /\ Right(HashKey(n), b)
      BY <2>2, <3>1 DEF KeepHash, IndexAt, IndexInv, CallsInv, FitsCall
    <3>3. /\ DOMAIN blockCache' = DOMAIN blockCache \cup {n}
          /\ \A m \in DOMAIN blockCache' : blockCache'[m] = IF m = n THEN b ELSE blockCache[m]
      BY <3>2 DEF PutEntry
    <3> QED
      BY <3>2, <3>3 DEF IndexInv, BlockCacheInv
  <2> QED
    BY <2>1, <2>2
<1> QED
  BY <1>1, <1>2, <1>3 DEF IndexInv, RightInv, FoundInv

LEMMA IndexFailsInv ==
  ASSUME IndexInv, NEW t \in Indexers, IndexFails(t)
  PROVE  IndexInv'
<1>1. EndCall(t) /\ UNCHANGED <<index, blockCache, found, archive>>
  BY DEF IndexFails, caches
<1>2. CallsInv'
  BY <1>1, CallEnds DEF IndexInv
<1> QED
  BY <1>1, <1>2 DEF IndexInv, RightInv, BlockCacheInv, FoundInv

\* What is written of the archive, and what a finished call has found there.
LEMMA SegmentNames == \A s, r : TemporaryFile(s) # SegmentFile(r) /\ (SegmentFile(s) = SegmentFile(r) => s = r)
<1>1. "zst" # "zst.tmp"
  OBVIOUS
<1> QED
  BY <1>1 DEF TemporaryFile, SegmentFile

LEMMA WriteSegmentInv ==
  ASSUME IndexInv, NEW t \in Indexers, WriteSegment(t)
  PROVE  IndexInv'
<1>1. PICK s \in Segments : CallIndex(t, "segment", <<s>>) /\ archive' = PutEntry(archive, TemporaryFile(s), "torn")
  BY DEF WriteSegment
<1>2. UNCHANGED <<index, blockCache, found>>
  BY DEF WriteSegment, caches
<1>3. FitsCall([step |-> "segment", ops |-> <<s>>, left |-> <<s>>], DOMAIN index)
  BY DEF FitsCall
<1>4. CallsInv'
  BY <1>1, <1>2, <1>3, CallBegins DEF IndexInv
<1>5. \A r : Entry(archive', SegmentFile(r)) = Entry(archive, SegmentFile(r))
  BY <1>1, SegmentNames DEF PutEntry, Entry
<1>6. ASSUME NEW f \in found PROVE KnownBy(f, DOMAIN index', archive')
  <2>1. KnownBy(f, DOMAIN index, archive)
    BY DEF IndexInv, FoundInv
  <2> QED
    BY <1>2, <1>5, <2>1 DEF KnownBy
<1> QED
  BY <1>2, <1>4, <1>6 DEF IndexInv, RightInv, BlockCacheInv, FoundInv

LEMMA RenameSegmentInv ==
  ASSUME IndexInv, NEW t \in Indexers, RenameSegment(t)
  PROVE  IndexInv'
<1> DEFINE s == Subject(t)
           new == <<"segment", s, 0>>
<1>1. /\ archive' = PutEntry(DeleteEntry(archive, TemporaryFile(s)), SegmentFile(s), "whole")
      /\ found' = found \cup {new} /\ EndCall(t) /\ UNCHANGED <<index, blockCache>>
  BY DEF RenameSegment, caches
<1> HIDE DEF s
<1>2. CallsInv'
  BY <1>1, CallEnds DEF IndexInv
<1>3. Entry(archive', SegmentFile(s)) = {"whole"}
  BY <1>1 DEF PutEntry, DeleteEntry, Entry
<1>4. \A r : r # s => Entry(archive', SegmentFile(r)) = Entry(archive, SegmentFile(r))
  BY <1>1, SegmentNames DEF PutEntry, DeleteEntry, Entry
<1>5. KnownBy(new, DOMAIN index', archive')
  BY <1>3 DEF KnownBy
<1> HIDE DEF new
<1>6. ASSUME NEW f \in found PROVE KnownBy(f, DOMAIN index', archive')
  <2>1. KnownBy(f, DOMAIN index, archive)
    BY DEF IndexInv, FoundInv
  <2> QED
    BY <1>1, <1>3, <1>4, <2>1 DEF KnownBy
<1> QED
  BY <1>1, <1>2, <1>5, <1>6 DEF IndexInv, RightInv, BlockCacheInv, FoundInv

LEMMA KillIndexInv ==
  ASSUME IndexInv, KillIndex
  PROVE  IndexInv'
<1>1. /\ indexing' = [t \in Indexers |-> IndexIdle] /\ DOMAIN blockCache' = {}
      /\ UNCHANGED <<index, found, archive>>
  BY DEF KillIndex, Empty
<1>2. DOMAIN IndexIdle = {"step", "ops", "left"} /\ FitsCall(IndexIdle, DOMAIN index)
  BY DEF IndexIdle, FitsCall
<1>3. CallsInv'
  BY <1>1, <1>2 DEF CallsInv
<1> QED
  BY <1>1, <1>3 DEF IndexInv, RightInv, BlockCacheInv, FoundInv

LEMMA IndexNextInv == IndexInv /\ [IndexNext]_indexVars => IndexInv'
<1> SUFFICES ASSUME IndexInv, [IndexNext]_indexVars PROVE IndexInv'
  OBVIOUS
<1>1. CASE UNCHANGED indexVars
  BY <1>1 DEF indexVars, IndexInv, CallsInv, RightInv, BlockCacheInv, FoundInv
<1>2. CASE \E t \in Indexers : IndexBlock(t) \/ PutHash(t) \/ PutNumber(t) \/ CacheBlock(t) \/ SetLatestIndexed(t)
  BY <1>2, IndexBlockInv, PutHashInv, PutNumberInv, CacheBlockInv, SetLatestInv
<1>3. CASE \E t \in Indexers : IndexOperation(t) \/ PutOperation(t) \/ CacheOperation(t)
  BY <1>3, IndexOperationInv, PutOperationInv, CacheOperationInv
<1>4. CASE \E t \in Indexers : IndexBatch(t) \/ CacheBatch(t) \/ PutBatch(t)
  BY <1>4, IndexBatchInv, CacheBatchInv, PutBatchInv
<1>5. CASE \E t \in Indexers : WriteSegment(t) \/ RenameSegment(t)
  BY <1>5, WriteSegmentInv, RenameSegmentInv
<1>6. CASE \E t \in Indexers : ReadHash(t) \/ ReadOperation(t) \/ KeepHash(t) \/ KeepOperation(t) \/ IndexFails(t)
  BY <1>6, ReadingInv, KeepInv, IndexFailsInv
<1>7. CASE KillIndex
  BY <1>7, KillIndexInv
<1> QED
  BY <1>1, <1>2, <1>3, <1>4, <1>5, <1>6, <1>7 DEF IndexNext

(* What a call of the index or the archive has answered Ok for is found     *)
(* ever after: for any threads, blocks, operations and segments, and any    *)
(* number of calls, lookups and restarts.                                   *)
THEOREM IndexedIsFound == IndexSpec => []FoundIsFound
<1>1. IndexInv => FoundIsFound
  <2> SUFFICES ASSUME IndexInv, NEW f \in found
               PROVE  \/ f[1] = "operation" /\ GetOperation(f[2]) # {}
                      \/ f[1] = "segment" /\ Entry(archive, SegmentFile(f[2])) = {"whole"}
                      \/ /\ f[1] = "block" /\ GetBlockNumber(f[2]) = {f[3]}
                         /\ \E b \in GetBlockHash(f[3]) : IndexedBlocks[b] = f[3]
    BY DEF FoundIsFound
  <2>1. KnownBy(f, DOMAIN index, archive)
    BY DEF IndexInv, FoundInv
  <2>2. CASE f[1] = "operation" /\ OpKey(f[2]) \in DOMAIN index
    BY <2>2 DEF GetOperation, Entry
  <2>3. CASE /\ f[1] = "block" /\ f[2] \in DOMAIN IndexedBlocks /\ f[3] = IndexedBlocks[f[2]]
             /\ NumberKey(f[2]) \in DOMAIN index /\ HashKey(f[3]) \in DOMAIN index
    <3>1. index[NumberKey(f[2])] = f[3]
      BY <2>3 DEF IndexInv, RightInv, Right, NumberKey
    <3>2. GetBlockNumber(f[2]) = {f[3]}
      BY <2>3, <3>1 DEF GetBlockNumber, Entry
    <3>3. Right(HashKey(f[3]), index[HashKey(f[3])])
      BY <2>3 DEF IndexInv, RightInv
    <3>4. f[3] \in DOMAIN blockCache => Right(HashKey(f[3]), blockCache[f[3]])
      BY DEF IndexInv, BlockCacheInv
    <3>5. \E b \in GetBlockHash(f[3]) : IndexedBlocks[b] = f[3]
      BY <2>3, <3>3, <3>4 DEF GetBlockHash, Entry, Right, HashKey
    <3> QED
      BY <2>3, <3>2, <3>5
  <2> QED
    BY <2>1, <2>2, <2>3 DEF KnownBy
<1> QED
  BY <1>1, StartIndex, IndexNextInv, PTL DEF IndexSpec
=============================================================================
