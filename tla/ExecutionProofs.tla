-------------------------- MODULE ExecutionProofs --------------------------
(***************************************************************************)
(* What holds of every instance of MemoryStore: any outputs, transactions, *)
(* runs and executors; and of every flush of the batch runner on it: any   *)
(* queue and batch size.                                                   *)
(***************************************************************************)
EXTENDS BatchRunner, FoldFacts

Inv == TypeOK /\ IInv

LEMMA SeqItem == ASSUME NEW S, NEW list \in Seq(S), NEW i \in DOMAIN list PROVE list[i] \in S
  OBVIOUS

LEMMA InitInv == Init => Inv
<1> SUFFICES ASSUME Init PROVE Inv
  OBVIOUS
<1> USE RunAssumption, GenesisAssumption DEF Init
<1>1. TypeOK
  <2>1. \A obj \in DOMAIN latest : latest[obj] \in DOMAIN outputs
    BY DEF Newest
  <2>2. DOMAIN latest \subseteq Objects
    BY DEF GenesisObjects
  <2>3. \A e \in Executors : \A k \in DOMAIN registry[e] : registry[e][k] \in Nat
    OBVIOUS
  <2> QED
    BY <2>1, <2>2, <2>3 DEF TypeOK, StoreTypeOK, RunTypeOK, NonceTypeOK, TraceTypeOK, Phases, None
<1>2. PosInv
  BY DEF PosInv
<1>3. SnapInv
  BY DEF SnapInv, Resolved
<1>4. SpendInv
  BY DEF SpendInv
<1>5. MadeInv
  BY DEF MadeInv
<1>6. NonceInv
  BY DEF NonceInv, None
<1> QED
  BY <1>1, <1>2, <1>3, <1>4, <1>5, <1>6 DEF Inv, IInv

-----------------------------------------------------------------------------
(* The steps of one run, one lemma each.  A step that leaves the store alone *)
(* can only disturb what is said of the run's own pc, pos and snap.          *)

\* A run's control is the only thing that changed: what does not speak of it.
LEMMA ControlOnly ==
  ASSUME Inv, NEW r \in Runs, UNCHANGED <<storeVars, traceVars>>,
         pc' = [pc EXCEPT ![r] = pc'[r]], pc' \in [Runs -> Phases],
         pos' = [pos EXCEPT ![r] = pos'[r]], pos' \in [Runs -> Nat \ {0}],
         pc[r] \notin {"spend", "insert", "accepted"},
         pc'[r] \in {"spend", "insert", "accepted"} => pos'[r] = 1,
         pc'[r] \in {"insert", "accepted"} => TxOf[r].inputs = << >>,
         pc'[r] = "accepted" => TxOf[r].proposals = << >>
  PROVE  StoreTypeOK' /\ TraceTypeOK' /\ SpendInv' /\ MadeInv'
<1> USE DEF Inv, IInv, TypeOK, storeVars, traceVars
<1>1. ASSUME NEW s \in Runs, s # r PROVE pc'[s] = pc[s] /\ pos'[s] = pos[s]
  BY <1>1 DEF RunTypeOK
<1>2. StoreTypeOK' /\ TraceTypeOK'
  BY DEF StoreTypeOK, TraceTypeOK
<1>3. SpendInv'
  BY <1>1 DEF SpendInv
<1>4. MadeInv'
  BY <1>1 DEF MadeInv, Stored
<1> QED
  BY <1>2, <1>3, <1>4

LEMMA BeginInv == ASSUME Inv, NEW r \in Runs, Begin(r) PROVE Inv'
<1> DEFINE tx == TxOf[r]
           next == IF Admissible(tx) THEN AfterBegin(tx) ELSE "rejected"
<1> USE RunAssumption DEF Inv, IInv, TypeOK
<1>1. /\ next \in {"inputs", "reads", "check", "rejected"}
      /\ next = "inputs" => tx.inputs # << >>
      /\ next \in {"reads", "check"} => tx.inputs = << >>
      /\ next = "reads" => tx.reads # << >>
  BY DEF AfterBegin, AfterInputs
<1>2. /\ pc[r] = "idle"
      /\ pc' = [pc EXCEPT ![r] = next] /\ pos' = [pos EXCEPT ![r] = 1]
      /\ UNCHANGED <<storeVars, snap, nonceVars, traceVars>>
  BY DEF Begin, GoTo
<1> HIDE DEF next
<1>3. RunTypeOK'
  BY <1>1, <1>2 DEF RunTypeOK, Phases
<1>4. PosInv'
  BY <1>1, <1>2 DEF RunTypeOK, PosInv
<1>5. SnapInv'
  BY <1>1, <1>2 DEF RunTypeOK, SnapInv, Resolved, storeVars
<1>6. NonceTypeOK' /\ NonceInv'
  BY <1>1, <1>2 DEF RunTypeOK, NonceTypeOK, NonceInv, nonceVars
<1>7. StoreTypeOK' /\ TraceTypeOK' /\ SpendInv' /\ MadeInv'
  BY <1>1, <1>2, <1>3, ControlOnly DEF RunTypeOK
<1> QED
  BY <1>3, <1>4, <1>5, <1>6, <1>7

\* How pc and pos of a run move when an item of its list is done or refused.
LEMMA Moved ==
  ASSUME RunTypeOK, NEW r \in Runs, NEW list, NEW phase \in Phases,
         Len(list) \in Nat, pos[r] \in 1..Len(list),
         Advance(r, list, phase) \/ Reject(r)
  PROVE  /\ pc' = [pc EXCEPT ![r] = pc'[r]] /\ pc' \in [Runs -> Phases]
         /\ pos' = [pos EXCEPT ![r] = pos'[r]] /\ pos' \in [Runs -> Nat \ {0}]
         /\ \/ pos[r] < Len(list) /\ pc'[r] = pc[r] /\ pos'[r] = pos[r] + 1
            \/ pos[r] = Len(list) /\ pc'[r] = phase /\ pos'[r] = 1
            \/ Reject(r) /\ pc'[r] = "rejected" /\ pos'[r] = 1
<1> USE DEF RunTypeOK, GoTo
<1>1. CASE Reject(r)
  BY <1>1 DEF Reject, Phases
<1>2. CASE Advance(r, list, phase) /\ pos[r] < Len(list)
  <2>1. pc' = pc /\ pos' = [pos EXCEPT ![r] = pos[r] + 1]
    BY <1>2 DEF Advance
  <2>2. pc' = [pc EXCEPT ![r] = pc'[r]] /\ pc' \in [Runs -> Phases] /\ pc'[r] = pc[r]
    BY <2>1
  <2>3. /\ pos' = [pos EXCEPT ![r] = pos'[r]] /\ pos' \in [Runs -> Nat \ {0}]
        /\ pos'[r] = pos[r] + 1
    BY <2>1
  <2> QED
    BY <1>2, <2>2, <2>3
<1>3. CASE Advance(r, list, phase) /\ ~(pos[r] < Len(list))
  <2>1. pc' = [pc EXCEPT ![r] = phase] /\ pos' = [pos EXCEPT ![r] = 1]
    BY <1>3 DEF Advance
  <2>2. pc' = [pc EXCEPT ![r] = pc'[r]] /\ pc' \in [Runs -> Phases] /\ pc'[r] = phase
    BY <2>1
  <2>3. pos' = [pos EXCEPT ![r] = pos'[r]] /\ pos' \in [Runs -> Nat \ {0}] /\ pos'[r] = 1
    BY <2>1
  <2>4. pos[r] = Len(list)
    BY <1>3
  <2> QED
    BY <2>2, <2>3, <2>4
<1> QED
  BY <1>1, <1>2, <1>3

LEMMA ReadInputInv == ASSUME Inv, NEW r \in Runs, ReadInput(r) PROVE Inv'
<1> DEFINE tx == TxOf[r]
           next == AfterInputs(tx)
           o == tx.inputs[pos[r]]
<1> USE DEF Inv, IInv, TypeOK
<1>1. /\ next \in {"reads", "check"} /\ next \in Phases
      /\ next = "reads" => tx.reads # << >>
      /\ tx.inputs \in Seq(OutputIds) /\ Len(tx.inputs) \in Nat
      /\ tx.reads \in Seq([id : OutputIds, domain : Domains, version : Nat])
  <2>1. tx.inputs \in Seq(OutputIds) /\ tx.reads \in Seq([id : OutputIds, domain : Domains, version : Nat])
    BY RunAssumption
  <2>2. Len(tx.inputs) \in Nat
    BY <2>1
  <2> QED
    BY <2>1, <2>2 DEF AfterInputs, Phases
<1>2. pc[r] = "inputs" /\ pos[r] \in 1..Len(tx.inputs)
  BY <1>1 DEF RunTypeOK, PosInv, ReadInput
<1>3. \/ /\ o \in DOMAIN outputs /\ snap' = [snap EXCEPT ![r] = Append(@, outputs[o])]
         /\ Advance(r, tx.inputs, next)
      \/ Reject(r) /\ snap' = snap
  BY DEF ReadInput
<1>4. UNCHANGED <<storeVars, nonceVars, traceVars>>
  BY DEF ReadInput
<1> HIDE DEF next
<1>5. /\ pc' = [pc EXCEPT ![r] = pc'[r]] /\ pc' \in [Runs -> Phases]
      /\ pos' = [pos EXCEPT ![r] = pos'[r]] /\ pos' \in [Runs -> Nat \ {0}]
      /\ \/ pos[r] < Len(tx.inputs) /\ pc'[r] = "inputs" /\ pos'[r] = pos[r] + 1
         \/ pos[r] = Len(tx.inputs) /\ pc'[r] = next /\ pos'[r] = 1
         \/ Reject(r) /\ pc'[r] = "rejected" /\ pos'[r] = 1
  BY <1>1, <1>2, <1>3, Moved
<1>6. ASSUME NEW s \in Runs, s # r PROVE snap'[s] = snap[s] /\ pc'[s] = pc[s] /\ pos'[s] = pos[s]
  BY <1>3, <1>5, <1>6 DEF RunTypeOK
<1>7. RunTypeOK'
  <2>1. snap' \in [Runs -> Seq(Bodies)]
    <3>1. ASSUME o \in DOMAIN outputs PROVE Append(snap[r], outputs[o]) \in Seq(Bodies)
      BY <3>1 DEF RunTypeOK, StoreTypeOK
    <3> QED
      BY <1>3, <3>1 DEF RunTypeOK
  <2> QED
    BY <2>1, <1>5 DEF RunTypeOK
<1>8. PosInv'
  BY <1>1, <1>2, <1>5, <1>6 DEF PosInv
<1>9. SnapInv'
  <2>1. CASE Reject(r) /\ snap' = snap
    <3>1. pc'[r] = "rejected"
      BY <2>1 DEF Reject, GoTo, RunTypeOK
    <3> QED
      BY <1>2, <1>4, <1>6, <2>1, <3>1 DEF SnapInv, Resolved, storeVars
  <2>2. CASE /\ o \in DOMAIN outputs /\ snap' = [snap EXCEPT ![r] = Append(@, outputs[o])]
             /\ Advance(r, tx.inputs, next)
    <3>1. /\ snap'[r] = Append(snap[r], outputs[o])
          /\ snap[r] \in Seq(Bodies) /\ Len(snap[r]) = pos[r] - 1
      BY <1>2, <2>2 DEF RunTypeOK, SnapInv, Resolved
    <3>2. Len(snap'[r]) = pos[r] /\ DOMAIN snap'[r] = 1..pos[r]
      BY <3>1, <1>2
    <3>3. ASSUME NEW i \in 1..pos[r]
          PROVE  tx.inputs[i] \in DOMAIN outputs /\ snap'[r][i] = outputs[tx.inputs[i]]
      <4>1. CASE i = pos[r]
        BY <3>1, <2>2, <1>2, <4>1
      <4>2. CASE i # pos[r]
        <5>1. i \in DOMAIN snap[r] /\ snap'[r][i] = snap[r][i]
          BY <3>1, <1>2, <4>2
        <5> QED
          BY <5>1 DEF SnapInv, Resolved
      <4> QED
        BY <4>1, <4>2
    <3>4. \/ pc'[r] = "inputs" /\ pos'[r] = pos[r] + 1
          \/ pc'[r] \in {"reads", "check"} /\ pos[r] = Len(tx.inputs)
          \/ pc'[r] = "rejected"
      BY <1>1, <1>5
    <3>5. Resolved(r)'
      BY <1>1, <1>2, <1>4, <3>2, <3>3, <3>4 DEF Resolved, storeVars
    <3>6. ASSUME NEW s \in Runs, s # r PROVE Resolved(s)'
      BY <1>4, <1>6, <3>6 DEF SnapInv, Resolved, storeVars
    <3> QED
      BY <3>5, <3>6 DEF SnapInv
  <2> QED
    BY <1>3, <2>1, <2>2
<1>10. NonceTypeOK' /\ NonceInv'
  BY <1>1, <1>2, <1>4, <1>5, <1>6 DEF NonceTypeOK, NonceInv, nonceVars
<1>11. StoreTypeOK' /\ TraceTypeOK' /\ SpendInv' /\ MadeInv'
  BY <1>1, <1>2, <1>4, <1>5, ControlOnly
<1> QED
  BY <1>7, <1>8, <1>9, <1>10, <1>11

LEMMA ReadReferenceInv == ASSUME Inv, NEW r \in Runs, ReadReference(r) PROVE Inv'
<1> DEFINE tx == TxOf[r]
<1> USE DEF Inv, IInv, TypeOK
<1>1. /\ tx.reads \in Seq([id : OutputIds, domain : Domains, version : Nat])
      /\ Len(tx.reads) \in Nat
  <2>1. tx.reads \in Seq([id : OutputIds, domain : Domains, version : Nat])
    BY RunAssumption
  <2> QED
    BY <2>1
<1>2. pc[r] = "reads" /\ pos[r] \in 1..Len(tx.reads)
  BY <1>1 DEF RunTypeOK, PosInv, ReadReference
<1>3. Advance(r, tx.reads, "check") \/ Reject(r)
  BY DEF ReadReference
<1>4. UNCHANGED <<storeVars, snap, nonceVars, traceVars>>
  BY DEF ReadReference
<1>5. /\ pc' = [pc EXCEPT ![r] = pc'[r]] /\ pc' \in [Runs -> Phases]
      /\ pos' = [pos EXCEPT ![r] = pos'[r]] /\ pos' \in [Runs -> Nat \ {0}]
      /\ \/ pos[r] < Len(tx.reads) /\ pc'[r] = "reads" /\ pos'[r] = pos[r] + 1
         \/ pos[r] = Len(tx.reads) /\ pc'[r] = "check" /\ pos'[r] = 1
         \/ pc'[r] = "rejected" /\ pos'[r] = 1
  <2>1. "check" \in Phases
    BY DEF Phases
  <2> QED
    BY <1>1, <1>2, <1>3, <2>1, Moved
<1>6. ASSUME NEW s \in Runs, s # r PROVE pc'[s] = pc[s] /\ pos'[s] = pos[s]
  BY <1>5, <1>6 DEF RunTypeOK
<1>7. RunTypeOK'
  BY <1>4, <1>5 DEF RunTypeOK
<1>8. PosInv'
  BY <1>1, <1>2, <1>5, <1>6 DEF PosInv
<1>9. SnapInv'
  <2>1. ASSUME NEW s \in Runs PROVE Resolved(s)'
    BY <1>2, <1>4, <1>5, <1>6 DEF SnapInv, Resolved, storeVars
  <2> QED
    BY <2>1 DEF SnapInv
<1>10. NonceTypeOK' /\ NonceInv'
  BY <1>2, <1>4, <1>5, <1>6 DEF NonceTypeOK, NonceInv, nonceVars
<1>11. StoreTypeOK' /\ TraceTypeOK' /\ SpendInv' /\ MadeInv'
  BY <1>2, <1>4, <1>5, ControlOnly
<1> QED
  BY <1>7, <1>8, <1>9, <1>10, <1>11

LEMMA CheckResolvedInv == ASSUME Inv, NEW r \in Runs, CheckResolved(r) PROVE Inv'
<1> DEFINE tx == TxOf[r]
           next == IF ~ValidResolved(tx, snap[r]) THEN "rejected"
                   ELSE IF tx.nonce = None THEN AfterNonce(tx) ELSE "clock"
<1> USE DEF Inv, IInv, TypeOK
<1>1. /\ next \in {"rejected", "clock", "spend", "insert", "accepted"}
      /\ next # "rejected" => ValidResolved(tx, snap[r])
      /\ next = "spend" => tx.inputs # << >>
      /\ next = "insert" => tx.inputs = << >> /\ tx.proposals # << >>
      /\ next = "accepted" => tx.inputs = << >> /\ tx.proposals = << >>
  BY DEF AfterNonce, AfterSpend
<1>2. /\ pc[r] = "check" /\ UNCHANGED <<storeVars, snap, nonceVars, traceVars>>
      /\ pc' = [pc EXCEPT ![r] = next] /\ pos' = [pos EXCEPT ![r] = 1]
  BY DEF CheckResolved, GoTo
<1> HIDE DEF next
<1>3. /\ pc'[r] = next /\ pos'[r] = 1
      /\ \A s \in Runs : s # r => pc'[s] = pc[s] /\ pos'[s] = pos[s]
      /\ tx.inputs \in Seq(OutputIds) /\ tx.proposals \in Seq([id : OutputIds, body : Bodies])
  BY <1>2, RunAssumption DEF RunTypeOK
<1>4. RunTypeOK'
  BY <1>1, <1>2 DEF RunTypeOK, Phases
<1>5. PosInv'
  BY <1>1, <1>3 DEF PosInv
<1>6. SnapInv'
  <2>1. ASSUME NEW s \in Runs PROVE Resolved(s)'
    BY <1>1, <1>2, <1>3 DEF SnapInv, Resolved, storeVars
  <2> QED
    BY <2>1 DEF SnapInv
<1>7. NonceTypeOK' /\ NonceInv'
  BY <1>1, <1>2, <1>3 DEF NonceTypeOK, NonceInv, nonceVars
<1>8. StoreTypeOK' /\ TraceTypeOK' /\ SpendInv' /\ MadeInv'
  BY <1>1, <1>2, <1>3, <1>4, ControlOnly DEF RunTypeOK
<1> QED
  BY <1>4, <1>5, <1>6, <1>7, <1>8

LEMMA ReadClockInv == ASSUME Inv, NEW r \in Runs, ReadClock(r) PROVE Inv'
<1> USE DEF Inv, IInv, TypeOK
<1>1. /\ pc[r] = "clock" /\ stamp' = [stamp EXCEPT ![r] = now]
      /\ UNCHANGED <<storeVars, snap, registry, now, claimed, traceVars>>
      /\ pc' = [pc EXCEPT ![r] = "nonce"] /\ pos' = [pos EXCEPT ![r] = 1]
  BY DEF ReadClock, GoTo
<1>2. /\ pc'[r] = "nonce" /\ pos'[r] = 1
      /\ \A s \in Runs : s # r => pc'[s] = pc[s] /\ pos'[s] = pos[s]
  BY <1>1 DEF RunTypeOK
<1>3. RunTypeOK'
  BY <1>1 DEF RunTypeOK, Phases
<1>4. PosInv'
  BY <1>2 DEF PosInv
<1>5. SnapInv'
  <2>1. ASSUME NEW s \in Runs PROVE Resolved(s)'
    BY <1>1, <1>2 DEF SnapInv, Resolved, storeVars
  <2> QED
    BY <2>1 DEF SnapInv
<1>6. NonceTypeOK'
  BY <1>1 DEF NonceTypeOK
<1>7. NonceInv'
  <2>1. /\ stamp'[r] = now /\ now \in Nat /\ claimed[r] = None
        /\ \A s \in Runs : s # r => stamp'[s] = stamp[s]
    BY <1>1 DEF NonceTypeOK, NonceInv
  <2> QED
    BY <1>1, <1>2, <2>1 DEF NonceInv, None
<1>8. StoreTypeOK' /\ TraceTypeOK' /\ SpendInv' /\ MadeInv'
  BY <1>1, <1>2, <1>3, ControlOnly DEF RunTypeOK
<1> QED
  BY <1>3, <1>4, <1>5, <1>6, <1>7, <1>8

\* The actor of a replay key is a number, so no key comes before itself.
LEMMA ReplayKeyActor ==
  ASSUME NEW r \in Runs, NEW k \in ReplayKeys(TxOf[r]) PROVE ~(k[1] < k[1])
<1>1. ReplayActors(TxOf[r]) \subseteq Nat
  <2> DEFINE sigs == TxOf[r].sigs
  <2>1. sigs \in Seq([actor : Nat, form : SignatureForms])
    BY RunAssumption
  <2>2. \A i \in DOMAIN sigs : sigs[i] \in [actor : Nat, form : SignatureForms]
    BY <2>1, SeqItem
  <2>3. \A i \in DOMAIN sigs : sigs[i].actor \in Nat
    BY <2>2
  <2> QED
    BY <2>3 DEF ReplayActors
<1>2. k[1] \in ReplayActors(TxOf[r])
  BY DEF ReplayKeys
<1> QED
  BY <1>1, <1>2

LEMMA RegisterNonceInv == ASSUME Inv, NEW r \in Runs, RegisterNonce(r) PROVE Inv'
<1> DEFINE tx == TxOf[r]
           e == ExecutorOf[r]
           old == registry[e]
           kept == Fresh(old, stamp[r])
           used == ReplayKeys(tx) \cap kept
           new == {k \in ReplayKeys(tx) : \A u \in used : k[1] < u[1]}
           next == IF used = {} THEN AfterNonce(tx) ELSE "rejected"
<1> USE DEF Inv, IInv, TypeOK
<1>1. /\ pc[r] = "nonce" /\ UNCHANGED <<storeVars, snap, now, stamp, traceVars>>
      /\ pc' = [pc EXCEPT ![r] = next] /\ pos' = [pos EXCEPT ![r] = 1]
      /\ registry' = [registry EXCEPT ![e] = [k \in kept \cup new |-> IF k \in new THEN stamp[r] ELSE old[k]]]
      /\ \/ used = {} /\ claimed' = [claimed EXCEPT ![r] = now]
         \/ used # {} /\ claimed' = claimed
  BY DEF RegisterNonce, GoTo, Reject
<1>2. /\ next \in {"rejected", "spend", "insert", "accepted"}
      /\ next = "spend" => tx.inputs # << >>
      /\ next = "insert" => tx.inputs = << >> /\ tx.proposals # << >>
      /\ next = "accepted" => tx.inputs = << >> /\ tx.proposals = << >>
  BY DEF AfterNonce, AfterSpend
<1>3. e \in Executors /\ \A s \in Runs : ExecutorOf[s] \in Executors
  BY RunAssumption
<1>4. kept \subseteq DOMAIN old /\ used \subseteq kept
  BY DEF Fresh
<1>5. /\ DOMAIN registry' = Executors
      /\ registry'[e] = [k \in kept \cup new |-> IF k \in new THEN stamp[r] ELSE old[k]]
      /\ \A f \in Executors : f # e => registry'[f] = registry[f]
  BY <1>1, <1>3 DEF NonceTypeOK
<1>6. /\ stamp[r] \in Nat /\ now \in Nat /\ stamp[r] <= now /\ claimed[r] = None
  BY <1>1 DEF NonceTypeOK, NonceInv, None
<1>7. \A k \in used : k \notin new
  <2>1. ASSUME NEW k \in used, k \in new PROVE FALSE
    BY <2>1, ReplayKeyActor
  <2> QED
    BY <2>1
<1> HIDE DEF next, kept, used, new
<1>8. /\ pc'[r] = next /\ pos'[r] = 1
      /\ \A s \in Runs : s # r => pc'[s] = pc[s] /\ pos'[s] = pos[s]
      /\ tx.inputs \in Seq(OutputIds) /\ tx.proposals \in Seq([id : OutputIds, body : Bodies])
  BY <1>1, RunAssumption DEF RunTypeOK
<1>9. RunTypeOK'
  BY <1>1, <1>2 DEF RunTypeOK, Phases
<1>10. PosInv'
  BY <1>2, <1>8 DEF PosInv
<1>11. SnapInv'
  <2>1. ASSUME NEW s \in Runs PROVE Resolved(s)'
    BY <1>1, <1>2, <1>8 DEF SnapInv, Resolved, storeVars
  <2> QED
    BY <2>1 DEF SnapInv
<1>12. NonceTypeOK'
  <2>1. \A k \in DOMAIN registry'[e] : registry'[e][k] \in Nat
    BY <1>3, <1>4, <1>5, <1>6 DEF NonceTypeOK
  <2>2. \A f \in Executors : \A k \in DOMAIN registry'[f] : registry'[f][k] \in Nat
    BY <1>5, <2>1 DEF NonceTypeOK
  <2>3. claimed' \in [Runs -> Nat \cup {None}]
    BY <1>1, <1>6 DEF NonceTypeOK
  <2> QED
    BY <1>1, <1>5, <2>2, <2>3 DEF NonceTypeOK
<1>13. NonceInv'
  <2>1. ASSUME NEW s \in Runs
        PROVE  /\ stamp'[s] <= now' /\ (pc'[s] = "nonce" => stamp'[s] # None)
               /\ claimed'[s] # None => /\ stamp'[s] # None /\ claimed'[s] <= now'
                                        /\ pc'[s] \in {"spend", "insert", "accepted", "rejected"}
    <3>1. CASE s = r
      BY <1>1, <1>2, <1>6, <1>8, <3>1 DEF NonceInv, NonceTypeOK, None
    <3>2. CASE s # r
      BY <1>1, <1>8, <3>2 DEF NonceInv, NonceTypeOK
    <3> QED
      BY <3>1, <3>2
  <2>2. ASSUME NEW s \in Runs, claimed'[s] # None, NEW k \in ReplayKeys(TxOf[s])
        PROVE  \/ now' - stamp'[s] > ReplayWindow
               \/ /\ k \in DOMAIN registry'[ExecutorOf[s]]
                  /\ registry'[ExecutorOf[s]][k] = stamp'[s]
    <3>1. CASE s = r
      <4>1. used = {}
        BY <1>1, <1>6, <2>2, <3>1
      <4>2. k \in new
        BY <4>1, <2>2, <3>1 DEF new
      <4> QED
        BY <1>1, <1>5, <4>2, <3>1
    <3>2. CASE s # r
      <4>1. claimed[s] # None
        BY <1>1, <2>2, <3>2 DEF NonceTypeOK
      <4>2. \/ now - stamp[s] > ReplayWindow
            \/ k \in DOMAIN registry[ExecutorOf[s]] /\ registry[ExecutorOf[s]][k] = stamp[s]
        BY <4>1 DEF NonceInv
      <4>3. CASE ExecutorOf[s] # e
        BY <1>1, <1>3, <1>5, <4>2, <4>3
      <4>4. CASE ExecutorOf[s] = e /\ k \in DOMAIN old /\ old[k] = stamp[s]
        <5>1. CASE k \notin kept
          <6>1. ~(stamp[r] - stamp[s] <= ReplayWindow)
            BY <4>4, <5>1 DEF kept, Fresh
          <6>2. stamp[s] \in Nat
            BY <4>1 DEF NonceInv, NonceTypeOK
          <6> QED
            BY <1>1, <1>6, <6>1, <6>2, TimeAssumption
        <5>2. CASE k \in kept
          <6>1. k \notin new
            BY <1>7, <5>2 DEF new, used
          <6> QED
            BY <1>1, <1>5, <4>4, <5>2, <6>1
        <5> QED
          BY <5>1, <5>2
      <4> QED
        BY <1>1, <4>2, <4>3, <4>4
    <3> QED
      BY <3>1, <3>2
  <2> QED
    BY <2>1, <2>2 DEF NonceInv
<1>14. StoreTypeOK' /\ TraceTypeOK' /\ SpendInv' /\ MadeInv'
  BY <1>1, <1>2, <1>8, <1>9, ControlOnly DEF RunTypeOK
<1> QED
  BY <1>9, <1>10, <1>11, <1>12, <1>13, <1>14

LEMMA TickInv == ASSUME Inv, Tick PROVE Inv'
<1> USE DEF Inv, IInv, TypeOK
<1>1. now' = now + 1 /\ UNCHANGED <<storeVars, runVars, registry, stamp, claimed, traceVars>>
  BY DEF Tick
<1>2. StoreTypeOK' /\ RunTypeOK' /\ TraceTypeOK'
  BY <1>1 DEF StoreTypeOK, RunTypeOK, TraceTypeOK, storeVars, runVars, traceVars
<1>3. NonceTypeOK'
  BY <1>1 DEF NonceTypeOK
<1>4. PosInv' /\ SpendInv' /\ MadeInv'
  BY <1>1 DEF PosInv, SpendInv, MadeInv, Stored, storeVars, runVars, traceVars
<1>5. SnapInv'
  BY <1>1 DEF SnapInv, Resolved, storeVars, runVars
<1>6. NonceInv'
  BY <1>1, TimeAssumption DEF NonceInv, NonceTypeOK, runVars, None
<1> QED
  BY <1>2, <1>3, <1>4, <1>5, <1>6

\* The two steps that write to the store.
LEMMA MarkSpentInv == ASSUME Inv, NEW r \in Runs, MarkSpent(r) PROVE Inv'
<1> DEFINE tx == TxOf[r]
           next == AfterSpend(tx)
           o == tx.inputs[pos[r]]
<1> USE DEF Inv, IInv, TypeOK
<1>1. /\ tx.inputs \in Seq(OutputIds) /\ tx.proposals \in Seq([id : OutputIds, body : Bodies])
  BY RunAssumption
<1>2. Len(tx.inputs) \in Nat /\ DOMAIN tx.inputs = 1..Len(tx.inputs)
  BY <1>1
<1>3. pc[r] = "spend" /\ pos[r] \in 1..Len(tx.inputs)
  BY <1>2 DEF RunTypeOK, PosInv, MarkSpent
<1>4. /\ next \in {"insert", "accepted"} /\ next \in Phases
      /\ next = "insert" => tx.proposals # << >>
      /\ next = "accepted" => tx.proposals = << >>
  BY DEF AfterSpend, Phases
<1>5. /\ UNCHANGED <<outputs, latest, snap, nonceVars, madeBy>>
      /\ \/ /\ o \in DOMAIN outputs /\ o \notin spent
            /\ spent' = spent \cup {o}
            /\ spentBy' = [spentBy EXCEPT ![r] = @ \cup {o}]
            /\ Advance(r, tx.inputs, next)
         \/ Reject(r) /\ UNCHANGED <<spent, spentBy>>
  BY DEF MarkSpent, Spendable
<1> HIDE DEF next
<1>6. /\ pc' = [pc EXCEPT ![r] = pc'[r]] /\ pc' \in [Runs -> Phases]
      /\ pos' = [pos EXCEPT ![r] = pos'[r]] /\ pos' \in [Runs -> Nat \ {0}]
      /\ \/ pos[r] < Len(tx.inputs) /\ pc'[r] = "spend" /\ pos'[r] = pos[r] + 1
         \/ pos[r] = Len(tx.inputs) /\ pc'[r] = next /\ pos'[r] = 1
         \/ Reject(r) /\ pc'[r] = "rejected" /\ pos'[r] = 1
  BY <1>2, <1>3, <1>4, <1>5, Moved
<1>7. ASSUME NEW s \in Runs, s # r
      PROVE  pc'[s] = pc[s] /\ pos'[s] = pos[s] /\ spentBy'[s] = spentBy[s]
  BY <1>5, <1>6, <1>7 DEF RunTypeOK, TraceTypeOK
<1>8. StoreTypeOK' /\ TraceTypeOK'
  BY <1>5 DEF StoreTypeOK, TraceTypeOK
<1>9. RunTypeOK'
  BY <1>5, <1>6 DEF RunTypeOK
<1>10. PosInv'
  BY <1>1, <1>2, <1>3, <1>4, <1>6, <1>7 DEF PosInv
<1>11. SnapInv'
  <2>1. ASSUME NEW s \in Runs PROVE Resolved(s)'
    BY <1>3, <1>4, <1>5, <1>6, <1>7 DEF SnapInv, Resolved
  <2> QED
    BY <2>1 DEF SnapInv
<1>12. SpendInv'
  <2>1. CASE Reject(r) /\ UNCHANGED <<spent, spentBy>>
    <3>1. pc'[r] = "rejected"
      BY <2>1 DEF Reject, GoTo, RunTypeOK
    <3> QED
      BY <1>7, <2>1, <3>1 DEF SpendInv
  <2>2. CASE /\ o \notin spent /\ spentBy' = [spentBy EXCEPT ![r] = @ \cup {o}]
             /\ Advance(r, tx.inputs, next)
    <3>1. spentBy'[r] = spentBy[r] \cup {o} /\ \A s \in Runs : o \notin spentBy[s]
      BY <2>2 DEF TraceTypeOK
    <3>2. \A i \in 1..pos[r] : tx.inputs[i] \in spentBy'[r]
      BY <1>3, <3>1 DEF SpendInv
    <3>3. \/ pc'[r] = "spend" /\ pos'[r] = pos[r] + 1
          \/ pc'[r] \in {"insert", "accepted"} /\ pos[r] = Len(tx.inputs)
          \/ pc'[r] = "rejected"
      BY <1>4, <1>6
    <3>4. ASSUME NEW s \in Runs, NEW t \in Runs, s # t PROVE spentBy'[s] \cap spentBy'[t] = {}
      BY <1>7, <3>1, <3>4 DEF SpendInv
    <3>5. ASSUME NEW s \in Runs
          PROVE  /\ pc'[s] = "spend" => \A i \in 1..(pos'[s] - 1) : TxOf[s].inputs[i] \in spentBy'[s]
                 /\ pc'[s] \in {"insert", "accepted"} =>
                      \A i \in DOMAIN TxOf[s].inputs : TxOf[s].inputs[i] \in spentBy'[s]
      <4>1. CASE s = r
        BY <1>2, <1>3, <3>2, <3>3, <4>1
      <4>2. CASE s # r
        BY <1>7, <4>2 DEF SpendInv
      <4> QED
        BY <4>1, <4>2
    <3> QED
      BY <3>4, <3>5 DEF SpendInv
  <2> QED
    BY <1>5, <2>1, <2>2
<1>13. MadeInv'
  <2>1. ASSUME NEW s \in Runs, NEW i, Stored(s, i) PROVE Stored(s, i)'
    BY <1>5, <2>1 DEF Stored
  <2>2. ASSUME NEW s \in Runs, s # r
        PROVE  /\ pc'[s] = "insert" => \A i \in 1..(pos'[s] - 1) : Stored(s, i)'
               /\ pc'[s] = "accepted" => \A i \in DOMAIN TxOf[s].proposals : Stored(s, i)'
    BY <1>7, <2>1, <2>2 DEF MadeInv
  <2>3. /\ pc'[r] = "insert" => pos'[r] = 1
        /\ pc'[r] = "accepted" => DOMAIN tx.proposals = {}
    BY <1>3, <1>4, <1>6
  <2> QED
    BY <2>2, <2>3 DEF MadeInv
<1>14. NonceTypeOK' /\ NonceInv'
  BY <1>3, <1>4, <1>5, <1>6, <1>7 DEF NonceTypeOK, NonceInv, nonceVars
<1> QED
  BY <1>8, <1>9, <1>10, <1>11, <1>12, <1>13, <1>14

LEMMA InsertOutputInv == ASSUME Inv, NEW r \in Runs, InsertOutput(r) PROVE Inv'
<1> DEFINE tx == TxOf[r]
           p == tx.proposals[pos[r]]
<1> USE DEF Inv, IInv, TypeOK
<1>1. tx.proposals \in Seq([id : OutputIds, body : Bodies])
  BY RunAssumption
<1>2. Len(tx.proposals) \in Nat /\ DOMAIN tx.proposals = 1..Len(tx.proposals)
  BY <1>1
<1>3. pc[r] = "insert" /\ pos[r] \in 1..Len(tx.proposals)
  BY <1>2 DEF RunTypeOK, PosInv, InsertOutput
<1>4. p.id \in OutputIds /\ p.body \in Bodies /\ p.body.object \in Objects
  <2>1. pos[r] \in DOMAIN tx.proposals
    BY <1>2, <1>3
  <2>2. p \in [id : OutputIds, body : Bodies]
    BY <1>1, <2>1, SeqItem
  <2> QED
    BY <2>2, RunAssumption
<1>5. /\ UNCHANGED <<spent, snap, nonceVars, spentBy>>
      /\ \/ /\ p.id \notin DOMAIN outputs
            /\ outputs' = Put(outputs, p.id, p.body)
            /\ latest' = LatestAfterInsert(p.id, p.body)
            /\ madeBy' = [madeBy EXCEPT ![r] = @ \cup {p.id}]
            /\ Advance(r, tx.proposals, "accepted")
         \/ Reject(r) /\ UNCHANGED <<outputs, latest, madeBy>>
  BY DEF InsertOutput, Vacant
<1>6. /\ pc' = [pc EXCEPT ![r] = pc'[r]] /\ pc' \in [Runs -> Phases]
      /\ pos' = [pos EXCEPT ![r] = pos'[r]] /\ pos' \in [Runs -> Nat \ {0}]
      /\ \/ pos[r] < Len(tx.proposals) /\ pc'[r] = "insert" /\ pos'[r] = pos[r] + 1
         \/ pos[r] = Len(tx.proposals) /\ pc'[r] = "accepted" /\ pos'[r] = 1
         \/ Reject(r) /\ pc'[r] = "rejected" /\ pos'[r] = 1
  <2>1. "accepted" \in Phases
    BY DEF Phases
  <2> QED
    BY <1>2, <1>3, <1>5, <2>1, Moved
<1>7. ASSUME NEW s \in Runs, s # r
      PROVE  pc'[s] = pc[s] /\ pos'[s] = pos[s] /\ madeBy'[s] = madeBy[s]
  BY <1>5, <1>6, <1>7 DEF RunTypeOK, TraceTypeOK
<1>8. \A o \in DOMAIN outputs : o \in DOMAIN outputs' /\ outputs'[o] = outputs[o]
  BY <1>5 DEF Put
<1>9. StoreTypeOK'
  <2>1. CASE UNCHANGED <<outputs, latest>>
    BY <1>5, <2>1 DEF StoreTypeOK
  <2>2. CASE outputs' = Put(outputs, p.id, p.body) /\ latest' = LatestAfterInsert(p.id, p.body)
    <3>1. DOMAIN outputs' = DOMAIN outputs \cup {p.id} /\ outputs'[p.id] = p.body
      BY <2>2 DEF Put
    <3>2. DOMAIN latest' \subseteq Objects /\ \A obj \in DOMAIN latest' : latest'[obj] \in DOMAIN outputs'
      BY <1>4, <2>2, <3>1 DEF LatestAfterInsert, Put, StoreTypeOK
    <3> QED
      BY <1>4, <1>5, <1>8, <3>1, <3>2 DEF StoreTypeOK
  <2> QED
    BY <1>5, <2>1, <2>2
<1>10. TraceTypeOK'
  BY <1>5 DEF TraceTypeOK, Put
<1>11. RunTypeOK'
  BY <1>5, <1>6 DEF RunTypeOK
<1>12. PosInv'
  BY <1>2, <1>3, <1>6, <1>7 DEF PosInv
<1>13. SnapInv'
  <2>1. ASSUME NEW s \in Runs PROVE Resolved(s)'
    BY <1>3, <1>5, <1>6, <1>7, <1>8 DEF SnapInv, Resolved
  <2> QED
    BY <2>1 DEF SnapInv
<1>14. SpendInv'
  BY <1>3, <1>5, <1>6, <1>7 DEF SpendInv
<1>15. MadeInv'
  <2>1. ASSUME NEW s \in Runs, NEW i, Stored(s, i) PROVE Stored(s, i)'
    BY <1>5, <1>7, <1>8, <2>1 DEF Stored, TraceTypeOK
  <2>2. ASSUME NEW s \in Runs, s # r
        PROVE  /\ pc'[s] = "insert" => \A i \in 1..(pos'[s] - 1) : Stored(s, i)'
               /\ pc'[s] = "accepted" => \A i \in DOMAIN TxOf[s].proposals : Stored(s, i)'
    BY <1>7, <2>1, <2>2 DEF MadeInv
  <2>3. CASE pc'[r] = "rejected"
    BY <2>2, <2>3 DEF MadeInv
  <2>4. CASE /\ outputs' = Put(outputs, p.id, p.body)
             /\ madeBy' = [madeBy EXCEPT ![r] = @ \cup {p.id}]
    <3>1. ASSUME NEW i \in 1..pos[r], i = pos[r] PROVE Stored(r, i)'
      BY <2>4, <3>1 DEF Stored, Put, TraceTypeOK
    <3>2. ASSUME NEW i \in 1..pos[r], i # pos[r] PROVE Stored(r, i)'
      <4>1. i \in 1..(pos[r] - 1)
        BY <1>3, <3>2
      <4> QED
        BY <1>3, <2>1, <4>1 DEF MadeInv
    <3>3. ASSUME NEW i \in 1..pos[r] PROVE Stored(r, i)'
      BY <3>1, <3>2
    <3> QED
      BY <1>2, <1>3, <1>6, <2>2, <3>3 DEF MadeInv
  <2> QED
    BY <1>5, <1>6, <2>3, <2>4 DEF Reject, GoTo, RunTypeOK
<1>16. NonceTypeOK' /\ NonceInv'
  BY <1>3, <1>5, <1>6, <1>7 DEF NonceTypeOK, NonceInv, nonceVars
<1> QED
  BY <1>9, <1>10, <1>11, <1>12, <1>13, <1>14, <1>15, <1>16

-----------------------------------------------------------------------------
(* The invariant and what follows from it in every state *)

LEMMA NextInv == Inv /\ [Next]_vars => Inv'
<1> SUFFICES ASSUME Inv, [Next]_vars PROVE Inv'
  OBVIOUS
<1>1. ASSUME NEW r \in Runs, Begin(r) PROVE Inv'
  BY <1>1, BeginInv
<1>2. ASSUME NEW r \in Runs, RunStep(r) PROVE Inv'
  BY <1>2, ReadInputInv, ReadReferenceInv, CheckResolvedInv, ReadClockInv, RegisterNonceInv,
     MarkSpentInv, InsertOutputInv DEF RunStep, Prepare
<1>3. CASE Tick
  BY <1>3, TickInv
<1>4. CASE UNCHANGED vars
  BY <1>4 DEF vars, storeVars, runVars, nonceVars, traceVars, Inv, IInv, TypeOK, StoreTypeOK, RunTypeOK,
     NonceTypeOK, TraceTypeOK, PosInv, SnapInv, Resolved, SpendInv, MadeInv, Stored, NonceInv
<1> QED
  BY <1>1, <1>2, <1>3, <1>4 DEF Next

\* The invariant holds of every behaviour.
THEOREM Invariant == Spec => []Inv
<1> QED
  BY InitInv, NextInv, PTL DEF Spec

\* Every variable keeps its type, and so does every index into a list.
THEOREM TypeCorrect == Spec => []TypeOK
<1>1. Inv => TypeOK
  BY DEF Inv
<1> QED
  BY <1>1, Invariant, PTL

\* Two accepted transactions have no input in common: each of them set the spent
\* flag of all its inputs, and a flag is set once.
THEOREM DoubleSpendFree == Spec => []NoDoubleSpend
<1>1. Inv => NoDoubleSpend
  <2> SUFFICES ASSUME Inv, NEW r \in Runs, NEW s \in Runs, r # s,
                      pc[r] = "accepted", pc[s] = "accepted",
                      NEW i \in DOMAIN TxOf[r].inputs, NEW j \in DOMAIN TxOf[s].inputs
               PROVE  TxOf[r].inputs[i] # TxOf[s].inputs[j]
    BY DEF NoDoubleSpend
  <2>1. TxOf[r].inputs[i] \in spentBy[r] /\ TxOf[s].inputs[j] \in spentBy[s]
    BY DEF Inv, IInv, SpendInv
  <2> QED
    BY <2>1 DEF Inv, IInv, SpendInv
<1> QED
  BY <1>1, Invariant, PTL

\* An accepted transaction spent all its inputs and stored all its outputs.
THEOREM AcceptedIsApplied == Spec => []AcceptedTookEffect
<1>1. Inv => AcceptedTookEffect
  BY DEF Inv, IInv, SpendInv, MadeInv, Stored, AcceptedTookEffect
<1> QED
  BY <1>1, Invariant, PTL

-----------------------------------------------------------------------------
(* What holds of the store, whichever run steps *)

\* The store after a step: as it was, one more output spent, or one inserted.
LEMMA StoreStep ==
  ASSUME Inv, [Next]_vars
  PROVE  \/ UNCHANGED storeVars
         \/ /\ UNCHANGED <<outputs, latest>> /\ spent \subseteq spent'
         \/ \E r \in Runs :
              LET p == TxOf[r].proposals[pos[r]]
              IN  /\ pc[r] = "insert" /\ pos[r] \in DOMAIN TxOf[r].proposals
                  /\ p.id \notin DOMAIN outputs /\ UNCHANGED spent
                  /\ outputs' = Put(outputs, p.id, p.body)
                  /\ latest' = LatestAfterInsert(p.id, p.body)
<1>1. ASSUME NEW r \in Runs, Begin(r) \/ Prepare(r) PROVE UNCHANGED storeVars
  BY <1>1 DEF Begin, Prepare, ReadInput, ReadReference, CheckResolved, ReadClock, RegisterNonce
<1>2. ASSUME NEW r \in Runs, MarkSpent(r) PROVE UNCHANGED <<outputs, latest>> /\ spent \subseteq spent'
  BY <1>2 DEF MarkSpent
<1>3. ASSUME NEW r \in Runs, InsertOutput(r)
      PROVE  \/ UNCHANGED storeVars
             \/ LET p == TxOf[r].proposals[pos[r]]
                IN  /\ pc[r] = "insert" /\ pos[r] \in DOMAIN TxOf[r].proposals
                    /\ p.id \notin DOMAIN outputs /\ UNCHANGED spent
                    /\ outputs' = Put(outputs, p.id, p.body)
                    /\ latest' = LatestAfterInsert(p.id, p.body)
  <2>1. pos[r] \in DOMAIN TxOf[r].proposals
    <3>1. TxOf[r].proposals \in Seq([id : OutputIds, body : Bodies])
      BY RunAssumption
    <3>2. Len(TxOf[r].proposals) \in Nat /\ DOMAIN TxOf[r].proposals = 1..Len(TxOf[r].proposals)
      BY <3>1
    <3> QED
      BY <1>3, <3>2 DEF InsertOutput, Inv, IInv, TypeOK, RunTypeOK, PosInv
  <2> QED
    BY <1>3, <2>1 DEF InsertOutput, Vacant, storeVars
<1>4. ASSUME Tick \/ UNCHANGED vars PROVE UNCHANGED storeVars
  BY <1>4 DEF Tick, vars
<1> QED
  BY <1>1, <1>2, <1>3, <1>4 DEF Next, RunStep

\* No step removes an output, changes its body or revives it.
THEOREM Immutable == Spec => OutputsImmutable
<1>1. ASSUME Inv, [Next]_vars
      PROVE  /\ \A o \in DOMAIN outputs : o \in DOMAIN outputs' /\ outputs'[o] = outputs[o]
             /\ spent \subseteq spent'
  BY <1>1, StoreStep DEF storeVars, Put
<1> QED
  BY <1>1, Invariant, PTL DEF Spec, OutputsImmutable

\* A stored output has its predecessor in the store, spent, of the same object and
\* one version older: its maker read that body, and set that flag, before.
THEOREM LineageKept == Spec => []Lineage
<1>1. Init => Lineage
  BY GenesisAssumption DEF Init, Lineage
<1>2. ASSUME Inv, Lineage, [Next]_vars PROVE Lineage'
  <2>1. CASE UNCHANGED storeVars \/ (UNCHANGED <<outputs, latest>> /\ spent \subseteq spent')
    BY <1>2, <2>1 DEF Lineage, storeVars
  <2>2. ASSUME NEW r \in Runs, pc[r] = "insert", pos[r] \in DOMAIN TxOf[r].proposals, UNCHANGED spent,
               TxOf[r].proposals[pos[r]].id \notin DOMAIN outputs,
               outputs' = Put(outputs, TxOf[r].proposals[pos[r]].id, TxOf[r].proposals[pos[r]].body)
        PROVE  Lineage'
    <3> DEFINE tx == TxOf[r]
               p == tx.proposals[pos[r]]
    <3>1. /\ DOMAIN outputs' = DOMAIN outputs \cup {p.id} /\ outputs'[p.id] = p.body
          /\ \A o \in DOMAIN outputs : outputs'[o] = outputs[o]
      BY <2>2 DEF Put
    <3>2. ASSUME p.body.pred # NoOutput
          PROVE  /\ p.body.pred \in spent /\ p.body.pred \in DOMAIN outputs
                 /\ p.body.object = outputs[p.body.pred].object
                 /\ p.body.version = NextVersion(outputs[p.body.pred].version)
      <4>1. ProposalOk(p.body, tx, snap[r])
        BY <1>2, <2>2 DEF Inv, IInv, SnapInv, Resolved, ValidResolved, ValidateOutputProposals
      <4>2. PICK i \in DOMAIN tx.inputs : tx.inputs[i] = p.body.pred /\ Succeeds(p.body, snap[r][i])
        BY <3>2, <4>1 DEF ProposalOk
      <4>3. tx.inputs[i] \in spentBy[r] /\ spentBy[r] \subseteq spent
        BY <1>2, <2>2 DEF Inv, IInv, SpendInv, TypeOK, TraceTypeOK
      <4>4. i \in DOMAIN snap[r]
        <5>1. tx.inputs \in Seq(OutputIds) /\ snap[r] \in Seq(Bodies) /\ Len(snap[r]) = Len(tx.inputs)
          BY <1>2, <2>2, RunAssumption DEF Inv, IInv, SnapInv, Resolved, TypeOK, RunTypeOK
        <5> QED
          BY <5>1
      <4>5. tx.inputs[i] \in DOMAIN outputs /\ snap[r][i] = outputs[tx.inputs[i]]
        BY <1>2, <4>4 DEF Inv, IInv, SnapInv, Resolved
      <4> QED
        BY <4>2, <4>3, <4>5 DEF Succeeds
    <3>3. \A o \in DOMAIN outputs : outputs[o].pred # NoOutput => outputs[o].pred \in DOMAIN outputs
      BY <1>2 DEF Lineage, Inv, TypeOK, StoreTypeOK
    <3> HIDE DEF p
    <3>4. ASSUME NEW o \in DOMAIN outputs', outputs'[o].pred # NoOutput
          PROVE  /\ outputs'[o].pred \in spent
                 /\ outputs'[o].object = outputs'[outputs'[o].pred].object
                 /\ outputs'[o].version = NextVersion(outputs'[outputs'[o].pred].version)
      <4>1. CASE o = p.id
        BY <3>1, <3>2, <3>4, <4>1
      <4>2. CASE o \in DOMAIN outputs
        BY <1>2, <3>1, <3>3, <3>4, <4>2 DEF Lineage
      <4> QED
        BY <3>1, <4>1, <4>2
    <3> QED
      BY <2>2, <3>4 DEF Lineage
  <2> QED
    BY <1>2, <2>1, <2>2, StoreStep
<1> QED
  BY <1>1, <1>2, Invariant, PTL DEF Spec

\* latest_by_object leads to a version of the object it is asked for.
LatestOwn == \A obj \in DOMAIN latest : outputs[latest[obj]].object = obj

\* The latest output of an object is never older than another stored one.
THEOREM LatestKept == Spec => []LatestIsNewest
<1> DEFINE L == LatestOwn /\ LatestIsNewest
<1>1. Init => L
  <2> SUFFICES ASSUME Init PROVE L
    OBVIOUS
  <2>1. /\ outputs = Genesis /\ DOMAIN latest = GenesisObjects
        /\ \A o \in DOMAIN outputs : outputs[o].object \in DOMAIN latest
    BY DEF Init, GenesisObjects
  <2>2. ASSUME NEW obj \in GenesisObjects PROVE Newest(latest[obj], obj)
    <3>1. latest[obj] = CHOOSE o \in OutputIds : Newest(o, obj)
      BY DEF Init
    <3>2. \E o \in OutputIds : Newest(o, obj)
      BY GenesisAssumption
    <3> QED
      BY <3>1, <3>2
  <2> QED
    BY <2>1, <2>2 DEF LatestOwn, LatestIsNewest, Newest
<1>2. ASSUME Inv, L, [Next]_vars PROVE L'
  <2>1. CASE UNCHANGED <<outputs, latest>>
    BY <1>2, <2>1 DEF LatestOwn, LatestIsNewest
  <2>2. ASSUME NEW id, NEW body \in Bodies, id \notin DOMAIN outputs,
               outputs' = Put(outputs, id, body), latest' = LatestAfterInsert(id, body)
        PROVE  L'
    <3>1. /\ DOMAIN outputs' = DOMAIN outputs \cup {id} /\ outputs'[id] = body
          /\ \A o \in DOMAIN outputs : outputs'[o] = outputs[o]
      BY <2>2 DEF Put
    <3>2. /\ \A b \in Bodies : b.version \in Nat
          /\ \A o \in DOMAIN outputs : outputs[o] \in Bodies
          /\ \A obj \in DOMAIN latest : latest[obj] \in DOMAIN outputs
      BY <1>2, RunAssumption DEF Inv, TypeOK, StoreTypeOK
    <3>3. CASE body.object \in DOMAIN latest /\ body.version < outputs[latest[body.object]].version
      <4>1. latest' = latest
        BY <2>2, <3>3 DEF LatestAfterInsert
      <4>2. LatestOwn'
        BY <1>2, <3>1, <3>2, <4>1 DEF LatestOwn
      <4>3. LatestIsNewest'
        BY <1>2, <3>1, <3>2, <3>3, <4>1 DEF LatestOwn, LatestIsNewest
      <4> QED
        BY <4>2, <4>3
    <3>4. CASE ~(body.object \in DOMAIN latest /\ body.version < outputs[latest[body.object]].version)
      <4>1. /\ DOMAIN latest' = DOMAIN latest \cup {body.object} /\ latest'[body.object] = id
            /\ \A obj \in DOMAIN latest : obj # body.object => latest'[obj] = latest[obj]
        BY <2>2, <3>4 DEF LatestAfterInsert, Put
      <4>2. LatestOwn'
        BY <1>2, <3>1, <3>2, <4>1 DEF LatestOwn
      <4>3. LatestIsNewest'
        BY <1>2, <3>1, <3>2, <3>4, <4>1 DEF LatestIsNewest
      <4> QED
        BY <4>2, <4>3
    <3> QED
      BY <3>3, <3>4
  <2>3. ASSUME NEW r \in Runs, pos[r] \in DOMAIN TxOf[r].proposals
        PROVE  TxOf[r].proposals[pos[r]].body \in Bodies
    <3>1. TxOf[r].proposals \in Seq([id : OutputIds, body : Bodies])
      BY RunAssumption
    <3>2. TxOf[r].proposals[pos[r]] \in [id : OutputIds, body : Bodies]
      BY <2>3, <3>1, SeqItem
    <3> QED
      BY <3>2
  <2> HIDE DEF L
  <2> QED
    BY <1>2, <2>1, <2>2, <2>3, StoreStep DEF storeVars
<1>3. L => LatestIsNewest
  OBVIOUS
<1> HIDE DEF L
<1> QED
  BY <1>1, <1>2, <1>3, Invariant, PTL DEF Spec

-----------------------------------------------------------------------------
\* A nonce tuple is let through once in a window: at the second registration it is
\* in the registry still, or a reading of the clock past the window removed it.
THEOREM ReplayRefused == Spec => []ReplayNonceOnce
<1>1. Init => ReplayNonceOnce
  BY DEF Init, ReplayNonceOnce
<1>2. ASSUME Inv, ReplayNonceOnce, [Next]_vars PROVE ReplayNonceOnce'
  <2>1. CASE UNCHANGED <<claimed, stamp>>
    BY <1>2, <2>1 DEF ReplayNonceOnce
  <2>2. ASSUME NEW r \in Runs, ReadClock(r) PROVE ReplayNonceOnce'
    <3>1. /\ claimed[r] = None /\ UNCHANGED claimed
          /\ \A s \in Runs : s # r => stamp'[s] = stamp[s]
      BY <1>2, <2>2 DEF ReadClock, Inv, IInv, NonceInv, TypeOK, NonceTypeOK
    <3> QED
      BY <1>2, <3>1 DEF ReplayNonceOnce
  <2>3. ASSUME NEW r \in Runs, RegisterNonce(r), ~UNCHANGED claimed PROVE ReplayNonceOnce'
    <3> DEFINE old == registry[ExecutorOf[r]]
               used == ReplayKeys(TxOf[r]) \cap Fresh(old, stamp[r])
    <3>1. used = {} /\ claimed' = [claimed EXCEPT ![r] = now] /\ UNCHANGED <<stamp, now>>
      BY <2>3 DEF RegisterNonce
    <3>2. /\ claimed'[r] = now /\ now \in Nat /\ stamp[r] \in Nat /\ stamp[r] <= now
          /\ \A s \in Runs : s # r => claimed'[s] = claimed[s]
      BY <1>2, <2>3, <3>1 DEF RegisterNonce, Inv, IInv, NonceInv, TypeOK, NonceTypeOK, None
    <3>3. ASSUME NEW s \in Runs, s # r, claimed[s] # None, ExecutorOf[s] = ExecutorOf[r],
                 NEW k \in ReplayKeys(TxOf[r]) \cap ReplayKeys(TxOf[s])
          PROVE  now - stamp[s] > ReplayWindow
      <4>1. \/ now - stamp[s] > ReplayWindow
            \/ k \in DOMAIN old /\ old[k] = stamp[s]
        BY <1>2, <3>3 DEF Inv, IInv, NonceInv
      <4>2. stamp[s] \in Nat
        BY <1>2, <3>3 DEF Inv, IInv, NonceInv, TypeOK, NonceTypeOK
      <4>3. ASSUME k \in DOMAIN old, old[k] = stamp[s] PROVE ~(stamp[r] - stamp[s] <= ReplayWindow)
        BY <3>1, <4>3 DEF Fresh
      <4> QED
        BY <3>2, <4>1, <4>2, <4>3, TimeAssumption
    <3> HIDE DEF used, old
    <3> QED
      BY <1>2, <3>1, <3>2, <3>3 DEF ReplayNonceOnce
  <2>4. ASSUME NEW r \in Runs, Begin(r) \/ RunStep(r), ~ReadClock(r), ~RegisterNonce(r)
        PROVE  UNCHANGED <<claimed, stamp>>
    BY <2>4 DEF Begin, RunStep, Prepare, ReadInput, ReadReference, CheckResolved, MarkSpent, InsertOutput, nonceVars
  <2>5. ASSUME Tick \/ UNCHANGED vars PROVE UNCHANGED <<claimed, stamp>>
    BY <2>5 DEF Tick, vars, nonceVars
  <2>6. ASSUME NEW r \in Runs, RegisterNonce(r) PROVE UNCHANGED stamp
    BY <2>6 DEF RegisterNonce
  <2> QED
    BY <1>2, <2>1, <2>2, <2>3, <2>4, <2>5, <2>6 DEF Next, RunStep, Prepare
<1> QED
  BY <1>1, <1>2, Invariant, PTL DEF Spec

-----------------------------------------------------------------------------
(* No inflation: every run that inserts pays for it out of what it marked     *)

\* Up to its first write a run has neither spent nor made anything.
LEMMA BeforeWrites ==
  ASSUME Inv, PaidInv, NEW r \in Runs, Begin(r) \/ Prepare(r)
  PROVE  /\ UNCHANGED <<outputs, spentBy, madeBy>> /\ madeBy[r] = {}
         /\ \A s \in Runs : s # r => pc'[s] = pc[s] /\ pos'[s] = pos[s] /\ snap'[s] = snap[s]
         /\ pc'[r] = "spend" => pos'[r] = 1
         /\ pc'[r] = "insert" => TxOf[r].inputs = << >>
<1> USE DEF Inv, TypeOK, RunTypeOK
<1>1. UNCHANGED <<outputs, spentBy, madeBy>>
  BY DEF Begin, Prepare, ReadInput, ReadReference, CheckResolved, ReadClock, RegisterNonce, storeVars, traceVars
<1>2. pc[r] \notin {"insert", "accepted", "rejected"}
  BY DEF Begin, Prepare, ReadInput, ReadReference, CheckResolved, ReadClock, RegisterNonce
<1>3. \A s \in Runs : s # r => snap'[s] = snap[s]
  BY DEF Begin, Prepare, ReadInput, ReadReference, CheckResolved, ReadClock, RegisterNonce
<1>4. ASSUME NEW phase, GoTo(r, phase)
      PROVE  /\ \A s \in Runs : s # r => pc'[s] = pc[s] /\ pos'[s] = pos[s]
             /\ pc'[r] = phase /\ pos'[r] = 1
  BY <1>4 DEF GoTo
<1>5. /\ \A s \in Runs : s # r => pc'[s] = pc[s] /\ pos'[s] = pos[s]
      /\ pc'[r] = "spend" => pos'[r] = 1
      /\ pc'[r] = "insert" => TxOf[r].inputs = << >>
  <2>1. CASE Begin(r)
    BY <1>4, <2>1 DEF Begin, AfterBegin, AfterInputs
  <2>2. CASE ReadInput(r)
    <3> DEFINE next == AfterInputs(TxOf[r])
    <3>1. pc[r] = "inputs" /\ (Advance(r, TxOf[r].inputs, next) \/ GoTo(r, "rejected"))
      BY <2>2 DEF ReadInput, Reject
    <3>2. next \in {"check", "reads"}
      BY DEF AfterInputs
    <3> HIDE DEF next
    <3> QED
      BY <3>1, <3>2 DEF Advance, GoTo
  <2>3. CASE ReadReference(r)
    <3>1. pc[r] = "reads" /\ (Advance(r, TxOf[r].reads, "check") \/ GoTo(r, "rejected"))
      BY <2>3 DEF ReadReference, Reject
    <3> QED
      BY <3>1 DEF Advance, GoTo
  <2>4. CASE CheckResolved(r)
    BY <1>4, <2>4 DEF CheckResolved, AfterNonce, AfterSpend
  <2>5. CASE ReadClock(r)
    BY <1>4, <2>5 DEF ReadClock
  <2>6. CASE RegisterNonce(r)
    BY <1>4, <2>6 DEF RegisterNonce, Reject, AfterNonce, AfterSpend
  <2> QED
    BY <2>1, <2>2, <2>3, <2>4, <2>5, <2>6 DEF Prepare
<1> QED
  BY <1>1, <1>2, <1>3, <1>5 DEF PaidInv

\* The two steps that write to the store.
LEMMA PaidSpend == ASSUME Inv, Inv', PaidInv, NEW r \in Runs, MarkSpent(r) PROVE PaidInv'
<1> DEFINE tx == TxOf[r]
           o == tx.inputs[pos[r]]
<1>1. Len(tx.inputs) \in Nat /\ DOMAIN tx.inputs = 1..Len(tx.inputs)
  <2>1. tx.inputs \in Seq(OutputIds)
    BY RunAssumption
  <2> QED
    BY <2>1
<1>2. pc[r] = "spend" /\ pos[r] \in 1..Len(tx.inputs) /\ madeBy[r] = {}
  <2>1. pc[r] = "spend" /\ pos[r] \in 1..Len(tx.inputs)
    BY <1>1 DEF Inv, IInv, TypeOK, RunTypeOK, PosInv, MarkSpent
  <2>2. madeBy[r] = {}
    BY <2>1 DEF PaidInv
  <2> QED
    BY <2>1, <2>2
<1>3. UNCHANGED <<outputs, snap, madeBy>>
  BY DEF MarkSpent
<1>4. ASSUME NEW s \in Runs, s # r
      PROVE  pc'[s] = pc[s] /\ pos'[s] = pos[s] /\ spentBy'[s] = spentBy[s]
  BY <1>4 DEF MarkSpent, Advance, Reject, GoTo, Inv, TypeOK, RunTypeOK, TraceTypeOK
<1>5. \/ pc'[r] = "rejected"
      \/ /\ \A i, j \in 1..pos[r] : tx.inputs[i] = tx.inputs[j] => i = j
         /\ \/ pc'[r] = "spend" /\ pos'[r] = pos[r] + 1
            \/ pc'[r] \in {"insert", "accepted"} /\ pos[r] = Len(tx.inputs)
  <2>1. CASE Reject(r)
    BY <2>1 DEF Reject, GoTo, Inv, TypeOK, RunTypeOK
  <2>2. CASE Spendable(o) /\ Advance(r, tx.inputs, AfterSpend(tx))
    <3>1. \A i \in 1..(pos[r] - 1) : tx.inputs[i] # o
      BY <1>2, <2>2 DEF Spendable, Inv, IInv, SpendInv, TypeOK, TraceTypeOK
    <3>2. \A i, j \in 1..(pos[r] - 1) : tx.inputs[i] = tx.inputs[j] => i = j
      BY <1>2 DEF PaidInv
    <3>3. \A i \in 1..pos[r] : i \in 1..(pos[r] - 1) \/ i = pos[r]
      BY <1>2
    <3>4. \/ pc'[r] = "spend" /\ pos'[r] = pos[r] + 1
          \/ pc'[r] \in {"insert", "accepted"} /\ pos[r] = Len(tx.inputs)
      BY <1>1, <1>2, <2>2 DEF Advance, GoTo, AfterSpend, Inv, TypeOK, RunTypeOK
    <3> QED
      BY <3>1, <3>2, <3>3, <3>4
  <2> QED
    BY <2>1, <2>2 DEF MarkSpent
<1>6. pc'[r] = "insert" => PaidFor(r)'
  <2>1. ASSUME pc'[r] = "insert" PROVE IsInjective(tx.inputs)
    BY <1>1, <1>5, <2>1 DEF IsInjective
  <2>2. ASSUME Inv', pc'[r] = "insert", IsInjective(tx.inputs) PROVE PaidFor(r)'
    BY <2>2 DEF Inv, IInv, SnapInv, Resolved, SpendInv, PaidFor
  <2> QED
    BY <2>1, <2>2
<1>7. ASSUME NEW s \in Runs
      PROVE  /\ pc'[s] = "spend" =>
                  \A i, j \in 1..(pos'[s] - 1) : TxOf[s].inputs[i] = TxOf[s].inputs[j] => i = j
             /\ madeBy'[s] # {} => pc'[s] \in {"insert", "accepted", "rejected"}
             /\ pc'[s] = "insert" \/ madeBy'[s] # {} => PaidFor(s)'
  <2>1. CASE s = r
    BY <1>2, <1>3, <1>5, <1>6, <2>1
  <2>2. CASE s # r
    BY <1>3, <1>4, <2>2 DEF PaidInv, PaidFor
  <2> QED
    BY <2>1, <2>2
<1> QED
  BY <1>3, <1>7 DEF PaidInv

LEMMA PaidInsert == ASSUME Inv, Inv', PaidInv, NEW r \in Runs, InsertOutput(r) PROVE PaidInv'
<1> DEFINE tx == TxOf[r]
           p == tx.proposals[pos[r]]
<1>1. pos[r] \in DOMAIN tx.proposals
  <2>1. tx.proposals \in Seq([id : OutputIds, body : Bodies])
    BY RunAssumption
  <2>2. Len(tx.proposals) \in Nat /\ DOMAIN tx.proposals = 1..Len(tx.proposals)
    BY <2>1
  <2> QED
    BY <2>2 DEF InsertOutput, Inv, IInv, TypeOK, RunTypeOK, PosInv
<1>2. pc[r] = "insert" /\ UNCHANGED <<snap, spentBy>>
  BY DEF InsertOutput
<1>3. PaidFor(r)
  BY <1>2 DEF PaidInv
<1>4. ASSUME NEW s \in Runs PROVE PaidFor(s)' <=> PaidFor(s)
  BY <1>2 DEF PaidFor
<1>5. ASSUME NEW s \in Runs, s # r PROVE pc'[s] = pc[s] /\ pos'[s] = pos[s] /\ madeBy'[s] = madeBy[s]
  BY <1>5 DEF InsertOutput, Advance, Reject, GoTo, Inv, TypeOK, RunTypeOK, TraceTypeOK
<1>6. pc'[r] \in {"insert", "accepted", "rejected"}
  BY <1>2 DEF InsertOutput, Advance, Reject, GoTo, Inv, TypeOK, RunTypeOK
<1>7. /\ DOMAIN outputs' = DOMAIN outputs \cup (madeBy'[r] \ madeBy[r]) /\ madeBy[r] \subseteq madeBy'[r]
      /\ \A o \in DOMAIN outputs : outputs'[o] = outputs[o]
      /\ \A o \in madeBy'[r] \ madeBy[r] : o = p.id /\ outputs'[o] = p.body
  <2>1. CASE UNCHANGED <<outputs, madeBy>>
    BY <2>1
  <2>2. CASE /\ p.id \notin DOMAIN outputs /\ outputs' = Put(outputs, p.id, p.body)
             /\ madeBy' = [madeBy EXCEPT ![r] = @ \cup {p.id}]
    <3>1. DOMAIN outputs' = DOMAIN outputs \cup {p.id} /\ outputs'[p.id] = p.body
      BY <2>2 DEF Put
    <3>2. \A o \in DOMAIN outputs : outputs'[o] = outputs[o]
      BY <2>2 DEF Put
    <3>3. madeBy[r] \subseteq DOMAIN outputs /\ madeBy'[r] = madeBy[r] \cup {p.id}
      BY <2>2 DEF Inv, TypeOK, TraceTypeOK
    <3> HIDE DEF p
    <3> QED
      BY <2>2, <3>1, <3>2, <3>3
  <2> QED
    BY <2>1, <2>2 DEF InsertOutput, Vacant
<1>8. DOMAIN outputs' = DOMAIN Genesis \cup UNION {madeBy'[s] : s \in Runs}
  BY <1>5, <1>7 DEF PaidInv
<1>9. ASSUME NEW s \in Runs, NEW o \in madeBy'[s]
      PROVE  \E i \in DOMAIN TxOf[s].proposals :
               TxOf[s].proposals[i].id = o /\ TxOf[s].proposals[i].body = outputs'[o]
  <2>1. CASE o \in madeBy[s]
    <3>1. o \in DOMAIN outputs /\ outputs'[o] = outputs[o]
      BY <1>7, <2>1 DEF Inv, TypeOK, TraceTypeOK
    <3> QED
      BY <2>1, <3>1 DEF PaidInv
  <2>2. CASE o \notin madeBy[s]
    <3>1. s = r
      BY <1>5, <1>9, <2>2
    <3> QED
      BY <1>1, <1>7, <1>9, <2>2, <3>1
  <2> QED
    BY <2>1, <2>2
<1>10. ASSUME NEW s \in Runs
       PROVE  /\ pc'[s] = "spend" =>
                   \A i, j \in 1..(pos'[s] - 1) : TxOf[s].inputs[i] = TxOf[s].inputs[j] => i = j
              /\ madeBy'[s] # {} => pc'[s] \in {"insert", "accepted", "rejected"}
              /\ pc'[s] = "insert" \/ madeBy'[s] # {} => PaidFor(s)'
  <2>1. CASE s = r
    BY <1>3, <1>4, <1>6, <2>1
  <2>2. CASE s # r
    BY <1>4, <1>5, <2>2 DEF PaidInv
  <2> QED
    BY <2>1, <2>2
<1> QED
  BY <1>8, <1>9, <1>10 DEF PaidInv

\* Whatever is stored was there at the start, or its run paid for it.
THEOREM InsertsPaid == Spec => []PaidInv
<1>1. Init => PaidInv
  <2> SUFFICES ASSUME Init PROVE PaidInv
    OBVIOUS
  <2>1. UNION {madeBy[r] : r \in Runs} = {} /\ outputs = Genesis
    BY DEF Init
  <2> QED
    BY <2>1 DEF Init, PaidInv
<1>2. ASSUME Inv, Inv', PaidInv, [Next]_vars PROVE PaidInv'
  <2>1. ASSUME NEW r \in Runs, Begin(r) \/ Prepare(r) PROVE PaidInv'
    <3>1. /\ UNCHANGED <<outputs, spentBy, madeBy>> /\ madeBy[r] = {}
          /\ \A s \in Runs : s # r => pc'[s] = pc[s] /\ pos'[s] = pos[s] /\ snap'[s] = snap[s]
          /\ pc'[r] = "spend" => pos'[r] = 1
          /\ pc'[r] = "insert" => TxOf[r].inputs = << >>
      BY <1>2, <2>1, BeforeWrites
    <3>2. pc'[r] = "insert" => PaidFor(r)'
      BY <1>2, <3>1 DEF Inv, IInv, SnapInv, Resolved, SpendInv, PaidFor, IsInjective
    <3>3. ASSUME NEW s \in Runs
          PROVE  /\ pc'[s] = "spend" =>
                      \A i, j \in 1..(pos'[s] - 1) : TxOf[s].inputs[i] = TxOf[s].inputs[j] => i = j
                 /\ madeBy'[s] # {} => pc'[s] \in {"insert", "accepted", "rejected"}
                 /\ pc'[s] = "insert" \/ madeBy'[s] # {} => PaidFor(s)'
      <4>1. CASE s = r
        BY <3>1, <3>2, <4>1
      <4>2. CASE s # r
        BY <1>2, <3>1, <4>2 DEF PaidInv, PaidFor
      <4> QED
        BY <4>1, <4>2
    <3> QED
      BY <1>2, <3>1, <3>3 DEF PaidInv
  <2>2. ASSUME Tick \/ UNCHANGED vars PROVE PaidInv'
    <3>1. UNCHANGED <<outputs, pc, pos, snap, spentBy, madeBy>>
      BY <2>2 DEF Tick, vars, storeVars, runVars, traceVars
    <3>2. \A s \in Runs : PaidFor(s)' <=> PaidFor(s)
      BY <3>1 DEF PaidFor
    <3> QED
      BY <1>2, <3>1, <3>2 DEF PaidInv
  <2> QED
    BY <1>2, <2>1, <2>2, PaidSpend, PaidInsert DEF Next, RunStep
<1> QED
  BY <1>1, <1>2, Invariant, PTL DEF Spec

\* How much of an asset an output and a body hold.
Worth(a) == [o \in DOMAIN outputs |-> IF a \in DOMAIN outputs[o].res THEN outputs[o].res[a].n ELSE 0]
Content(bodies, a) ==
  [i \in DOMAIN bodies |-> IF a \in DOMAIN bodies[i].res THEN bodies[i].res[a].n ELSE 0]

LEMMA WorthNat == ASSUME Inv, NEW a PROVE Worth(a) \in [DOMAIN outputs -> Nat]
  BY ResourceAssumption DEF Worth, Inv, TypeOK, StoreTypeOK

LEMMA ContentNat == ASSUME NEW bodies \in Seq(Bodies), NEW a PROVE Content(bodies, a) \in [DOMAIN bodies -> Nat]
  BY ResourceAssumption DEF Content

LEMMA StoreFinite == ASSUME PaidInv PROVE IsFiniteSet(DOMAIN outputs)
<1>1. ASSUME NEW r \in Runs PROVE IsFiniteSet(madeBy[r])
  <2> DEFINE list == TxOf[r].proposals
             one == [i \in DOMAIN list |-> {list[i].id}]
  <2>1. IsFiniteSet(DOMAIN list)
    <3>1. list \in Seq([id : OutputIds, body : Bodies])
      BY RunAssumption
    <3>2. DOMAIN list = 1..Len(list) /\ Len(list) \in Int
      BY <3>1
    <3> QED
      BY <3>2, FS_Interval
  <2>2. \A i \in DOMAIN list : IsFiniteSet(one[i])
    BY FS_Singleton
  <2>3. IsFiniteSet(UNION {one[i] : i \in DOMAIN list})
    <3> HIDE DEF one
    <3> QED
      BY <2>1, <2>2, UnionFinite
  <2>4. madeBy[r] \subseteq UNION {one[i] : i \in DOMAIN list}
    BY DEF PaidInv
  <2> QED
    BY <2>3, <2>4, FS_Subset
<1> DEFINE made == UNION {madeBy[r] : r \in Runs}
<1>2. IsFiniteSet(made)
  BY <1>1, UnionFinite, FiniteAssumption
<1>3. DOMAIN outputs = DOMAIN Genesis \cup made
  BY DEF PaidInv
<1> HIDE DEF made
<1> QED
  BY <1>2, <1>3, FS_Union, FiniteAssumption

\* What is held is a sum over the outputs.
LEMMA HeldIsSum ==
  ASSUME IsFiniteSet(DOMAIN outputs), NEW a, NEW sum, Sums(sum, DOMAIN outputs, Worth(a)),
         NEW ids \in SUBSET DOMAIN outputs
  PROVE  HeldIn(ids, a) = sum[ids]
<1> DEFINE Body(f, s) == IF s = {} THEN 0
                         ELSE LET x == CHOOSE x \in s : TRUE
                              IN  (IF a \in DOMAIN outputs[x].res THEN outputs[x].res[a].n ELSE 0) + f[s \ {x}]
           iter == CHOOSE f : f = [s \in SUBSET ids |-> Body(f, s)]
<1>1. HeldIn(ids, a) = iter[ids]
  BY DEF HeldIn, MapThenSumSet, MapThenFoldSet
<1> DEFINE pick == [s \in SUBSET ids |-> CHOOSE x \in s : TRUE]
<1>2. Picks(pick, ids)
  BY DEF Picks
<1>3. ASSUME NEW f, NEW s \in SUBSET ids
      PROVE  Body(f, s) = IF s = {} THEN 0 ELSE Worth(a)[pick[s]] + f[s \ {pick[s]}]
  BY DEF Worth
<1> HIDE DEF Body, pick
<1>4. iter = [s \in SUBSET ids |-> Body(iter, s)]
  <2> DEFINE g == [s \in SUBSET ids |-> sum[s]]
  <2>1. ASSUME NEW s \in SUBSET ids PROVE g[s] = Body(g, s)
    <3>1. CASE s = {}
      BY <1>3, <3>1 DEF Sums
    <3>2. CASE s # {}
      <4>1. pick[s] \in s
        BY <1>2, <3>2 DEF Picks
      <4>2. sum[s] = Worth(a)[pick[s]] + sum[s \ {pick[s]}]
        BY <4>1 DEF Sums
      <4>3. g[s] = sum[s] /\ g[s \ {pick[s]}] = sum[s \ {pick[s]}]
        OBVIOUS
      <4>4. Body(g, s) = Worth(a)[pick[s]] + g[s \ {pick[s]}]
        BY <1>3, <3>2
      <4> QED
        BY <4>2, <4>3, <4>4
    <3> QED
      BY <3>1, <3>2
  <2>2. g = [s \in SUBSET ids |-> Body(g, s)]
    BY <2>1
  <2> QED
    BY <2>2
<1> HIDE DEF iter
<1>5. AddsUp(iter, ids, Worth(a), pick)
  BY <1>3, <1>4 DEF AddsUp
<1>6. iter[ids] = sum[ids]
  BY <1>2, <1>5, FoldIsSum
<1> QED
  BY <1>1, <1>6

\* What a counter counts is a sum over the bodies that hold the asset, of some kind.
Counted(bodies, a, kinds) ==
  {i \in DOMAIN bodies : a \in DOMAIN bodies[i].res /\ bodies[i].res[a].kind \in kinds}

LEMMA CounterIsSum ==
  ASSUME NEW bodies, IsFiniteSet(DOMAIN bodies), NEW a, NEW kinds,
         NEW sum, Sums(sum, DOMAIN bodies, Content(bodies, a))
  PROVE  Counter(bodies, a, kinds) = sum[Counted(bodies, a, kinds)]
<1> DEFINE set == Counted(bodies, a, kinds)
           Body(f, s) == IF s = {} THEN 0
                         ELSE LET x == CHOOSE x \in s : TRUE IN bodies[x].res[a].n + f[s \ {x}]
           iter == CHOOSE f : f = [s \in SUBSET set |-> Body(f, s)]
<1>1. Counter(bodies, a, kinds) = iter[set]
  BY DEF Counter, Counted, MapThenSumSet, MapThenFoldSet
<1> DEFINE pick == [s \in SUBSET set |-> CHOOSE x \in s : TRUE]
<1>2. Picks(pick, set)
  BY DEF Picks
<1>3. ASSUME NEW f, NEW s \in SUBSET set
      PROVE  Body(f, s) = IF s = {} THEN 0 ELSE Content(bodies, a)[pick[s]] + f[s \ {pick[s]}]
  <2>1. CASE s = {}
    BY <2>1
  <2>2. CASE s # {}
    <3>1. pick[s] \in set
      BY <1>2, <2>2 DEF Picks
    <3>2. Content(bodies, a)[pick[s]] = bodies[pick[s]].res[a].n
      BY <3>1 DEF Content, Counted
    <3> QED
      BY <2>2, <3>2
  <2> QED
    BY <2>1, <2>2
<1> HIDE DEF Body, pick
<1>4. iter = [s \in SUBSET set |-> Body(iter, s)]
  <2> DEFINE g == [s \in SUBSET set |-> sum[s]]
  <2>1. ASSUME NEW s \in SUBSET set PROVE g[s] = Body(g, s)
    <3>1. CASE s = {}
      BY <1>3, <3>1 DEF Sums
    <3>2. CASE s # {}
      <4>1. pick[s] \in s /\ s \in SUBSET DOMAIN bodies
        BY <1>2, <3>2 DEF Picks, Counted
      <4>2. sum[s] = Content(bodies, a)[pick[s]] + sum[s \ {pick[s]}]
        BY <4>1 DEF Sums
      <4>3. g[s] = sum[s] /\ g[s \ {pick[s]}] = sum[s \ {pick[s]}]
        OBVIOUS
      <4>4. Body(g, s) = Content(bodies, a)[pick[s]] + g[s \ {pick[s]}]
        BY <1>3, <3>2
      <4> QED
        BY <4>2, <4>3, <4>4
    <3> QED
      BY <3>1, <3>2
  <2>2. g = [s \in SUBSET set |-> Body(g, s)]
    BY <2>1
  <2> QED
    BY <2>2
<1> HIDE DEF iter
<1>5. AddsUp(iter, set, Content(bodies, a), pick)
  BY <1>3, <1>4 DEF AddsUp
<1>6. set \in SUBSET DOMAIN bodies
  BY DEF Counted
<1>7. iter[set] = sum[set]
  BY <1>2, <1>5, <1>6, FoldIsSum
<1> QED
  BY <1>1, <1>7

\* The resources of an asset are of one kind in all bodies of a transaction, and
\* all kinds but amounts are counted together.
LEMMA KindsOfAsset ==
  ASSUME NEW ins \in Seq(Bodies), NEW outs \in Seq(Bodies), NEW a, AggregateResources(ins, outs)
  PROVE  \E kinds \in {{"Amount"}, {"Data", "Ref", "RefBatch"}} :
           /\ \A i \in DOMAIN ins : a \in DOMAIN ins[i].res => ins[i].res[a].kind \in kinds
           /\ \A i \in DOMAIN outs : a \in DOMAIN outs[i].res => outs[i].res[a].kind \in kinds
<1> DEFINE V == ValuesOf(ins, a) \cup ValuesOf(outs, a)
<1>1. /\ \A i \in DOMAIN ins : a \in DOMAIN ins[i].res => ins[i].res[a] \in V
      /\ \A i \in DOMAIN outs : a \in DOMAIN outs[i].res => outs[i].res[a] \in V
  BY DEF ValuesOf
<1>2. \A v \in V : v.kind \in ResourceKinds
  <2>1. ASSUME NEW list \in Seq(Bodies), NEW v \in ValuesOf(list, a) PROVE v.kind \in ResourceKinds
    <3>1. PICK i \in DOMAIN list : a \in DOMAIN list[i].res /\ v = list[i].res[a]
      BY DEF ValuesOf
    <3>2. list[i] \in Bodies
      OBVIOUS
    <3>3. v \in [kind : ResourceKinds, n : Nat]
      BY <3>1, <3>2, ResourceAssumption
    <3> QED
      BY <3>3
  <2> QED
    BY <2>1
<1>3. \A v, w \in V : v.kind = w.kind
  <2>1. CASE a \in AssetsOf(ins) \cup AssetsOf(outs)
    BY <2>1 DEF AggregateResources
  <2>2. CASE a \notin AssetsOf(ins) \cup AssetsOf(outs)
    <3>1. V = {}
      BY <2>2 DEF ValuesOf, AssetsOf
    <3> QED
      BY <3>1
  <2> QED
    BY <2>1, <2>2
<1> HIDE DEF V
<1>4. \E kinds \in {{"Amount"}, {"Data", "Ref", "RefBatch"}} : \A v \in V : v.kind \in kinds
  BY <1>2, <1>3 DEF ResourceKinds
<1> QED
  BY <1>1, <1>4

\* What a transaction proposes of an asset is no more than what its inputs hold.
LEMMA CountedLess ==
  ASSUME NEW tx, tx.command # "Mint", NEW ins \in Seq(Bodies), ProposedBodies(tx) \in Seq(Bodies),
         CheckResources(tx, ins), NEW a \in AssetsOf(ProposedBodies(tx)),
         NEW kinds \in {{"Amount"}, {"Data", "Ref", "RefBatch"}}
  PROVE  Counter(ProposedBodies(tx), a, kinds) <= Counter(ins, a, kinds)
  BY DEF CheckResources, AmountOf, ItemsOf

\* What a run inserted of an asset is no more than what it marked spent.
LEMMA RunPays ==
  ASSUME Inv, PaidInv, IsFiniteSet(DOMAIN outputs), NEW a, NEW sum, Sums(sum, DOMAIN outputs, Worth(a)),
         NEW r \in Runs, TxOf[r].command # "Mint"
  PROVE  sum[madeBy[r]] <= sum[spentBy[r]]
<1> DEFINE tx == TxOf[r]
           ins == snap[r]
           outs == ProposedBodies(tx)
           D == DOMAIN outputs
           w == Worth(a)
           made == {o \in madeBy[r] : a \in DOMAIN outputs[o].res}
           rest == madeBy[r] \ made
<1>1. /\ made \in SUBSET D /\ rest \in SUBSET D /\ madeBy[r] \in SUBSET D /\ spentBy[r] \in SUBSET D
      /\ w \in [D -> Nat]
  BY WorthNat DEF Inv, TypeOK, TraceTypeOK, StoreTypeOK
<1>2. sum[madeBy[r]] = sum[made] + sum[rest]
  <2>1. made \cap rest = {} /\ made \cup rest = madeBy[r]
    OBVIOUS
  <2>2. IsFiniteSet(D) /\ Sums(sum, D, w) /\ w \in [D -> Nat] /\ made \in SUBSET D /\ rest \in SUBSET D
    BY <1>1
  <2> HIDE DEF made, rest, w, D
  <2>3. sum[made \cup rest] = sum[made] + sum[rest]
    BY <2>1, <2>2, SumSplit
  <2> QED
    BY <2>1, <2>3
<1>3. sum[rest] = 0
  <2> DEFINE A == {s \in SUBSET rest : sum[s] = 0}
  <2>1. {} \in A
    BY DEF Sums
  <2>2. ASSUME NEW s \in SUBSET rest, s # {}, \A x \in s : s \ {x} \in A PROVE s \in A
    <3>1. PICK x \in s : TRUE
      BY <2>2
    <3>2. w[x] = 0 /\ s \in SUBSET D
      BY <1>1 DEF Worth
    <3>3. sum[s] = w[x] + sum[s \ {x}] /\ sum[s \ {x}] = 0
      BY <2>2, <3>1, <3>2 DEF Sums
    <3> QED
      BY <3>2, <3>3
  <2>3. IsFiniteSet(rest)
    BY <1>1, FS_Subset
  <2> HIDE DEF A, rest
  <2>4. SUBSET rest \subseteq A
    BY <2>1, <2>2, <2>3, AllSubsets
  <2> QED
    BY <2>4 DEF A
<1>4. CASE made = {}
  <2>1. sum[made] = 0 /\ sum[spentBy[r]] \in Nat
    BY <1>1, <1>4 DEF Sums
  <2> HIDE DEF made, rest
  <2> QED
    BY <1>2, <1>3, <2>1
<1>5. CASE made # {}
  <2>1. PaidFor(r) /\ ins \in Seq(Bodies) /\ tx.proposals \in Seq([id : OutputIds, body : Bodies])
    BY <1>5, RunAssumption DEF PaidInv, Inv, TypeOK, RunTypeOK
  <2>2. /\ outs \in Seq(Bodies) /\ DOMAIN outs = DOMAIN tx.proposals
        /\ \A i \in DOMAIN outs : outs[i] = tx.proposals[i].body
    <3>1. DOMAIN tx.proposals = 1..Len(tx.proposals) /\ Len(tx.proposals) \in Nat
      BY <2>1
    <3>2. outs = [i \in 1..Len(tx.proposals) |-> tx.proposals[i].body]
      BY <3>1 DEF ProposedBodies
    <3>3. ASSUME NEW i \in 1..Len(tx.proposals) PROVE tx.proposals[i].body \in Bodies
      <4>1. tx.proposals[i] \in [id : OutputIds, body : Bodies]
        BY <2>1, <3>1, SeqItem
      <4> QED
        BY <4>1
    <3> HIDE DEF outs
    <3>4. outs \in [1..Len(tx.proposals) -> Bodies]
      BY <3>2, <3>3
    <3>5. outs \in Seq(Bodies)
      BY <3>1, <3>4
    <3> QED
      BY <3>1, <3>2, <3>5
  <2>3. IsFiniteSet(DOMAIN ins) /\ IsFiniteSet(DOMAIN outs)
    BY <2>1, <2>2, FinitePlaces
  <2>4. CheckResources(tx, ins) /\ AggregateResources(ins, outs)
    BY <2>1 DEF PaidFor, ValidResolved, CheckResources
  <2>5. PICK kinds \in {{"Amount"}, {"Data", "Ref", "RefBatch"}} :
          /\ \A i \in DOMAIN ins : a \in DOMAIN ins[i].res => ins[i].res[a].kind \in kinds
          /\ \A i \in DOMAIN outs : a \in DOMAIN outs[i].res => outs[i].res[a].kind \in kinds
    <3> HIDE DEF ins, outs
    <3> QED
      BY <2>1, <2>2, <2>4, KindsOfAsset
  <2>6. \A o \in made : \E i \in DOMAIN outs : tx.proposals[i].id = o /\ outs[i] = outputs[o]
    BY <2>2 DEF PaidInv
  <2>7. a \in AssetsOf(outs)
    BY <1>5, <2>6 DEF AssetsOf
  <2> DEFINE P == Counted(outs, a, kinds)
             Q == Counted(ins, a, kinds)
  <2>8. PICK left : Sums(left, DOMAIN outs, Content(outs, a))
    BY <2>2, <2>3, ContentNat, SumExists
  <2>9. PICK right : Sums(right, DOMAIN ins, Content(ins, a))
    BY <2>1, <2>3, ContentNat, SumExists
  <2>10. left[P] <= right[Q]
    <3>1. Counter(outs, a, kinds) <= Counter(ins, a, kinds)
      BY <2>1, <2>2, <2>4, <2>5, <2>7, CountedLess
    <3>2. Counter(outs, a, kinds) = left[P] /\ Counter(ins, a, kinds) = right[Q]
      BY <2>3, <2>8, <2>9, CounterIsSum
    <3> QED
      BY <3>1, <3>2
  <2>11. sum[made] <= left[P]
    <3> DEFINE g == [o \in made |-> CHOOSE i \in DOMAIN outs : tx.proposals[i].id = o /\ outs[i] = outputs[o]]
    <3>1. \A o \in made : g[o] \in DOMAIN outs /\ tx.proposals[g[o]].id = o /\ outs[g[o]] = outputs[o]
      BY <2>6
    <3> HIDE DEF g
    <3>2. \A o \in made : g[o] \in P /\ w[o] <= Content(outs, a)[g[o]]
      BY <1>1, <2>5, <3>1 DEF Counted, Worth, Content
    <3>3. g \in [made -> P] /\ P \in SUBSET DOMAIN outs
      BY <3>2 DEF g, Counted
    <3>4. \A x, y \in made : g[x] = g[y] => x = y
      BY <3>1
    <3>5. Content(outs, a) \in [DOMAIN outs -> Nat]
      BY <2>2, ContentNat
    <3> HIDE DEF made, w, D, P, outs
    <3> QED
      BY <1>1, <2>3, <2>8, <3>2, <3>3, <3>4, <3>5, SumInjected DEF w, D
  <2>12. right[Q] <= sum[spentBy[r]]
    <3> DEFINE g == [i \in Q |-> tx.inputs[i]]
    <3>1. \A i \in Q : i \in DOMAIN ins /\ i \in DOMAIN tx.inputs /\ ins[i] = outputs[tx.inputs[i]]
      BY DEF Counted, Inv, IInv, SnapInv, Resolved
    <3>2. ASSUME NEW i \in Q PROVE g[i] \in spentBy[r] /\ Content(ins, a)[i] <= w[g[i]]
      <4>1. g[i] = tx.inputs[i] /\ g[i] \in spentBy[r] /\ g[i] \in D /\ ins[i] = outputs[g[i]]
        BY <1>1, <2>1, <3>1 DEF PaidFor
      <4>2. a \in DOMAIN ins[i].res /\ Content(ins, a)[i] = ins[i].res[a].n
        BY <3>1 DEF Counted, Content
      <4>3. w[g[i]] = ins[i].res[a].n /\ w[g[i]] \in Nat
        BY <1>1, <4>1, <4>2 DEF Worth
      <4> QED
        BY <4>1, <4>2, <4>3
    <3>3. g \in [Q -> spentBy[r]] /\ Q \in SUBSET DOMAIN ins
      BY <3>2 DEF Counted
    <3>4. \A x, y \in Q : g[x] = g[y] => x = y
      BY <2>1, <3>1 DEF PaidFor, IsInjective
    <3>5. Content(ins, a) \in [DOMAIN ins -> Nat]
      BY <2>1, ContentNat
    <3> HIDE DEF g, w, D, Q, ins
    <3> QED
      BY <1>1, <2>3, <2>9, <3>2, <3>3, <3>4, <3>5, SumInjected DEF w, D
  <2>13. sum[made] \in Nat /\ sum[spentBy[r]] \in Nat /\ left[P] \in Nat /\ right[Q] \in Nat
    BY <1>1, <2>8, <2>9 DEF Sums, Counted
  <2> HIDE DEF made, rest, P, Q
  <2> QED
    BY <1>2, <1>3, <2>10, <2>11, <2>12, <2>13
<1> QED
  BY <1>4, <1>5

\* What all runs inserted but by minting is no more than what all runs marked spent.
LEMMA AllRunsPay ==
  ASSUME Inv, PaidInv, IsFiniteSet(DOMAIN outputs), NEW a, NEW sum, Sums(sum, DOMAIN outputs, Worth(a))
  PROVE  LET payers == {r \in Runs : TxOf[r].command # "Mint"}
         IN  sum[UNION {madeBy[r] : r \in payers}] <= sum[UNION {spentBy[r] : r \in payers}]
<1> DEFINE payers == {r \in Runs : TxOf[r].command # "Mint"}
           D == DOMAIN outputs
           w == Worth(a)
           Made(s) == UNION {madeBy[r] : r \in s}
           Paid(s) == UNION {spentBy[r] : r \in s}
           A == {s \in SUBSET payers : sum[Made(s)] <= sum[Paid(s)]}
<1>1. IsFiniteSet(D) /\ Sums(sum, D, w) /\ w \in [D -> Nat]
  BY WorthNat
<1>2. \A r \in Runs : madeBy[r] \in SUBSET D /\ spentBy[r] \in SUBSET D
  BY DEF Inv, TypeOK, TraceTypeOK, StoreTypeOK
<1>3. {} \in A
  <2>1. Made({}) = {} /\ Paid({}) = {} /\ sum[{}] = 0
    BY DEF Sums
  <2>2. sum[Made({})] <= sum[Paid({})]
    BY <2>1
  <2> QED
    BY <2>2
<1>4. ASSUME NEW s \in SUBSET payers, s # {}, \A r \in s : s \ {r} \in A PROVE s \in A
  <2>1. PICK r \in s : TRUE
    BY <1>4
  <2> DEFINE t == s \ {r}
  <2>2. /\ Made(s) = Made(t) \cup madeBy[r] /\ Paid(s) = Paid(t) \cup spentBy[r]
        /\ Made(t) \in SUBSET D /\ Paid(t) \in SUBSET D /\ madeBy[r] \in SUBSET D /\ spentBy[r] \in SUBSET D
    <3>1. s \subseteq Runs /\ r \in Runs /\ s = t \cup {r}
      OBVIOUS
    <3> QED
      BY <1>2, <3>1
  <2>3. Paid(t) \cap spentBy[r] = {}
    BY DEF Inv, IInv, SpendInv
  <2>4. sum[madeBy[r]] <= sum[spentBy[r]]
    BY RunPays
  <2>5. sum[Made(t)] <= sum[Paid(t)]
    BY <1>4, <2>1
  <2> HIDE DEF Made, Paid, t, w, D
  <2>6. sum[Made(t) \cup madeBy[r]] <= sum[Made(t)] + sum[madeBy[r]]
    BY <1>1, <2>2, SumBounds
  <2>7. sum[Paid(t) \cup spentBy[r]] = sum[Paid(t)] + sum[spentBy[r]]
    <3> DEFINE p == Paid(t)
               q == spentBy[r]
    <3>1. p \in SUBSET D /\ q \in SUBSET D /\ p \cap q = {}
      BY <2>2, <2>3
    <3> HIDE DEF p, q
    <3>2. sum[p \cup q] = sum[p] + sum[q]
      BY <1>1, <3>1, SumSplit
    <3> QED
      BY <3>2 DEF p, q
  <2>8. /\ Made(t) \cup madeBy[r] \in SUBSET D
        /\ sum[Made(t)] \in Nat /\ sum[madeBy[r]] \in Nat /\ sum[Paid(t)] \in Nat /\ sum[spentBy[r]] \in Nat
        /\ sum[Made(t) \cup madeBy[r]] \in Nat
    BY <1>1, <2>2 DEF Sums
  <2>9. sum[Made(s)] <= sum[Paid(s)]
    BY <2>2, <2>4, <2>5, <2>6, <2>7, <2>8
  <2> QED
    BY <2>9
<1>5. IsFiniteSet(payers)
  BY FiniteAssumption, FS_Subset
<1>6. SUBSET payers \subseteq A
  <2> HIDE DEF A, payers
  <2> QED
    BY <1>3, <1>4, <1>5, AllSubsets
<1> QED
  BY <1>6

\* The unspent outputs hold no more of an asset than the start and the mints put
\* there: whatever a run inserts it has paid for, with outputs nobody else paid with.
THEOREM InflationFree == Spec => []NoInflation
<1>1. ASSUME Inv, PaidInv PROVE NoInflation
  <2> SUFFICES ASSUME NEW a \in Assets
               PROVE  HeldIn(DOMAIN outputs \ spent, a) <= HeldIn(DOMAIN Genesis \cup MintedIds, a)
    BY DEF NoInflation
  <2> DEFINE D == DOMAIN outputs
             w == Worth(a)
             given == DOMAIN Genesis \cup MintedIds
             payers == {r \in Runs : TxOf[r].command # "Mint"}
             made == UNION {madeBy[r] : r \in payers}
             paid == UNION {spentBy[r] : r \in payers}
             live == D \ spent
  <2>1. IsFiniteSet(D) /\ w \in [D -> Nat]
    BY <1>1, StoreFinite, WorthNat
  <2>2. PICK sum : Sums(sum, D, w)
    BY <2>1, SumExists
  <2>3. D = given \cup made
    BY <1>1 DEF PaidInv, MintedIds
  <2>4. paid \subseteq spent /\ spent \subseteq D
    BY <1>1 DEF Inv, TypeOK, TraceTypeOK, StoreTypeOK
  <2>5. HeldIn(live, a) = sum[live] /\ HeldIn(given, a) = sum[given]
    BY <2>1, <2>2, <2>3, HeldIsSum
  <2>6. sum[made] <= sum[paid]
    BY <1>1, <2>1, <2>2, AllRunsPay
  <2>7. live \cap spent = {} /\ live \cup spent = D /\ live \in SUBSET D
    BY <2>4
  <2> HIDE DEF w, given, made, paid, live
  <2>8. sum[D] = sum[live] + sum[spent]
    BY <2>1, <2>2, <2>4, <2>7, SumSplit
  <2>9. sum[D] <= sum[given] + sum[made]
    BY <2>1, <2>2, <2>3, SumBounds
  <2>10. sum[paid] <= sum[spent]
    BY <2>1, <2>2, <2>4, SumBounds
  <2>11. \A s \in {D, live, spent, given, made, paid} : sum[s] \in Nat
    BY <2>2, <2>3, <2>4, <2>7 DEF Sums
  <2>12. sum[live] <= sum[given]
    <3> DEFINE all == sum[D]
               l == sum[live]
               s == sum[spent]
               g == sum[given]
               m == sum[made]
               p == sum[paid]
    <3>1. all = l + s /\ all <= g + m /\ p <= s /\ m <= p /\ \A n \in {all, l, s, g, m, p} : n \in Nat
      BY <2>6, <2>8, <2>9, <2>10, <2>11
    <3> HIDE DEF all, l, s, g, m, p
    <3>2. l <= g
      BY <3>1
    <3> QED
      BY <3>2 DEF l, g
  <2> QED
    BY <2>5, <2>12 DEF live, given
<1> QED
  BY <1>1, Invariant, InsertsPaid, PTL

-----------------------------------------------------------------------------
(* The plan *)

\* The items a flush has planned.
Taken(f) == {drained[f][i] : i \in 1..planned[f]}

PlanTypeOK ==
  /\ drained \in [Flushes -> Seq(Runs)]
  /\ stage \in [Flushes -> {"plan", "run", "done"}]
  /\ planned \in [Flushes -> Nat] /\ turn \in [Flushes -> Nat \ {0}]
  /\ groups \in [Flushes -> Seq(Seq(Runs))] /\ fallback \in [Flushes -> Seq(Runs)]
  /\ DOMAIN access \subseteq Runs

\* An item is planned once, and its access set is the one of its transaction.
PlanInv ==
  /\ \A e, f \in Flushes : \A i \in DOMAIN drained[e], j \in DOMAIN drained[f] :
       drained[e][i] = drained[f][j] => e = f /\ i = j
  /\ \A f \in Flushes :
       /\ planned[f] <= Len(drained[f])
       /\ stage[f] = "plan" => planned[f] < Len(drained[f])
       /\ \A g \in DOMAIN groups[f] : Items(groups[f][g]) \subseteq Taken(f) \cap DOMAIN access
  /\ \A r \in DOMAIN access : /\ access[r].readOutputs = ReadIds(TxOf[r])
                              /\ access[r].writeOutputs = InputIds(TxOf[r]) \cup ProposalIds(TxOf[r])
                                                            \cup Predecessors(TxOf[r])

BatchInv == PlanTypeOK /\ PlanInv /\ GroupsConflictFree

\* Placing a run keeps the groups as they are but for one, which ends with the run
\* and conflicts with it nowhere.
LEMMA Places ==
  ASSUME NEW plan \in Seq(Seq(Runs)), NEW r \in Runs, NEW acc
  PROVE  /\ Place(plan, r, acc) \in Seq(Seq(Runs))
         /\ \A g \in DOMAIN Place(plan, r, acc) :
              LET new == Place(plan, r, acc)[g]
              IN  \/ new = <<r>>
                  \/ g \in DOMAIN plan /\ new = plan[g]
                  \/ g \in DOMAIN plan /\ Takes(plan[g], r, acc) /\ new = Append(plan[g], r)
<1> DEFINE fits == {g \in DOMAIN plan : Takes(plan[g], r, acc)}
           first == CHOOSE g \in fits : \A h \in fits : g <= h
<1>1. DOMAIN plan = 1..Len(plan) /\ Len(plan) \in Nat
  OBVIOUS
<1>2. CASE fits = {}
  <2>1. Place(plan, r, acc) = Append(plan, <<r>>)
    BY <1>2 DEF Place
  <2>2. <<r>> \in Seq(Runs)
    OBVIOUS
  <2> DEFINE T == Seq(Runs)
  <2>3. plan \in Seq(T) /\ <<r>> \in T
    BY <2>2
  <2> HIDE DEF T, fits
  <2>4. Append(plan, <<r>>) \in Seq(T)
    BY <2>3
  <2>5. \A g \in DOMAIN Append(plan, <<r>>) :
          Append(plan, <<r>>)[g] = <<r>> \/ (g \in DOMAIN plan /\ Append(plan, <<r>>)[g] = plan[g])
    BY <2>3
  <2> QED
    BY <2>1, <2>4, <2>5 DEF T
<1>3. CASE fits # {}
  <2>1. first \in fits
    <3>1. fits \subseteq Nat
      BY <1>1
    <3>2. Min(fits) \in fits /\ \A h \in fits : Min(fits) <= h
      <4> HIDE DEF fits
      <4> QED
        BY <1>3, <3>1, LeastOf
    <3> QED
      BY <3>2
  <2>2. Place(plan, r, acc) = [plan EXCEPT ![first] = Append(plan[first], r)]
    BY <1>3 DEF Place
  <2>3. first \in DOMAIN plan /\ Takes(plan[first], r, acc)
    BY <2>1
  <2> HIDE DEF first, fits
  <2>4. Append(plan[first], r) \in Seq(Runs)
    BY <2>3
  <2> DEFINE T == Seq(Runs)
             a == Append(plan[first], r)
  <2>5. plan \in Seq(T) /\ a \in T
    BY <2>4
  <2> HIDE DEF T, a
  <2>6. [plan EXCEPT ![first] = a] \in Seq(T)
    BY <2>3, <2>5
  <2>7. \A g \in DOMAIN [plan EXCEPT ![first] = a] :
          g \in DOMAIN plan /\ [plan EXCEPT ![first] = a][g] = IF g = first THEN a ELSE plan[g]
    BY <2>3
  <2> QED
    BY <2>2, <2>3, <2>6, <2>7 DEF T, a
<1> QED
  BY <1>2, <1>3

LEMMA BatchInitInv == BatchInit => BatchInv
<1> SUFFICES ASSUME BatchInit PROVE BatchInv
  OBVIOUS
<1> USE DEF BatchInit
<1>1. drained \in [Flushes -> Seq(Runs)]
  BY BatchAssumption
<1>2. PlanTypeOK
  BY <1>1 DEF PlanTypeOK
<1>3. PlanInv
  <2>1. \A e, f \in Flushes : \A i \in DOMAIN drained[e], j \in DOMAIN drained[f] :
          drained[e][i] = drained[f][j] => e = f /\ i = j
    BY BatchAssumption
  <2>2. \A f \in Flushes : Len(drained[f]) \in Nat /\ (drained[f] # << >> => 0 < Len(drained[f]))
    BY <1>1
  <2> QED
    BY <2>1, <2>2 DEF PlanInv
<1>4. GroupsConflictFree
  BY DEF GroupsConflictFree
<1> QED
  BY <1>2, <1>3, <1>4 DEF BatchInv

LEMMA PlanItemInv ==
  ASSUME BatchInv, NEW f \in Flushes, PlanItem(f)
  PROVE  BatchInv'
<1> DEFINE n == planned[f] + 1
           r == drained[f][n]
           set == AccessSet(TxOf[r], outputs)
           known == Put(access, r, set)
<1> USE DEF BatchInv
<1>1. /\ n \in DOMAIN drained[f] /\ r \in Runs /\ planned[f] \in Nat
      /\ drained' = drained /\ turn' = turn
      /\ planned' = [planned EXCEPT ![f] = n] /\ UNCHANGED vars
  BY DEF PlanItem, PlanTypeOK, PlanInv
<1>2. stage' = [stage EXCEPT ![f] = IF ChunkFull(f, n) THEN "run" ELSE "plan"]
  BY DEF PlanItem
<1>3. /\ planned' \in [Flushes -> Nat] /\ stage' \in [Flushes -> {"plan", "run", "done"}]
      /\ drained' \in [Flushes -> Seq(Runs)] /\ turn' \in [Flushes -> Nat \ {0}]
  BY <1>1, <1>2 DEF PlanTypeOK
<1>4. Len(drained[f]) \in Nat /\ DOMAIN drained[f] = 1..Len(drained[f])
  BY DEF PlanTypeOK
<1>5. ASSUME NEW e \in Flushes
      PROVE  /\ planned'[e] <= Len(drained'[e])
             /\ stage'[e] = "plan" => planned'[e] < Len(drained'[e])
             /\ Taken(e) \subseteq Taken(e)' /\ r \notin Taken(e) /\ (e = f => r \in Taken(e)')
  <2>1. planned[e] \in Nat /\ DOMAIN drained[e] = 1..Len(drained[e]) /\ Len(drained[e]) \in Nat
        /\ planned[e] <= Len(drained[e])
    BY DEF PlanTypeOK, PlanInv
  <2>2. r \notin Taken(e)
    <3>1. ASSUME NEW i \in 1..planned[e], drained[e][i] = r PROVE FALSE
      <4>1. i \in DOMAIN drained[e]
        BY <2>1
      <4>2. e = f /\ i = n
        BY <1>1, <3>1, <4>1 DEF PlanInv
      <4> QED
        BY <1>1, <4>2
    <3> QED
      BY <3>1 DEF Taken
  <2>3. CASE e # f
    <3>1. planned'[e] = planned[e] /\ stage'[e] = stage[e] /\ drained'[e] = drained[e]
      BY <1>1, <1>2, <2>3 DEF PlanTypeOK
    <3> QED
      BY <2>2, <2>3, <3>1 DEF PlanInv, Taken
  <2>4. CASE e = f
    <3>1. planned'[f] = n /\ (stage'[f] = "plan" => ~ChunkFull(f, n))
      BY <1>1, <1>2 DEF PlanTypeOK
    <3>2. n <= Len(drained[f]) /\ (~ChunkFull(f, n) => n < Len(drained[f]))
      BY <1>1, <1>4 DEF ChunkFull
    <3>3. Taken(f) \subseteq Taken(f)' /\ r \in Taken(f)'
      BY <1>1, <3>1 DEF Taken
    <3> QED
      BY <1>1, <2>2, <2>4, <3>1, <3>2, <3>3
  <2> QED
    BY <2>3, <2>4
<1>6. /\ set.readOutputs = ReadIds(TxOf[r])
      /\ set.writeOutputs = InputIds(TxOf[r]) \cup ProposalIds(TxOf[r]) \cup Predecessors(TxOf[r])
  BY DEF AccessSet
<1>7. /\ DOMAIN known = DOMAIN access \cup {r} /\ known[r] = set
      /\ \A x \in DOMAIN access \ {r} : known[x] = access[x]
  BY DEF Put
<1>8. ASSUME NEW e \in Flushes, NEW g \in DOMAIN groups[e], NEW i \in DOMAIN groups[e][g]
      PROVE  groups[e][g][i] \in DOMAIN access \ {r} /\ groups[e][g][i] \in Taken(e)
  <2>1. groups[e][g][i] \in Items(groups[e][g])
    BY DEF Items
  <2> QED
    BY <1>5, <2>1 DEF PlanInv
<1> HIDE DEF known, set
<1> DEFINE plan == groups[f]
<1>9. CASE access' = known /\ groups' = [groups EXCEPT ![f] = Place(plan, r, known)] /\ UNCHANGED fallback
  <2> DEFINE new == Place(plan, r, known)
  <2>1. plan \in Seq(Seq(Runs))
    BY DEF PlanTypeOK
  <2>2. /\ new \in Seq(Seq(Runs))
        /\ \A g \in DOMAIN new :
             \/ new[g] = <<r>>
             \/ g \in DOMAIN plan /\ new[g] = plan[g]
             \/ g \in DOMAIN plan /\ Takes(plan[g], r, known) /\ new[g] = Append(plan[g], r)
    <3> HIDE DEF plan
    <3> QED
      BY <1>1, <2>1, Places, SMTT(30)
  <2> HIDE DEF new
  <2>3. groups' = [groups EXCEPT ![f] = new]
    BY <1>9 DEF new
  <2>4. PlanTypeOK'
    BY <1>1, <1>3, <1>7, <1>9, <2>2, <2>3 DEF PlanTypeOK
  <2>5. ASSUME NEW e \in Flushes, NEW g \in DOMAIN groups'[e], NEW i \in DOMAIN groups'[e][g]
        PROVE  \/ g \in DOMAIN groups[e] /\ i \in DOMAIN groups[e][g] /\ groups'[e][g][i] = groups[e][g][i]
               \/ e = f /\ groups'[e][g][i] = r /\ i = Len(groups'[e][g])
                  /\ (Len(groups'[e][g]) = 1 \/ (g \in DOMAIN groups[e] /\ Takes(groups[e][g], r, known)))
    <3>1. CASE e # f
      BY <2>3, <2>5, <3>1 DEF PlanTypeOK
    <3>2. CASE e = f
      <4>1. groups'[e] = new /\ g \in DOMAIN new /\ i \in DOMAIN new[g]
        BY <2>3, <2>5, <3>2 DEF PlanTypeOK
      <4>2. CASE new[g] = <<r>>
        BY <3>2, <4>1, <4>2
      <4>3. CASE g \in DOMAIN plan /\ new[g] = plan[g]
        BY <3>2, <4>1, <4>3
      <4>4. CASE g \in DOMAIN plan /\ Takes(plan[g], r, known) /\ new[g] = Append(plan[g], r)
        <5>1. plan[g] \in Seq(Runs)
          BY <2>1, <4>4
        <5>2. DOMAIN new[g] = 1..(Len(plan[g]) + 1) /\ Len(new[g]) = Len(plan[g]) + 1
              /\ \A j \in DOMAIN new[g] : new[g][j] = IF j = Len(plan[g]) + 1 THEN r ELSE plan[g][j]
          BY <1>1, <4>4, <5>1
        <5>3. i = Len(plan[g]) + 1 \/ i \in DOMAIN plan[g]
          BY <4>1, <5>1, <5>2
        <5> QED
          BY <3>2, <4>1, <4>4, <5>1, <5>2, <5>3
      <4> QED
        BY <2>2, <4>1, <4>2, <4>3, <4>4
    <3> QED
      BY <3>1, <3>2
  <2>6. \A e \in Flushes : \A g \in DOMAIN groups'[e] :
          Items(groups'[e][g]) \subseteq Taken(e)' \cap DOMAIN access'
    <3>1. ASSUME NEW e \in Flushes, NEW g \in DOMAIN groups'[e], NEW i \in DOMAIN groups'[e][g]
          PROVE  groups'[e][g][i] \in Taken(e)' \cap DOMAIN access'
      <4>1. Taken(e) \subseteq Taken(e)' /\ (e = f => r \in Taken(e)')
        BY <1>5
      <4> QED
        BY <1>7, <1>8, <1>9, <2>5, <4>1
    <3> QED
      BY <3>1 DEF Items
  <2>7. PlanInv'
    <3>1. \A x \in DOMAIN access' :
            /\ access'[x].readOutputs = ReadIds(TxOf[x])
            /\ access'[x].writeOutputs = InputIds(TxOf[x]) \cup ProposalIds(TxOf[x]) \cup Predecessors(TxOf[x])
      BY <1>6, <1>7, <1>9 DEF PlanInv
    <3>2. \A e, h \in Flushes : \A i \in DOMAIN drained'[e], j \in DOMAIN drained'[h] :
            drained'[e][i] = drained'[h][j] => e = h /\ i = j
      BY <1>1 DEF PlanInv
    <3> QED
      BY <1>5, <2>6, <3>1, <3>2 DEF PlanInv
  <2>8. GroupsConflictFree'
    <3>1. ASSUME NEW e \in Flushes, NEW g \in DOMAIN groups'[e],
                 NEW i \in DOMAIN groups'[e][g], NEW j \in DOMAIN groups'[e][g], i # j
          PROVE  ~Conflicts(access'[groups'[e][g][i]], access'[groups'[e][g][j]])
      <4> DEFINE Old(k) == /\ g \in DOMAIN groups[e] /\ k \in DOMAIN groups[e][g]
                           /\ groups'[e][g][k] = groups[e][g][k]
      <4>1. ASSUME NEW k \in DOMAIN groups'[e][g], Old(k)
            PROVE  access'[groups'[e][g][k]] = access[groups[e][g][k]]
        BY <1>7, <1>8, <1>9, <4>1
      <4>2. CASE Old(i) /\ Old(j)
        BY <3>1, <4>1, <4>2 DEF GroupsConflictFree
      <4>3. ASSUME NEW k \in DOMAIN groups'[e][g], NEW l \in DOMAIN groups'[e][g], k # l, Old(k), ~Old(l)
            PROVE  ~Conflicts(access'[groups'[e][g][k]], access'[groups'[e][g][l]])
        <5>1. groups'[e][g][l] = r /\ l = Len(groups'[e][g])
              /\ (Len(groups'[e][g]) = 1 \/ Takes(groups[e][g], r, known))
          BY <2>5, <4>3
        <5>2. groups'[e][g] \in Seq(Runs)
          <6>1. groups'[e] \in Seq(Seq(Runs))
            BY <2>4 DEF PlanTypeOK
          <6> QED
            BY <6>1
        <5>3. Takes(groups[e][g], r, known)
          BY <4>3, <5>1, <5>2
        <5>4. ~Conflicts(known[groups[e][g][k]], known[r])
          BY <4>3, <5>3 DEF Takes
        <5> QED
          BY <1>9, <4>3, <5>1, <5>4
      <4>4. Old(i) \/ Old(j)
        BY <2>5, <3>1
      <4>5. \A a, b : Conflicts(a, b) => Conflicts(b, a)
        BY DEF Conflicts
      <4> HIDE DEF Old
      <4> QED
        BY <3>1, <4>2, <4>3, <4>4, <4>5
    <3> QED
      BY <3>1 DEF GroupsConflictFree
  <2> QED
    BY <2>4, <2>7, <2>8
<1>10. CASE fallback' = [fallback EXCEPT ![f] = Append(fallback[f], r)] /\ UNCHANGED <<access, groups>>
  <2>1. Append(fallback[f], r) \in Seq(Runs)
    BY <1>1 DEF PlanTypeOK
  <2>2. PlanTypeOK'
    BY <1>3, <1>10, <2>1 DEF PlanTypeOK
  <2>3. PlanInv'
    <3>1. \A e \in Flushes : \A g \in DOMAIN groups'[e] :
            Items(groups'[e][g]) \subseteq Taken(e)' \cap DOMAIN access'
      BY <1>5, <1>10 DEF PlanInv
    <3> QED
      BY <1>1, <1>5, <1>10, <3>1 DEF PlanInv
  <2>4. GroupsConflictFree'
    BY <1>10 DEF GroupsConflictFree
  <2> QED
    BY <2>2, <2>3, <2>4
<1> QED
  BY <1>9, <1>10 DEF PlanItem, known, set

LEMMA NextTurnInv ==
  ASSUME BatchInv, NEW f \in Flushes, NextTurn(f)
  PROVE  BatchInv'
<1> USE DEF BatchInv
<1>1. UNCHANGED <<drained, planned, access>>
  BY DEF NextTurn
<1>2. CASE turn' = [turn EXCEPT ![f] = @ + 1] /\ UNCHANGED <<stage, groups, fallback>>
  <2>1. turn' \in [Flushes -> Nat \ {0}]
    <3>1. turn[f] + 1 \in Nat \ {0}
      BY DEF PlanTypeOK
    <3> QED
      BY <1>2, <3>1 DEF PlanTypeOK
  <2>2. PlanTypeOK'
    BY <1>1, <1>2, <2>1 DEF PlanTypeOK
  <2>3. PlanInv' /\ GroupsConflictFree'
    BY <1>1, <1>2 DEF PlanInv, Taken, GroupsConflictFree
  <2> QED
    BY <2>2, <2>3
<1>3. CASE /\ stage' = [stage EXCEPT ![f] = IF planned[f] = Len(drained[f]) THEN "done" ELSE "plan"]
           /\ turn' = [turn EXCEPT ![f] = 1]
           /\ groups' = [groups EXCEPT ![f] = << >>] /\ fallback' = [fallback EXCEPT ![f] = << >>]
  <2>1. PlanTypeOK'
    BY <1>1, <1>3 DEF PlanTypeOK
  <2>2. \A e \in Flushes : \A g \in DOMAIN groups'[e] : g \in DOMAIN groups[e] /\ groups'[e][g] = groups[e][g]
    BY <1>3 DEF PlanTypeOK
  <2>3. \A e \in Flushes : stage'[e] = "plan" => planned[e] < Len(drained[e])
    BY <1>3 DEF PlanTypeOK, PlanInv
  <2>4. PlanInv'
    BY <1>1, <2>2, <2>3 DEF PlanInv, Taken
  <2>5. GroupsConflictFree'
    BY <1>1, <2>2 DEF GroupsConflictFree
  <2> QED
    BY <2>1, <2>4, <2>5
<1> QED
  BY <1>2, <1>3 DEF NextTurn

LEMMA BatchNextInv == BatchInv /\ [BatchNext]_batchVars => BatchInv'
<1> SUFFICES ASSUME BatchInv, [BatchNext]_batchVars PROVE BatchInv'
  OBVIOUS
<1>1. ASSUME UNCHANGED planVars PROVE BatchInv'
  <2>1. PlanTypeOK'
    BY <1>1 DEF planVars, BatchInv, PlanTypeOK
  <2>2. PlanInv' /\ GroupsConflictFree'
    BY <1>1 DEF planVars, BatchInv, PlanInv, Taken, GroupsConflictFree
  <2> QED
    BY <2>1, <2>2 DEF BatchInv
<1> QED
  BY <1>1, PlanItemInv, NextTurnInv DEF BatchNext, Execute, batchVars

\* GroupsConflictFree: two runs of a group, which run at once, never have one touch what
\* the other writes, at whatever moments the planner computed their access sets.
THEOREM GroupsApart == BatchSpec => []GroupsConflictFree
<1>1. BatchInv => GroupsConflictFree
  BY DEF BatchInv
<1> QED
  BY <1>1, BatchInitInv, BatchNextInv, PTL DEF BatchSpec

-----------------------------------------------------------------------------
(* The flush and the ledger.  What the runs in flight have done is undone   *)
(* nowhere: it is as if it had not happened before their last step.         *)

\* What a commit that cannot fail half way asks for: a flush has the store for itself,
\* no transaction names an output twice, an output a transaction proposes is not there
\* at the start and proposed by no other, but for one that needs the same inputs, as a
\* transaction that was sent again does.
OneFlush == \A e, f \in Flushes : e = f
NamedOnce ==
  \A r \in Runs :
    /\ \A i, j \in DOMAIN TxOf[r].inputs : TxOf[r].inputs[i] = TxOf[r].inputs[j] => i = j
    /\ \A i, j \in DOMAIN TxOf[r].proposals : TxOf[r].proposals[i].id = TxOf[r].proposals[j].id => i = j
IdsNew ==
  \A r \in Runs :
    /\ ProposalIds(TxOf[r]) \cap DOMAIN Genesis = {}
    /\ \A s \in Runs \ {r} : ProposalIds(TxOf[r]) \cap ProposalIds(TxOf[s]) # {}
                               => InputIds(TxOf[r]) \cap InputIds(TxOf[s]) # {}
LedgerAssumption == OneFlush /\ NamedOnce /\ IdsNew

\* Only the runs of the current turn are under way.
Active(r) == pc[r] \notin Terminal \cup {"idle"}
TurnInv == \A r \in Runs : Active(r) => \E f \in Flushes : r \in Running(f)

\* What a run has spent and made is what its position says; one that was refused has
\* done neither, and its executor knows no nonce before its own.
Spends(r, i) == pc[r] \in {"insert", "accepted"} \/ (pc[r] = "spend" /\ i < pos[r])
Makes(r, i) == pc[r] = "accepted" \/ (pc[r] = "insert" /\ i < pos[r])
OwnInv ==
  /\ spent = UNION {spentBy[r] : r \in Runs}
  /\ DOMAIN outputs = DOMAIN Genesis \cup UNION {madeBy[r] : r \in Runs}
  /\ \A r \in Runs :
       /\ spentBy[r] = {TxOf[r].inputs[i] : i \in {j \in DOMAIN TxOf[r].inputs : Spends(r, j)}}
       /\ madeBy[r] = {TxOf[r].proposals[i].id : i \in {j \in DOMAIN TxOf[r].proposals : Makes(r, j)}}
       /\ Active(r) => Admissible(TxOf[r])
       /\ pc[r] \notin {"spend", "insert"} \cup Terminal => DOMAIN registry[ExecutorOf[r]] = {}

\* What a run read is as it read it, in the ledger too, and nobody else spent it.
SawInput(r, i) == pc[r] = "inputs" => i < pos[r]
SawRead(r, i) == pc[r] # "inputs" /\ (pc[r] = "reads" => i < pos[r])
SeenInput(r, i) ==
  /\ TxOf[r].inputs[i] \in Effective /\ InputOk(outputs[TxOf[r].inputs[i]], TxOf[r])
  /\ \A s \in Runs \ {r} : TxOf[r].inputs[i] \notin spentBy[s]
SeenRead(r, i) ==
  /\ TxOf[r].reads[i].id \in Effective
  /\ ReadOk(outputs[TxOf[r].reads[i].id], TxOf[r].reads[i], TxOf[r])
SeenInv ==
  \A r \in Runs : Active(r) =>
    /\ \A i \in DOMAIN TxOf[r].inputs : SawInput(r, i) => SeenInput(r, i)
    /\ \A i \in DOMAIN TxOf[r].reads : SawRead(r, i) => SeenRead(r, i)

LedgerInv == Inv /\ BatchInv /\ TurnInv /\ OwnInv /\ SeenInv

\* Two runs that are under way do not touch what the other writes.
Apart(r, s) == /\ InputIds(TxOf[r]) \cap (InputIds(TxOf[s]) \cup ProposalIds(TxOf[s])) = {}
               /\ ReadIds(TxOf[r]) \cap ProposalIds(TxOf[s]) = {}

LEMMA ActiveApart ==
  ASSUME OneFlush, BatchInv, TurnInv, NEW r \in Runs, NEW s \in Runs, r # s, Active(r),
         \E f \in Flushes : s \in Running(f)
  PROVE  Apart(r, s) /\ Apart(s, r)
<1> USE DEF BatchInv
<1>1. PICK f \in Flushes : r \in Running(f) /\ s \in Running(f)
  BY DEF TurnInv, OneFlush
<1>2. turn[f] <= Len(groups[f]) /\ stage[f] = "run"
  BY <1>1 DEF Running
<1>3. turn[f] \in DOMAIN groups[f]
  <2>1. turn[f] \in Nat \ {0} /\ groups[f] \in Seq(Seq(Runs))
    BY DEF PlanTypeOK
  <2> QED
    BY <1>2, <2>1
<1>4. Running(f) = Items(groups[f][turn[f]])
  BY <1>2 DEF Running
<1>5. ~Conflicts(access[r], access[s]) /\ {r, s} \subseteq DOMAIN access
  <2>1. PICK i, j \in DOMAIN groups[f][turn[f]] :
               r = groups[f][turn[f]][i] /\ s = groups[f][turn[f]][j]
    BY <1>1, <1>4 DEF Items
  <2>2. i # j
    BY <2>1
  <2>3. {r, s} \subseteq DOMAIN access
    BY <1>1, <1>3, <1>4 DEF PlanInv
  <2> QED
    BY <1>3, <2>1, <2>2, <2>3 DEF GroupsConflictFree
<1>6. \A x \in {r, s} : /\ access[x].readOutputs = ReadIds(TxOf[x])
                        /\ InputIds(TxOf[x]) \cup ProposalIds(TxOf[x]) \subseteq access[x].writeOutputs
  BY <1>5 DEF PlanInv
<1> QED
  BY <1>5, <1>6 DEF Conflicts, Apart

\* The ledger has what the accepted runs did.
Accepted == {r \in Runs : pc[r] = "accepted"}
SpentThere == spent \ UNION {spentBy[r] : r \in InFlight}
AllMade == UNION {madeBy[r] : r \in Accepted}
AllSpent == UNION {spentBy[r] : r \in Accepted}
LedgerView == Effective = DOMAIN Genesis \cup AllMade /\ SpentThere = AllSpent

LEMMA LedgerHas == LedgerAssumption /\ Inv /\ OwnInv => LedgerView
<1> SUFFICES ASSUME LedgerAssumption, Inv, OwnInv PROVE LedgerView
  OBVIOUS
<1>1. ASSUME NEW r \in Runs
      PROVE  /\ madeBy[r] # {} => pc[r] \in {"insert", "accepted"} /\ InputIds(TxOf[r]) \subseteq spentBy[r]
             /\ spentBy[r] # {} => pc[r] \in {"spend", "insert", "accepted"}
             /\ madeBy[r] \subseteq ProposalIds(TxOf[r])
  BY DEF OwnInv, Spends, Makes, ProposalIds, InputIds
<1>2. ASSUME NEW r \in Runs, NEW s \in Runs, r # s
      PROVE  madeBy[r] \cap madeBy[s] = {} /\ spentBy[r] \cap spentBy[s] = {}
  <2>1. spentBy[r] \cap spentBy[s] = {}
    BY <1>2 DEF Inv, IInv, SpendInv
  <2> QED
    BY <1>1, <1>2, <2>1 DEF LedgerAssumption, IdsNew
<1>3. \A r \in Runs : madeBy[r] \cap DOMAIN Genesis = {}
  BY <1>1 DEF LedgerAssumption, IdsNew
<1>4. InFlight \subseteq Runs /\ Accepted \subseteq Runs /\ InFlight \cap Accepted = {}
      /\ \A r \in Runs : pc[r] \in {"spend", "insert", "accepted"} => r \in InFlight \cup Accepted
  BY DEF InFlight, Accepted
<1>5. Effective = DOMAIN Genesis \cup UNION {madeBy[r] : r \in Accepted}
  <2>1. ASSUME NEW o \in Effective PROVE o \in DOMAIN Genesis \cup UNION {madeBy[r] : r \in Accepted}
    BY <1>1, <1>4, <2>1 DEF Effective, OwnInv
  <2>2. ASSUME NEW o \in DOMAIN Genesis PROVE o \in Effective
    BY <1>3, <1>4, <2>2 DEF Effective, OwnInv
  <2>3. ASSUME NEW r \in Accepted, NEW o \in madeBy[r] PROVE o \in Effective
    BY <1>2, <1>4, <2>3 DEF Effective, OwnInv
  <2> QED
    BY <2>1, <2>2, <2>3
<1>6. SpentThere = UNION {spentBy[r] : r \in Accepted}
  <2>1. ASSUME NEW o \in SpentThere PROVE o \in UNION {spentBy[r] : r \in Accepted}
    BY <1>1, <1>4, <2>1 DEF SpentThere, OwnInv
  <2>2. ASSUME NEW r \in Accepted, NEW o \in spentBy[r] PROVE o \in SpentThere
    BY <1>2, <1>4, <2>2 DEF SpentThere, OwnInv
  <2> QED
    BY <2>1, <2>2
<1> QED
  BY <1>5, <1>6 DEF LedgerView, AllMade, AllSpent

LEMMA LedgerHasNext == LedgerAssumption /\ Inv' /\ OwnInv' => LedgerView'
<1>1. (LedgerAssumption /\ Inv /\ OwnInv => LedgerView)'
  BY LedgerHas, PTL
<1>2. LedgerAssumption => LedgerAssumption'
  BY DEF LedgerAssumption, OneFlush, NamedOnce, IdsNew
<1> QED
  BY <1>1, <1>2

Late == {"spend", "insert"} \cup Terminal

\* What a step that reads or checks does to the run that takes it.
Moves(r) ==
  /\ pc' = [pc EXCEPT ![r] = pc'[r]] /\ pos' = [pos EXCEPT ![r] = pos'[r]]
  /\ pc[r] \notin Late /\ pc'[r] \in Phases \ {"idle"}
  /\ pc'[r] \in {"spend", "insert"} => pos'[r] = 1
  /\ pc'[r] \in {"insert", "accepted"} => TxOf[r].inputs = << >>
  /\ pc'[r] = "accepted" => TxOf[r].proposals = << >>
  /\ UNCHANGED <<outputs, spent, spentBy, madeBy>>
  /\ pc'[r] \notin Late => UNCHANGED registry
  /\ \A s \in Runs \ {r} : registry'[ExecutorOf[s]] = registry[ExecutorOf[s]]

\* What it has seen after the step it had seen before, or it saw it now.
Sees(r) ==
  /\ \A i \in DOMAIN TxOf[r].inputs : pc'[r] \notin Terminal /\ (pc'[r] = "inputs" => i < pos'[r]) =>
       \/ Active(r) /\ SawInput(r, i)
       \/ pc[r] = "inputs" /\ TxOf[r].inputs[i] \in DOMAIN outputs \ spent
          /\ InputOk(outputs[TxOf[r].inputs[i]], TxOf[r])
  /\ \A i \in DOMAIN TxOf[r].reads :
       pc'[r] \notin Terminal /\ pc'[r] # "inputs" /\ (pc'[r] = "reads" => i < pos'[r]) =>
       \/ Active(r) /\ SawRead(r, i)
       \/ pc[r] = "reads" /\ TxOf[r].reads[i].id \in DOMAIN outputs
          /\ ReadOk(outputs[TxOf[r].reads[i].id], TxOf[r].reads[i], TxOf[r])

LEMMA ListLengths ==
  ASSUME Inv, NEW r \in Runs
  PROVE  /\ Len(TxOf[r].inputs) \in Nat /\ DOMAIN TxOf[r].inputs = 1..Len(TxOf[r].inputs)
         /\ Len(TxOf[r].reads) \in Nat /\ DOMAIN TxOf[r].reads = 1..Len(TxOf[r].reads)
         /\ Len(TxOf[r].proposals) \in Nat /\ DOMAIN TxOf[r].proposals = 1..Len(TxOf[r].proposals)
         /\ pos[r] \in Nat \ {0} /\ pc[r] \in Phases
         /\ TxOf[r].inputs # << >> => Len(TxOf[r].inputs) # 0
         /\ TxOf[r].reads # << >> => Len(TxOf[r].reads) # 0
         /\ TxOf[r].proposals # << >> => Len(TxOf[r].proposals) # 0
<1>1. /\ TxOf[r].inputs \in Seq(OutputIds)
      /\ TxOf[r].reads \in Seq([id : OutputIds, domain : Domains, version : Nat])
      /\ TxOf[r].proposals \in Seq([id : OutputIds, body : Bodies])
  BY RunAssumption
<1>2. pos[r] \in Nat \ {0} /\ pc[r] \in Phases
  BY DEF Inv, TypeOK, RunTypeOK
<1>3. ASSUME NEW S, NEW list \in Seq(S)
      PROVE  Len(list) \in Nat /\ DOMAIN list = 1..Len(list) /\ (list # << >> => Len(list) # 0)
  BY <1>3
<1> QED
  BY <1>1, <1>2, <1>3

LEMMA BeginMoves == ASSUME Inv, NEW r \in Runs, Begin(r) PROVE Moves(r) /\ Sees(r) /\ (pc'[r] # "rejected" => Admissible(TxOf[r]))
<1> DEFINE tx == TxOf[r]
           next == IF Admissible(tx) THEN AfterBegin(tx) ELSE "rejected"
<1>1. /\ next \in {"inputs", "reads", "check", "rejected"}
      /\ next \in {"reads", "check"} => tx.inputs = << >>
      /\ next = "check" => tx.reads = << >>
      /\ next # "rejected" => Admissible(tx)
  BY DEF AfterBegin, AfterInputs
<1>2. /\ pc[r] = "idle"
      /\ pc' = [pc EXCEPT ![r] = next] /\ pos' = [pos EXCEPT ![r] = 1]
      /\ UNCHANGED <<outputs, spent, spentBy, madeBy, registry>>
  BY DEF Begin, GoTo, storeVars, nonceVars, traceVars
<1> HIDE DEF next
<1>3. pc'[r] = next /\ pos'[r] = 1
  BY <1>2 DEF Inv, TypeOK, RunTypeOK
<1>4. Moves(r)
  BY <1>1, <1>2, <1>3 DEF Moves, Late, Terminal, Phases
<1>5. Sees(r)
  <2>1. \A i \in DOMAIN tx.inputs : i >= 1
    BY ListLengths
  <2>2. \A i \in DOMAIN tx.reads : i >= 1
    BY ListLengths
  <2>3. \A i \in DOMAIN tx.inputs : ~(pc'[r] \notin Terminal /\ (pc'[r] = "inputs" => i < pos'[r]))
    BY <1>1, <1>3, <2>1, ListLengths DEF Terminal
  <2>4. \A i \in DOMAIN tx.reads :
          ~(pc'[r] \notin Terminal /\ pc'[r] # "inputs" /\ (pc'[r] = "reads" => i < pos'[r]))
    BY <1>1, <1>3, <2>2, ListLengths DEF Terminal
  <2> QED
    BY <2>3, <2>4 DEF Sees
<1> QED
  BY <1>1, <1>3, <1>4, <1>5

LEMMA ReadInputMoves == ASSUME Inv, NEW r \in Runs, ReadInput(r) PROVE Moves(r) /\ Sees(r)
<1> DEFINE tx == TxOf[r]
           o == tx.inputs[pos[r]]
<1> USE DEF Inv, TypeOK
<1>1. /\ pc[r] = "inputs" /\ UNCHANGED <<outputs, spent, spentBy, madeBy, registry>>
      /\ \/ o \in DOMAIN outputs \ spent /\ InputOk(outputs[o], tx) /\ Advance(r, tx.inputs, AfterInputs(tx))
         \/ Reject(r)
  BY DEF ReadInput, storeVars, nonceVars, traceVars
<1>2. pos[r] \in 1..Len(tx.inputs) /\ AfterInputs(tx) \in {"reads", "check"} /\ AfterInputs(tx) \in Phases
  BY <1>1, ListLengths DEF IInv, PosInv, AfterInputs, Phases
<1>3. /\ pc' = [pc EXCEPT ![r] = pc'[r]] /\ pos' = [pos EXCEPT ![r] = pos'[r]]
      /\ \/ pos[r] < Len(tx.inputs) /\ pc'[r] = pc[r] /\ pos'[r] = pos[r] + 1
         \/ pos[r] = Len(tx.inputs) /\ pc'[r] = AfterInputs(tx) /\ pos'[r] = 1
         \/ Reject(r) /\ pc'[r] = "rejected" /\ pos'[r] = 1
  BY <1>1, <1>2, ListLengths, Moved
<1>4. Moves(r)
  BY <1>1, <1>2, <1>3 DEF Moves, Late, Terminal, Phases
<1>5. Sees(r)
  <2>1. CASE pc'[r] = "rejected"
    BY <2>1 DEF Sees, Terminal
  <2>2. CASE pc'[r] # "rejected"
    <3>1. o \in DOMAIN outputs \ spent /\ InputOk(outputs[o], tx)
      <4>1. ~Reject(r)
        BY <2>2 DEF Reject, GoTo, RunTypeOK
      <4> QED
        BY <1>1, <4>1
    <3>2. ASSUME NEW i \in DOMAIN tx.inputs, pc'[r] = "inputs" => i < pos'[r]
          PROVE  i < pos[r] \/ i = pos[r]
      BY <1>1, <1>2, <1>3, <2>2, <3>2, ListLengths
    <3>3. ASSUME NEW i \in DOMAIN tx.reads, pc'[r] # "inputs", pc'[r] = "reads" => i < pos'[r]
          PROVE  FALSE
      <4>1. pc'[r] = AfterInputs(tx) /\ pos'[r] = 1
        BY <1>1, <1>3, <2>2, <3>3
      <4> QED
        BY <3>3, <4>1, ListLengths DEF AfterInputs
    <3> QED
      BY <1>1, <3>1, <3>2, <3>3 DEF Sees, Active, SawInput, Terminal
  <2> QED
    BY <2>1, <2>2
<1> QED
  BY <1>4, <1>5

LEMMA ReadReferenceMoves == ASSUME Inv, NEW r \in Runs, ReadReference(r) PROVE Moves(r) /\ Sees(r)
<1> DEFINE tx == TxOf[r]
           ref == tx.reads[pos[r]]
<1> USE DEF Inv, TypeOK
<1>1. /\ pc[r] = "reads" /\ UNCHANGED <<outputs, spent, spentBy, madeBy, registry>>
      /\ \/ ref.id \in DOMAIN outputs /\ ReadOk(outputs[ref.id], ref, tx) /\ Advance(r, tx.reads, "check")
         \/ Reject(r)
  BY DEF ReadReference, storeVars, nonceVars, traceVars
<1>2. pos[r] \in 1..Len(tx.reads) /\ "check" \in Phases
  BY <1>1, ListLengths DEF IInv, PosInv, Phases
<1>3. /\ pc' = [pc EXCEPT ![r] = pc'[r]] /\ pos' = [pos EXCEPT ![r] = pos'[r]]
      /\ \/ pos[r] < Len(tx.reads) /\ pc'[r] = pc[r] /\ pos'[r] = pos[r] + 1
         \/ pos[r] = Len(tx.reads) /\ pc'[r] = "check" /\ pos'[r] = 1
         \/ Reject(r) /\ pc'[r] = "rejected" /\ pos'[r] = 1
  BY <1>1, <1>2, ListLengths, Moved
<1>4. Moves(r)
  BY <1>1, <1>2, <1>3 DEF Moves, Late, Terminal, Phases
<1>5. Sees(r)
  <2>1. CASE pc'[r] = "rejected"
    BY <2>1 DEF Sees, Terminal
  <2>2. CASE pc'[r] # "rejected"
    <3>1. ref.id \in DOMAIN outputs /\ ReadOk(outputs[ref.id], ref, tx)
      <4>1. ~Reject(r)
        BY <2>2 DEF Reject, GoTo, RunTypeOK
      <4> QED
        BY <1>1, <4>1
    <3>2. ASSUME NEW i \in DOMAIN tx.reads, pc'[r] = "reads" => i < pos'[r]
          PROVE  i < pos[r] \/ i = pos[r]
      BY <1>1, <1>2, <1>3, <2>2, <3>2, ListLengths
    <3> QED
      BY <1>1, <3>1, <3>2 DEF Sees, Active, SawInput, SawRead, Terminal
  <2> QED
    BY <2>1, <2>2
<1> QED
  BY <1>4, <1>5

\* After the reads a run has seen everything.
LEMMA ChecksSee ==
  ASSUME NEW r \in Runs, pc[r] \in {"check", "clock", "nonce"}
  PROVE  Sees(r)
  BY DEF Sees, Active, SawInput, SawRead, Terminal

LEMMA AfterNonceIs ==
  ASSUME NEW tx
  PROVE  /\ AfterNonce(tx) \in {"spend", "insert", "accepted"}
         /\ AfterNonce(tx) \in {"insert", "accepted"} => tx.inputs = << >>
         /\ AfterNonce(tx) = "accepted" => tx.proposals = << >>
  BY DEF AfterNonce, AfterSpend

LEMMA CheckMoves ==
  ASSUME Inv, OwnInv, NEW r \in Runs, CheckResolved(r) \/ ReadClock(r) \/ RegisterNonce(r)
  PROVE  Moves(r) /\ Sees(r) /\ (pc'[r] = "rejected" => CheckResolved(r))
<1> DEFINE tx == TxOf[r]
<1> USE DEF Inv, TypeOK, RunTypeOK
<1>1. CASE CheckResolved(r)
  <2> DEFINE next == IF ~ValidResolved(tx, snap[r]) THEN "rejected"
                     ELSE IF tx.nonce = None THEN AfterNonce(tx) ELSE "clock"
  <2>1. /\ next \in {"rejected", "clock", "spend", "insert", "accepted"}
        /\ next \in {"insert", "accepted"} => tx.inputs = << >>
        /\ next = "accepted" => tx.proposals = << >>
    BY AfterNonceIs
  <2>2. /\ pc[r] = "check" /\ pc' = [pc EXCEPT ![r] = next] /\ pos' = [pos EXCEPT ![r] = 1]
        /\ UNCHANGED <<outputs, spent, spentBy, madeBy, registry>>
    BY <1>1 DEF CheckResolved, GoTo, storeVars, nonceVars, traceVars
  <2> HIDE DEF next
  <2>3. pc'[r] = next /\ pos'[r] = 1
    BY <2>2
  <2> QED
    BY <1>1, <2>1, <2>2, <2>3, ChecksSee DEF Moves, Late, Terminal, Phases
<1>2. CASE ReadClock(r)
  <2>1. /\ pc[r] = "clock" /\ pc' = [pc EXCEPT ![r] = "nonce"] /\ pos' = [pos EXCEPT ![r] = 1]
        /\ UNCHANGED <<outputs, spent, spentBy, madeBy, registry>>
    BY <1>2 DEF ReadClock, GoTo, storeVars, traceVars
  <2>2. pc'[r] = "nonce" /\ pos'[r] = 1
    BY <2>1
  <2> QED
    BY <2>1, <2>2, ChecksSee DEF Moves, Late, Terminal, Phases
<1>3. CASE RegisterNonce(r)
  <2> DEFINE next == AfterNonce(tx)
  <2>1. pc[r] = "nonce" /\ UNCHANGED <<outputs, spent, spentBy, madeBy>>
    BY <1>3 DEF RegisterNonce, storeVars, traceVars
  <2>2. DOMAIN registry[ExecutorOf[r]] = {}
    BY <2>1 DEF OwnInv, Terminal
  <2>3. GoTo(r, next)
    BY <1>3, <2>2 DEF RegisterNonce, Fresh
  <2>4. \A s \in Runs \ {r} : registry'[ExecutorOf[s]] = registry[ExecutorOf[s]]
    <3>1. \A s \in Runs \ {r} : ExecutorOf[s] # ExecutorOf[r] /\ ExecutorOf[s] \in DOMAIN registry
      BY BatchAssumption, RunAssumption DEF NonceTypeOK
    <3> QED
      BY <1>3, <3>1 DEF RegisterNonce
  <2>5. /\ next \in {"spend", "insert", "accepted"}
        /\ next \in {"insert", "accepted"} => tx.inputs = << >>
        /\ next = "accepted" => tx.proposals = << >>
    BY AfterNonceIs
  <2> HIDE DEF next
  <2>6. pc' = [pc EXCEPT ![r] = next] /\ pos' = [pos EXCEPT ![r] = 1] /\ pc'[r] = next /\ pos'[r] = 1
    BY <2>3 DEF GoTo
  <2> QED
    BY <2>1, <2>4, <2>5, <2>6, ChecksSee DEF Moves, Late, Terminal, Phases
<1> QED
  BY <1>1, <1>2, <1>3

LEMMA PrepareMoves ==
  ASSUME Inv, OwnInv, NEW r \in Runs, Prepare(r)
  PROVE  Moves(r) /\ Sees(r)
  BY ReadInputMoves, ReadReferenceMoves, CheckMoves DEF Prepare

\* A commit goes through: nobody spent its inputs, nobody made its outputs.
LEMMA Commits ==
  ASSUME LedgerAssumption, LedgerInv, NEW r \in Runs, MarkSpent(r) \/ InsertOutput(r)
  PROVE  /\ pc' = [pc EXCEPT ![r] = pc'[r]] /\ pos' = [pos EXCEPT ![r] = pos'[r]]
         /\ UNCHANGED registry
         /\ \/ /\ pc[r] = "spend" /\ pos[r] \in DOMAIN TxOf[r].inputs
               /\ spent' = spent \cup {TxOf[r].inputs[pos[r]]}
               /\ spentBy' = [spentBy EXCEPT ![r] = @ \cup {TxOf[r].inputs[pos[r]]}]
               /\ UNCHANGED <<outputs, madeBy>>
               /\ \/ pos[r] < Len(TxOf[r].inputs) /\ pc'[r] = "spend" /\ pos'[r] = pos[r] + 1
                  \/ pos[r] = Len(TxOf[r].inputs) /\ pc'[r] = AfterSpend(TxOf[r]) /\ pos'[r] = 1
            \/ /\ pc[r] = "insert" /\ pos[r] \in DOMAIN TxOf[r].proposals
               /\ TxOf[r].proposals[pos[r]].id \notin DOMAIN outputs
               /\ outputs' = Put(outputs, TxOf[r].proposals[pos[r]].id, TxOf[r].proposals[pos[r]].body)
               /\ madeBy' = [madeBy EXCEPT ![r] = @ \cup {TxOf[r].proposals[pos[r]].id}]
               /\ UNCHANGED <<spent, spentBy>>
               /\ \/ pos[r] < Len(TxOf[r].proposals) /\ pc'[r] = "insert" /\ pos'[r] = pos[r] + 1
                  \/ pos[r] = Len(TxOf[r].proposals) /\ pc'[r] = "accepted" /\ pos'[r] = 1
<1> DEFINE tx == TxOf[r]
<1> USE DEF LedgerInv, Inv, TypeOK, IInv
<1>1. ASSUME MarkSpent(r)
      PROVE  /\ pc[r] = "spend" /\ pos[r] \in DOMAIN tx.inputs /\ pos[r] \in 1..Len(tx.inputs)
             /\ Spendable(tx.inputs[pos[r]])
  <2> DEFINE o == tx.inputs[pos[r]]
  <2>1. pc[r] = "spend" /\ pos[r] \in DOMAIN tx.inputs /\ pos[r] \in 1..Len(tx.inputs)
    BY <1>1, ListLengths DEF MarkSpent, PosInv
  <2>2. SeenInput(r, pos[r])
    BY <2>1 DEF SeenInv, SawInput, Active, Terminal
  <2>3. o \in DOMAIN outputs /\ \A s \in Runs \ {r} : o \notin spentBy[s]
    BY <2>2 DEF SeenInput, Effective
  <2>4. o \notin spentBy[r]
    <3>1. \A i, j \in DOMAIN tx.inputs : tx.inputs[i] = tx.inputs[j] => i = j
      BY DEF LedgerAssumption, NamedOnce
    <3>2. ASSUME NEW i \in DOMAIN tx.inputs, i < pos[r] PROVE tx.inputs[i] # o
      <4>1. i # pos[r]
        BY <2>1, <3>2, ListLengths
      <4> QED
        BY <2>1, <3>1, <4>1
    <3> QED
      BY <2>1, <3>2 DEF OwnInv, Spends
  <2>5. o \notin spent
    BY <2>3, <2>4 DEF OwnInv
  <2> QED
    BY <2>1, <2>3, <2>5 DEF Spendable
<1>2. ASSUME InsertOutput(r)
      PROVE  /\ pc[r] = "insert" /\ pos[r] \in DOMAIN tx.proposals /\ pos[r] \in 1..Len(tx.proposals)
             /\ Vacant(tx.proposals[pos[r]].id)
  <2> DEFINE p == tx.proposals[pos[r]].id
  <2>1. pc[r] = "insert" /\ pos[r] \in DOMAIN tx.proposals /\ pos[r] \in 1..Len(tx.proposals)
    <3>1. pc[r] = "insert" /\ pos[r] <= Len(tx.proposals)
      BY <1>2 DEF InsertOutput, PosInv
    <3> QED
      BY <3>1, ListLengths
  <2>2. p \in ProposalIds(tx)
    BY <2>1 DEF ProposalIds
  <2>3. p \notin DOMAIN Genesis
    BY <2>2 DEF LedgerAssumption, IdsNew
  <2>4. p \notin madeBy[r]
    <3>1. \A i, j \in DOMAIN tx.proposals : tx.proposals[i].id = tx.proposals[j].id => i = j
      BY DEF LedgerAssumption, NamedOnce
    <3>2. ASSUME NEW i \in DOMAIN tx.proposals, i < pos[r] PROVE tx.proposals[i].id # p
      <4>1. i # pos[r]
        BY <2>1, <3>2, ListLengths
      <4> QED
        BY <2>1, <3>1, <4>1
    <3> QED
      BY <2>1, <3>2 DEF OwnInv, Makes
  <2>5. ASSUME NEW s \in Runs \ {r} PROVE p \notin madeBy[s]
    <3> SUFFICES ASSUME p \in madeBy[s] PROVE FALSE
      OBVIOUS
    <3>1. p \in ProposalIds(TxOf[s]) /\ pc[s] \in {"insert", "accepted"}
      BY DEF OwnInv, Makes, ProposalIds
    <3>2. PICK o : o \in InputIds(tx) \cap InputIds(TxOf[s])
      BY <2>2, <3>1 DEF LedgerAssumption, IdsNew
    <3>3. o \in spentBy[r] /\ o \in spentBy[s]
      BY <2>1, <3>1, <3>2 DEF OwnInv, Spends, InputIds
    <3> QED
      BY <3>3 DEF SpendInv
  <2>6. p \notin DOMAIN outputs
    BY <2>3, <2>4, <2>5 DEF OwnInv
  <2> QED
    BY <2>1, <2>6 DEF Vacant
<1>3. CASE MarkSpent(r)
  <2>1. Advance(r, tx.inputs, AfterSpend(tx)) /\ AfterSpend(tx) \in Phases /\ AfterSpend(tx) # "rejected"
    BY <1>1, <1>3 DEF MarkSpent, AfterSpend, Phases
  <2>2. /\ pc' = [pc EXCEPT ![r] = pc'[r]] /\ pos' = [pos EXCEPT ![r] = pos'[r]]
        /\ \/ pos[r] < Len(tx.inputs) /\ pc'[r] = pc[r] /\ pos'[r] = pos[r] + 1
           \/ pos[r] = Len(tx.inputs) /\ pc'[r] = AfterSpend(tx) /\ pos'[r] = 1
    <3>1. pc'[r] # "rejected"
      <4>1. CASE pos[r] < Len(tx.inputs)
        BY <1>1, <1>2, <1>3, <2>1, <4>1 DEF Advance
      <4>2. CASE ~(pos[r] < Len(tx.inputs))
        BY <2>1, <4>2 DEF Advance, GoTo, RunTypeOK
      <4> QED
        BY <4>1, <4>2
    <3>2. Len(tx.inputs) \in Nat /\ RunTypeOK
      BY ListLengths
    <3>3. /\ pc' = [pc EXCEPT ![r] = pc'[r]] /\ pos' = [pos EXCEPT ![r] = pos'[r]]
          /\ \/ pos[r] < Len(tx.inputs) /\ pc'[r] = pc[r] /\ pos'[r] = pos[r] + 1
             \/ pos[r] = Len(tx.inputs) /\ pc'[r] = AfterSpend(tx) /\ pos'[r] = 1
             \/ Reject(r) /\ pc'[r] = "rejected" /\ pos'[r] = 1
      BY <1>1, <1>2, <1>3, <2>1, <3>2, Moved
    <3> QED
      BY <3>1, <3>3
  <2> QED
    BY <1>1, <1>3, <2>2 DEF MarkSpent, nonceVars
<1>4. CASE InsertOutput(r)
  <2>1. Advance(r, tx.proposals, "accepted") /\ "accepted" \in Phases
    BY <1>2, <1>4 DEF InsertOutput, Phases
  <2>2. /\ pc' = [pc EXCEPT ![r] = pc'[r]] /\ pos' = [pos EXCEPT ![r] = pos'[r]]
        /\ \/ pos[r] < Len(tx.proposals) /\ pc'[r] = pc[r] /\ pos'[r] = pos[r] + 1
           \/ pos[r] = Len(tx.proposals) /\ pc'[r] = "accepted" /\ pos'[r] = 1
    <3>1. pc'[r] # "rejected"
      <4>1. CASE pos[r] < Len(tx.proposals)
        BY <1>1, <1>2, <1>4, <2>1, <4>1 DEF Advance
      <4>2. CASE ~(pos[r] < Len(tx.proposals))
        BY <2>1, <4>2 DEF Advance, GoTo, RunTypeOK
      <4> QED
        BY <4>1, <4>2
    <3>2. Len(tx.proposals) \in Nat /\ RunTypeOK
      BY ListLengths
    <3>3. /\ pc' = [pc EXCEPT ![r] = pc'[r]] /\ pos' = [pos EXCEPT ![r] = pos'[r]]
          /\ \/ pos[r] < Len(tx.proposals) /\ pc'[r] = pc[r] /\ pos'[r] = pos[r] + 1
             \/ pos[r] = Len(tx.proposals) /\ pc'[r] = "accepted" /\ pos'[r] = 1
             \/ Reject(r) /\ pc'[r] = "rejected" /\ pos'[r] = 1
      BY <1>1, <1>2, <1>4, <2>1, <3>2, Moved
    <3> QED
      BY <3>1, <3>3
  <2> QED
    BY <1>2, <1>4, <2>2 DEF InsertOutput, Vacant, nonceVars
<1> QED
  BY <1>3, <1>4

LEMMA LedgerInit == BatchInit => LedgerInv
<1> SUFFICES ASSUME BatchInit PROVE LedgerInv
  OBVIOUS
<1>1. Init
  BY DEF BatchInit
<1>2. Inv /\ BatchInv
  BY <1>1, InitInv, BatchInitInv
<1>3. TurnInv /\ SeenInv
  BY <1>1 DEF Init, TurnInv, SeenInv, Active
<1>4. OwnInv
  <2>1. \A r \in Runs : pc[r] = "idle" /\ spentBy[r] = {} /\ madeBy[r] = {} /\ DOMAIN registry[ExecutorOf[r]] = {}
    BY <1>1, RunAssumption DEF Init
  <2>2. spent = {} /\ outputs = Genesis
    BY <1>1 DEF Init
  <2> QED
    BY <2>1, <2>2 DEF OwnInv, Active, Spends, Makes
<1> QED
  BY <1>2, <1>3, <1>4 DEF LedgerInv

LEMMA OwnStep ==
  ASSUME LedgerAssumption, LedgerInv, NEW r \in Runs, Begin(r) \/ RunStep(r)
  PROVE  OwnInv'
<1> DEFINE tx == TxOf[r]
<1> USE DEF LedgerInv
<1>1. CASE Begin(r) \/ Prepare(r)
  <2>1. Moves(r)
    BY <1>1, BeginMoves, PrepareMoves
  <2>2. ASSUME NEW s \in Runs \ {r} PROVE pc'[s] = pc[s] /\ pos'[s] = pos[s]
    BY <2>1 DEF Moves, Inv, TypeOK, RunTypeOK
  <2>3. spentBy[r] = {} /\ madeBy[r] = {}
    BY <2>1 DEF Moves, OwnInv, Spends, Makes, Late, Terminal
  <2>4. \A i \in DOMAIN tx.inputs : ~(pc'[r] \in {"insert", "accepted"} \/ (pc'[r] = "spend" /\ i < pos'[r]))
    BY <2>1, ListLengths DEF Moves
  <2>5. \A i \in DOMAIN tx.proposals : ~(pc'[r] = "accepted" \/ (pc'[r] = "insert" /\ i < pos'[r]))
    BY <2>1, ListLengths DEF Moves
  <2>6. pc'[r] \notin Terminal \cup {"idle"} => Admissible(tx)
    <3>1. CASE Begin(r)
      BY <3>1, BeginMoves DEF Terminal
    <3>2. CASE Prepare(r)
      <4>1. Active(r)
        BY <3>2 DEF Prepare, ReadInput, ReadReference, CheckResolved, ReadClock, RegisterNonce, Active, Terminal
      <4> QED
        BY <4>1 DEF OwnInv
    <3> QED
      BY <1>1, <3>1, <3>2
  <2>7. \A s \in Runs :
          /\ spentBy'[s] = {TxOf[s].inputs[i] : i \in {j \in DOMAIN TxOf[s].inputs : Spends(s, j)'}}
          /\ madeBy'[s] = {TxOf[s].proposals[i].id : i \in {j \in DOMAIN TxOf[s].proposals : Makes(s, j)'}}
    <3>1. ASSUME NEW s \in Runs \ {r}
          PROVE  /\ \A j \in DOMAIN TxOf[s].inputs : Spends(s, j)' <=> Spends(s, j)
                 /\ \A j \in DOMAIN TxOf[s].proposals : Makes(s, j)' <=> Makes(s, j)
      BY <2>2 DEF Spends, Makes
    <3>2. UNCHANGED <<spentBy, madeBy>>
      BY <2>1 DEF Moves
    <3>3. /\ \A j \in DOMAIN tx.inputs : ~Spends(r, j)'
          /\ \A j \in DOMAIN tx.proposals : ~Makes(r, j)'
      BY <2>4, <2>5 DEF Spends, Makes
    <3>4. ASSUME NEW s \in Runs \ {r}
          PROVE  /\ spentBy'[s] = {TxOf[s].inputs[i] : i \in {j \in DOMAIN TxOf[s].inputs : Spends(s, j)'}}
                 /\ madeBy'[s] = {TxOf[s].proposals[i].id : i \in {j \in DOMAIN TxOf[s].proposals : Makes(s, j)'}}
      BY <3>1, <3>2 DEF OwnInv
    <3>5. /\ spentBy'[r] = {tx.inputs[i] : i \in {j \in DOMAIN tx.inputs : Spends(r, j)'}}
          /\ madeBy'[r] = {tx.proposals[i].id : i \in {j \in DOMAIN tx.proposals : Makes(r, j)'}}
      BY <2>3, <3>2, <3>3
    <3> QED
      BY <3>4, <3>5
  <2>8. ASSUME NEW s \in Runs
        PROVE  /\ pc'[s] \notin Terminal \cup {"idle"} => Admissible(TxOf[s])
               /\ pc'[s] \notin {"spend", "insert"} \cup Terminal => DOMAIN registry'[ExecutorOf[s]] = {}
    <3>1. CASE s = r
      BY <2>1, <2>6, <3>1 DEF OwnInv, Moves, Late
    <3>2. CASE s # r
      BY <2>1, <2>2, <3>2 DEF OwnInv, Moves, Active
    <3> QED
      BY <3>1, <3>2
  <2>9. /\ spent' = UNION {spentBy'[s] : s \in Runs}
        /\ DOMAIN outputs' = DOMAIN Genesis \cup UNION {madeBy'[s] : s \in Runs}
    BY <2>1 DEF OwnInv, Moves
  <2> QED
    BY <2>7, <2>8, <2>9 DEF OwnInv, Active
<1>2. CASE MarkSpent(r) \/ InsertOutput(r)
  <2>1. /\ pc' = [pc EXCEPT ![r] = pc'[r]] /\ pos' = [pos EXCEPT ![r] = pos'[r]] /\ UNCHANGED registry
    BY <1>2, Commits
  <2>2. ASSUME NEW s \in Runs \ {r} PROVE pc'[s] = pc[s] /\ pos'[s] = pos[s]
    BY <2>1 DEF Inv, TypeOK, RunTypeOK
  <2>3. spentBy \in [Runs -> SUBSET spent] /\ madeBy \in [Runs -> SUBSET DOMAIN outputs]
    BY DEF Inv, TypeOK, TraceTypeOK
  <2>4. pc[r] \in {"spend", "insert"} /\ pc'[r] \in {"spend", "insert", "accepted"}
    BY <1>2, Commits DEF AfterSpend
  <2>5. ASSUME NEW s \in Runs
        PROVE  /\ pc'[s] \notin Terminal \cup {"idle"} => Admissible(TxOf[s])
               /\ pc'[s] \notin {"spend", "insert"} \cup Terminal => DOMAIN registry'[ExecutorOf[s]] = {}
    <3>1. CASE s = r
      BY <2>4, <3>1 DEF OwnInv, Active, Terminal
    <3>2. CASE s # r
      BY <2>1, <2>2, <3>2 DEF OwnInv, Active
    <3> QED
      BY <3>1, <3>2
  <2>6. ASSUME NEW s \in Runs \ {r}, spentBy'[s] = spentBy[s], madeBy'[s] = madeBy[s]
        PROVE  /\ spentBy'[s] = {TxOf[s].inputs[i] : i \in {j \in DOMAIN TxOf[s].inputs : Spends(s, j)'}}
               /\ madeBy'[s] = {TxOf[s].proposals[i].id : i \in {j \in DOMAIN TxOf[s].proposals : Makes(s, j)'}}
    <3>1. /\ \A j \in DOMAIN TxOf[s].inputs : Spends(s, j)' <=> Spends(s, j)
          /\ \A j \in DOMAIN TxOf[s].proposals : Makes(s, j)' <=> Makes(s, j)
      BY <2>2 DEF Spends, Makes
    <3> QED
      BY <2>6, <3>1 DEF OwnInv
  <2>7. CASE MarkSpent(r)
    <3> DEFINE o == tx.inputs[pos[r]]
    <3>1. /\ pc[r] = "spend" /\ pos[r] \in DOMAIN tx.inputs
          /\ spent' = spent \cup {o} /\ spentBy' = [spentBy EXCEPT ![r] = @ \cup {o}]
          /\ UNCHANGED <<outputs, madeBy>>
          /\ \/ pos[r] < Len(tx.inputs) /\ pc'[r] = "spend" /\ pos'[r] = pos[r] + 1
             \/ pos[r] = Len(tx.inputs) /\ pc'[r] = AfterSpend(tx) /\ pos'[r] = 1
      BY <1>2, <2>7, Commits DEF MarkSpent
    <3>2. spentBy'[r] = spentBy[r] \cup {o} /\ \A s \in Runs \ {r} : spentBy'[s] = spentBy[s]
      BY <2>3, <3>1
    <3>3. ASSUME NEW i \in DOMAIN tx.inputs PROVE Spends(r, i)' <=> Spends(r, i) \/ i = pos[r]
      <4>1. i \in 1..Len(tx.inputs) /\ Len(tx.inputs) \in Nat /\ pos[r] \in Nat
        BY ListLengths
      <4>2. CASE pos[r] < Len(tx.inputs) /\ pc'[r] = "spend" /\ pos'[r] = pos[r] + 1
        BY <3>1, <4>1, <4>2 DEF Spends
      <4>3. CASE pos[r] = Len(tx.inputs) /\ pc'[r] \in {"insert", "accepted"}
        BY <3>1, <4>1, <4>3 DEF Spends
      <4> QED
        BY <3>1, <4>2, <4>3 DEF AfterSpend
    <3>4. \A i \in DOMAIN tx.proposals : ~Makes(r, i)' /\ ~Makes(r, i)
      BY <3>1, ListLengths DEF Makes, AfterSpend
    <3>5. spentBy'[r] = {tx.inputs[i] : i \in {j \in DOMAIN tx.inputs : Spends(r, j)'}}
      BY <3>1, <3>2, <3>3 DEF OwnInv
    <3>6. madeBy'[r] = {tx.proposals[i].id : i \in {j \in DOMAIN tx.proposals : Makes(r, j)'}}
      BY <3>1, <3>4 DEF OwnInv
    <3>7. /\ spent' = UNION {spentBy'[s] : s \in Runs}
          /\ DOMAIN outputs' = DOMAIN Genesis \cup UNION {madeBy'[s] : s \in Runs}
      BY <3>1, <3>2 DEF OwnInv
    <3>8. \A s \in Runs \ {r} : madeBy'[s] = madeBy[s]
      BY <3>1
    <3> QED
      BY <2>5, <2>6, <3>2, <3>5, <3>6, <3>7, <3>8 DEF OwnInv, Active
  <2>8. CASE InsertOutput(r)
    <3> DEFINE p == tx.proposals[pos[r]].id
    <3>1. /\ pc[r] = "insert" /\ pos[r] \in DOMAIN tx.proposals
          /\ outputs' = Put(outputs, p, tx.proposals[pos[r]].body)
          /\ madeBy' = [madeBy EXCEPT ![r] = @ \cup {p}] /\ UNCHANGED <<spent, spentBy>>
          /\ \/ pos[r] < Len(tx.proposals) /\ pc'[r] = "insert" /\ pos'[r] = pos[r] + 1
             \/ pos[r] = Len(tx.proposals) /\ pc'[r] = "accepted" /\ pos'[r] = 1
      BY <1>2, <2>8, Commits DEF InsertOutput
    <3>2. madeBy'[r] = madeBy[r] \cup {p} /\ \A s \in Runs \ {r} : madeBy'[s] = madeBy[s]
      BY <2>3, <3>1
    <3>3. ASSUME NEW i \in DOMAIN tx.proposals PROVE Makes(r, i)' <=> Makes(r, i) \/ i = pos[r]
      <4>1. i \in 1..Len(tx.proposals) /\ Len(tx.proposals) \in Nat /\ pos[r] \in Nat
        BY ListLengths
      <4>2. CASE pos[r] < Len(tx.proposals) /\ pc'[r] = "insert" /\ pos'[r] = pos[r] + 1
        BY <3>1, <4>1, <4>2 DEF Makes
      <4>3. CASE pos[r] = Len(tx.proposals) /\ pc'[r] = "accepted" /\ pos'[r] = 1
        BY <3>1, <4>1, <4>3 DEF Makes
      <4> QED
        BY <3>1, <4>2, <4>3
    <3>4. \A i \in DOMAIN tx.inputs : Spends(r, i)' /\ Spends(r, i)
      BY <3>1 DEF Spends
    <3>5. madeBy'[r] = {tx.proposals[i].id : i \in {j \in DOMAIN tx.proposals : Makes(r, j)'}}
      <4>1. madeBy[r] = {tx.proposals[i].id : i \in {j \in DOMAIN tx.proposals : Makes(r, j)}}
        BY DEF OwnInv
      <4> QED
        BY <3>1, <3>2, <3>3, <4>1, ZenonT(60)
    <3>6. spentBy'[r] = {tx.inputs[i] : i \in {j \in DOMAIN tx.inputs : Spends(r, j)'}}
      BY <3>1, <3>4 DEF OwnInv
    <3>7. /\ spent' = UNION {spentBy'[s] : s \in Runs}
          /\ DOMAIN outputs' = DOMAIN Genesis \cup UNION {madeBy'[s] : s \in Runs}
      <4>1. DOMAIN outputs' = DOMAIN outputs \cup {p} /\ UNCHANGED <<spent, spentBy>>
        BY <3>1 DEF Put
      <4> HIDE DEF p
      <4>2. ASSUME NEW x
            PROVE  (\E s \in Runs : x \in madeBy'[s]) <=> (x = p \/ \E s \in Runs : x \in madeBy[s])
        BY <3>2
      <4>3. /\ DOMAIN outputs = DOMAIN Genesis \cup UNION {madeBy[s] : s \in Runs}
            /\ spent = UNION {spentBy[s] : s \in Runs}
        BY DEF OwnInv
      <4>4. DOMAIN outputs' = DOMAIN Genesis \cup UNION {madeBy'[s] : s \in Runs}
        BY <4>1, <4>2, <4>3
      <4> QED
        BY <4>1, <4>3, <4>4
    <3>8. \A s \in Runs \ {r} : spentBy'[s] = spentBy[s]
      BY <3>1
    <3> QED
      BY <2>5, <2>6, <3>2, <3>5, <3>6, <3>7, <3>8 DEF OwnInv, Active
  <2> QED
    BY <1>2, <2>7, <2>8
<1> QED
  BY <1>1, <1>2 DEF RunStep

\* Of what the ledger has, nothing changes or goes while it grows.
LEMMA LedgerGrows ==
  ASSUME LedgerAssumption, LedgerInv, NEW r \in Runs, Begin(r) \/ RunStep(r), Inv', OwnInv'
  PROVE  /\ Effective \subseteq Effective' /\ Effective \subseteq DOMAIN outputs
         /\ \A o \in DOMAIN outputs : o \in DOMAIN outputs' /\ outputs'[o] = outputs[o]
         /\ \A s \in Runs \ {r} : pc'[s] = pc[s] /\ pos'[s] = pos[s] /\ spentBy'[s] = spentBy[s] /\ madeBy'[s] = madeBy[s]
         /\ spentBy'[r] \subseteq spentBy[r] \cup InputIds(TxOf[r])
         /\ madeBy[r] \subseteq madeBy'[r] /\ pc[r] \notin Terminal
<1> USE DEF LedgerInv
<1>1. CASE Begin(r) \/ Prepare(r)
  <2>1. Moves(r)
    BY <1>1, BeginMoves, PrepareMoves
  <2>2. /\ \A s \in Runs \ {r} : pc'[s] = pc[s] /\ pos'[s] = pos[s]
        /\ UNCHANGED <<outputs, spentBy, madeBy>> /\ pc[r] \notin Terminal
    BY <2>1 DEF Moves, Late, Inv, TypeOK, RunTypeOK
  <2>3. Effective \subseteq Effective' /\ Effective \subseteq DOMAIN outputs
    <3>1. Accepted \subseteq Accepted'
      BY <2>2 DEF Accepted, Terminal
    <3>2. LedgerView /\ LedgerView'
      BY LedgerHas, LedgerHasNext
    <3> QED
      BY <2>2, <3>1, <3>2 DEF LedgerView, AllMade, Effective
  <2> QED
    BY <2>2, <2>3
<1>2. CASE MarkSpent(r) \/ InsertOutput(r)
  <2>1. /\ \A s \in Runs \ {r} : pc'[s] = pc[s] /\ pos'[s] = pos[s]
        /\ pc[r] \notin Terminal
    <3>1. pc' = [pc EXCEPT ![r] = pc'[r]] /\ pos' = [pos EXCEPT ![r] = pos'[r]]
          /\ pc[r] \in {"spend", "insert"}
      BY <1>2, Commits
    <3> QED
      BY <3>1 DEF Inv, TypeOK, RunTypeOK, Terminal
  <2>2. /\ \A s \in Runs \ {r} : spentBy'[s] = spentBy[s] /\ madeBy'[s] = madeBy[s]
        /\ spentBy'[r] \subseteq spentBy[r] \cup InputIds(TxOf[r]) /\ madeBy[r] \subseteq madeBy'[r]
        /\ \A o \in DOMAIN outputs : o \in DOMAIN outputs' /\ outputs'[o] = outputs[o]
    <3>1. spentBy \in [Runs -> SUBSET spent] /\ madeBy \in [Runs -> SUBSET DOMAIN outputs]
      BY DEF Inv, TypeOK, TraceTypeOK
    <3>2. CASE MarkSpent(r)
      <4>1. /\ pos[r] \in DOMAIN TxOf[r].inputs
            /\ spentBy' = [spentBy EXCEPT ![r] = @ \cup {TxOf[r].inputs[pos[r]]}]
            /\ UNCHANGED <<outputs, madeBy>>
        BY <1>2, <3>2, Commits DEF MarkSpent
      <4> QED
        BY <3>1, <4>1 DEF InputIds
    <3>3. CASE InsertOutput(r)
      <4>1. /\ TxOf[r].proposals[pos[r]].id \notin DOMAIN outputs
            /\ outputs' = Put(outputs, TxOf[r].proposals[pos[r]].id, TxOf[r].proposals[pos[r]].body)
            /\ madeBy' = [madeBy EXCEPT ![r] = @ \cup {TxOf[r].proposals[pos[r]].id}]
            /\ UNCHANGED <<spent, spentBy>>
        BY <1>2, <3>3, Commits DEF InsertOutput
      <4> QED
        BY <3>1, <4>1 DEF Put
    <3> QED
      BY <1>2, <3>2, <3>3
  <2>3. Effective \subseteq Effective' /\ Effective \subseteq DOMAIN outputs
    <3>1. Accepted \subseteq Accepted'
      BY <2>1 DEF Accepted, Terminal
    <3>2. LedgerView /\ LedgerView'
      BY LedgerHas, LedgerHasNext
    <3> QED
      BY <2>2, <3>1, <3>2 DEF LedgerView, AllMade, Effective, Accepted
  <2> QED
    BY <2>1, <2>2, <2>3
<1> QED
  BY <1>1, <1>2 DEF RunStep

LEMMA SeenStep ==
  ASSUME LedgerAssumption, LedgerInv, NEW r \in Runs, Begin(r) \/ RunStep(r), Inv', OwnInv',
         NEW f \in Flushes, r \in Running(f)
  PROVE  SeenInv'
<1> USE DEF LedgerInv
<1>1. /\ Effective \subseteq Effective' /\ Effective \subseteq DOMAIN outputs
      /\ \A o \in DOMAIN outputs : o \in DOMAIN outputs' /\ outputs'[o] = outputs[o]
      /\ \A s \in Runs \ {r} : pc'[s] = pc[s] /\ pos'[s] = pos[s] /\ spentBy'[s] = spentBy[s] /\ madeBy'[s] = madeBy[s]
      /\ spentBy'[r] \subseteq spentBy[r] \cup InputIds(TxOf[r])
  BY LedgerGrows
<1>2. ASSUME NEW s \in Runs \ {r}, Active(s)
      PROVE  Apart(s, r) /\ Apart(r, s)
  BY <1>2, ActiveApart DEF LedgerAssumption
<1>3. ASSUME NEW s \in Runs \ {r}, Active(s)'
      PROVE  /\ \A i \in DOMAIN TxOf[s].inputs : SawInput(s, i)' => SeenInput(s, i)'
             /\ \A i \in DOMAIN TxOf[s].reads : SawRead(s, i)' => SeenRead(s, i)'
  <2>1. Active(s) /\ Apart(s, r)
    BY <1>1, <1>2, <1>3 DEF Active
  <2>2. ASSUME NEW i \in DOMAIN TxOf[s].inputs, SawInput(s, i)' PROVE SeenInput(s, i)'
    <3>1. SeenInput(s, i)
      BY <1>1, <2>1, <2>2 DEF SawInput, SeenInv
    <3>2. TxOf[s].inputs[i] \notin InputIds(TxOf[r])
      BY <2>1 DEF Apart, InputIds
    <3>3. \A t \in Runs \ {s} : TxOf[s].inputs[i] \notin spentBy'[t]
      BY <1>1, <3>1, <3>2 DEF SeenInput
    <3> QED
      BY <1>1, <3>1, <3>3 DEF SeenInput
  <2>3. ASSUME NEW i \in DOMAIN TxOf[s].reads, SawRead(s, i)' PROVE SeenRead(s, i)'
    <3>1. SeenRead(s, i)
      BY <1>1, <2>1, <2>3 DEF SawRead, SeenInv
    <3> QED
      BY <1>1, <3>1 DEF SeenRead
  <2> QED
    BY <2>2, <2>3
\* What r reads now is not of a commit under way: that run would not be apart from it.
<1>4. ASSUME NEW o \in DOMAIN outputs, Active(r), pc[r] \notin {"spend", "insert"},
             o \in InputIds(TxOf[r]) \cup ReadIds(TxOf[r])
      PROVE  o \in Effective
  <2>1. ASSUME NEW s \in InFlight PROVE o \notin madeBy[s]
    <3>1. s \in Runs \ {r} /\ Active(s)
      BY <1>4, <2>1 DEF InFlight, Active, Terminal
    <3>2. madeBy[s] \subseteq ProposalIds(TxOf[s])
      BY <3>1 DEF OwnInv, ProposalIds
    <3> QED
      BY <1>2, <1>4, <3>1, <3>2 DEF Apart
  <2> QED
    BY <1>4, <2>1 DEF Effective
<1>5. ASSUME Active(r)'
      PROVE  /\ \A i \in DOMAIN TxOf[r].inputs : SawInput(r, i)' => SeenInput(r, i)'
             /\ \A i \in DOMAIN TxOf[r].reads : SawRead(r, i)' => SeenRead(r, i)'
  <2>1. ASSUME NEW i \in DOMAIN TxOf[r].inputs, SeenInput(r, i) PROVE SeenInput(r, i)'
    BY <1>1, <2>1 DEF SeenInput
  <2>2. ASSUME NEW i \in DOMAIN TxOf[r].reads, SeenRead(r, i) PROVE SeenRead(r, i)'
    BY <1>1, <2>2 DEF SeenRead
  <2>3. CASE Begin(r) \/ Prepare(r)
    <3>1. Sees(r)
      BY <2>3, BeginMoves, PrepareMoves
    <3>2. ASSUME NEW i \in DOMAIN TxOf[r].inputs, SawInput(r, i)' PROVE SeenInput(r, i)
      <4>1. CASE Active(r) /\ SawInput(r, i)
        BY <4>1 DEF SeenInv
      <4>2. CASE pc[r] = "inputs" /\ TxOf[r].inputs[i] \in DOMAIN outputs \ spent
                 /\ InputOk(outputs[TxOf[r].inputs[i]], TxOf[r])
        <5>1. TxOf[r].inputs[i] \in Effective
          BY <1>4, <4>2 DEF Active, Terminal, InputIds
        <5>2. \A s \in Runs : TxOf[r].inputs[i] \notin spentBy[s]
          BY <4>2 DEF OwnInv
        <5> QED
          BY <4>2, <5>1, <5>2 DEF SeenInput
      <4> QED
        BY <1>5, <3>1, <3>2, <4>1, <4>2 DEF Sees, SawInput, Active
    <3>3. ASSUME NEW i \in DOMAIN TxOf[r].reads, SawRead(r, i)' PROVE SeenRead(r, i)
      <4>1. CASE Active(r) /\ SawRead(r, i)
        BY <4>1 DEF SeenInv
      <4>2. CASE pc[r] = "reads" /\ TxOf[r].reads[i].id \in DOMAIN outputs
                 /\ ReadOk(outputs[TxOf[r].reads[i].id], TxOf[r].reads[i], TxOf[r])
        <5>1. TxOf[r].reads[i].id \in Effective
          BY <1>4, <4>2 DEF Active, Terminal, ReadIds
        <5> QED
          BY <4>2, <5>1 DEF SeenRead
      <4> QED
        BY <1>5, <3>1, <3>3, <4>1, <4>2 DEF Sees, SawRead, Active
    <3> QED
      BY <2>1, <2>2, <3>2, <3>3
  <2>4. CASE MarkSpent(r) \/ InsertOutput(r)
    <3>1. pc[r] \in {"spend", "insert"}
      BY <2>4, Commits
    <3>2. /\ \A i \in DOMAIN TxOf[r].inputs : SeenInput(r, i)
          /\ \A i \in DOMAIN TxOf[r].reads : SeenRead(r, i)
      BY <3>1 DEF SeenInv, Active, Terminal, SawInput, SawRead
    <3> QED
      BY <2>1, <2>2, <3>2
  <2> QED
    BY <2>1, <2>3, <2>4 DEF RunStep
<1> QED
  BY <1>3, <1>5 DEF SeenInv

LEMMA LedgerNextInv ==
  ASSUME LedgerAssumption, LedgerInv, [BatchNext]_batchVars
  PROVE  LedgerInv'
<1> USE DEF LedgerInv
<1>1. BatchInv'
  BY BatchNextInv
<1>2. ASSUME NEW f \in Flushes, NEW r \in Runs, Execute(f, r) PROVE LedgerInv'
  <2>1. r \in Running(f) /\ (Begin(r) \/ RunStep(r)) /\ UNCHANGED planVars
    BY <1>2 DEF Execute
  <2>2. Inv'
    BY <2>1, NextInv DEF Next
  <2>3. OwnInv'
    BY <2>1, OwnStep
  <2>4. SeenInv'
    BY <2>1, <2>2, <2>3, SeenStep
  <2>5. TurnInv'
    <3>1. \A h \in Flushes : Running(h)' = Running(h)
      BY <2>1 DEF Running, planVars
    <3>2. \A s \in Runs \ {r} : pc'[s] = pc[s]
      BY <2>1, <2>2, <2>3, LedgerGrows
    <3> QED
      BY <2>1, <3>1, <3>2 DEF TurnInv, Active
  <2> QED
    BY <1>1, <2>2, <2>3, <2>4, <2>5
<1>3. ASSUME UNCHANGED vars PROVE Inv' /\ OwnInv' /\ SeenInv'
  <2>1. Inv'
    BY <1>3, NextInv
  <2>2. OwnInv'
    BY <1>3 DEF vars, storeVars, runVars, nonceVars, traceVars, OwnInv, Active, Spends, Makes
  <2>3. SeenInv'
    BY <1>3 DEF vars, storeVars, runVars, nonceVars, traceVars, SeenInv, Active, SawInput, SawRead, SeenInput,
       SeenRead, Effective, InFlight
  <2> QED
    BY <2>1, <2>2, <2>3
<1>4. ASSUME NEW f \in Flushes, PlanItem(f) \/ NextTurn(f) PROVE LedgerInv'
  <2>1. UNCHANGED vars
    BY <1>4 DEF PlanItem, NextTurn
  <2>2. \A r \in Runs : ~Active(r)
    <3>1. ASSUME NEW r \in Runs, Active(r) PROVE r \in Running(f)
      BY <3>1 DEF TurnInv, LedgerAssumption, OneFlush
    <3>2. \A r \in Running(f) : pc[r] \in Terminal
      BY <1>4 DEF PlanItem, NextTurn, Running
    <3> QED
      BY <3>1, <3>2 DEF Active
  <2>3. TurnInv'
    BY <2>1, <2>2 DEF TurnInv, Active, vars, runVars
  <2> QED
    BY <1>1, <1>3, <2>1, <2>3
<1>5. ASSUME UNCHANGED batchVars PROVE LedgerInv'
  <2>1. TurnInv'
    BY <1>5 DEF batchVars, vars, runVars, planVars, TurnInv, Active, Running
  <2> QED
    BY <1>1, <1>3, <1>5, <2>1 DEF batchVars
<1> QED
  BY <1>2, <1>4, <1>5 DEF BatchNext

-----------------------------------------------------------------------------
(* Every step is a step of the ledger, or changes nothing there *)

LedgerOutputs == [o \in Effective |-> outputs[o]]
LedgerDone == [r \in Runs |-> IF pc[r] \in Terminal THEN pc[r] ELSE "open"]

LEMMA LedgerStarts == BatchInit => Ledger!Init
<1> SUFFICES ASSUME BatchInit PROVE Ledger!Init
  OBVIOUS
<1>1. /\ outputs = Genesis /\ spent = {} /\ pc = [r \in Runs |-> "idle"]
      /\ InFlight = {}
  BY DEF BatchInit, Init, InFlight
<1>2. Effective = DOMAIN Genesis
  BY <1>1 DEF Effective
<1>3. [o \in Effective |-> outputs[o]] = Genesis
  BY <1>1, <1>2, GenesisAssumption
<1> QED
  BY <1>1, <1>3 DEF Ledger!Init, Terminal

\* What a step of a run does to the ledger.
LEMMA LedgerChanges ==
  ASSUME LedgerAssumption, LedgerInv, NEW r \in Runs, Begin(r) \/ RunStep(r), Inv', OwnInv'
  PROVE  /\ pc'[r] # "accepted" => Effective' = Effective /\ SpentThere' = SpentThere
         /\ pc'[r] = "accepted" => /\ Effective' = Effective \cup ProposalIds(TxOf[r])
                                   /\ SpentThere' = SpentThere \cup InputIds(TxOf[r])
         /\ \A o \in Effective : outputs'[o] = outputs[o]
         /\ pc[r] \notin Terminal
         /\ LedgerDone' = [LedgerDone EXCEPT ![r] = IF pc'[r] \in Terminal THEN pc'[r] ELSE "open"]
<1>1. /\ Effective \subseteq DOMAIN outputs
      /\ \A o \in DOMAIN outputs : o \in DOMAIN outputs' /\ outputs'[o] = outputs[o]
      /\ \A s \in Runs \ {r} : pc'[s] = pc[s] /\ spentBy'[s] = spentBy[s] /\ madeBy'[s] = madeBy[s]
      /\ pc[r] \notin Terminal
  BY LedgerGrows
<1>2. LedgerView /\ LedgerView'
  BY LedgerHas, LedgerHasNext DEF LedgerInv
<1>3. CASE pc'[r] # "accepted"
  <2>1. Accepted' = Accepted
    BY <1>1, <1>3 DEF Accepted, Terminal
  <2>2. \A s \in Accepted : s \in Runs \ {r}
    BY <1>1 DEF Accepted, Terminal
  <2>3. AllMade' = AllMade /\ AllSpent' = AllSpent
    BY <1>1, <2>1, <2>2 DEF AllMade, AllSpent
  <2>4. Effective' = Effective /\ SpentThere' = SpentThere
    BY <1>2, <2>3 DEF LedgerView
  <2>5. LedgerDone' = [LedgerDone EXCEPT ![r] = IF pc'[r] \in Terminal THEN pc'[r] ELSE "open"]
    BY <1>1 DEF LedgerDone
  <2>6. \A o \in Effective : outputs'[o] = outputs[o]
    BY <1>1
  <2> QED
    BY <1>1, <1>3, <2>4, <2>5, <2>6
<1>4. CASE pc'[r] = "accepted"
  <2>1. Accepted' = Accepted \cup {r} /\ r \notin Accepted
    BY <1>1, <1>4 DEF Accepted, Terminal
  <2>2. spentBy'[r] = InputIds(TxOf[r]) /\ madeBy'[r] = ProposalIds(TxOf[r])
    BY <1>4 DEF OwnInv, Spends, Makes, InputIds, ProposalIds
  <2>3. \A s \in Accepted : spentBy'[s] = spentBy[s] /\ madeBy'[s] = madeBy[s]
    BY <1>1, <2>1 DEF Accepted
  <2>4. AllMade' = AllMade \cup ProposalIds(TxOf[r])
    <3>1. \A o : o \in AllMade <=> \E s \in Accepted : o \in madeBy[s]
      BY DEF AllMade
    <3>2. \A o : o \in AllMade' <=> \E s \in Accepted' : o \in madeBy'[s]
      BY DEF AllMade
    <3>3. \A o : o \in AllMade' <=> o \in AllMade \/ o \in ProposalIds(TxOf[r])
      BY <2>1, <2>2, <2>3, <3>1, <3>2
    <3> QED
      BY <3>3
  <2>5. AllSpent' = AllSpent \cup InputIds(TxOf[r])
    <3>1. \A o : o \in AllSpent <=> \E s \in Accepted : o \in spentBy[s]
      BY DEF AllSpent
    <3>2. \A o : o \in AllSpent' <=> \E s \in Accepted' : o \in spentBy'[s]
      BY DEF AllSpent
    <3>3. \A o : o \in AllSpent' <=> o \in AllSpent \/ o \in InputIds(TxOf[r])
      BY <2>1, <2>2, <2>3, <3>1, <3>2
    <3> QED
      BY <3>3
  <2>6. LedgerDone' = [LedgerDone EXCEPT ![r] = IF pc'[r] \in Terminal THEN pc'[r] ELSE "open"]
    BY <1>1 DEF LedgerDone
  <2>7. Effective' = Effective \cup ProposalIds(TxOf[r]) /\ SpentThere' = SpentThere \cup InputIds(TxOf[r])
    BY <1>2, <2>4, <2>5 DEF LedgerView
  <2>8. \A o \in Effective : outputs'[o] = outputs[o]
    BY <1>1
  <2> QED
    BY <1>1, <1>4, <2>6, <2>7, <2>8
<1> QED
  BY <1>3, <1>4

\* Whether a transaction is executable in the ledger.
Fits(r) ==
  LET tx == TxOf[r]
  IN  /\ Admissible(tx)
      /\ \A i \in DOMAIN tx.inputs : tx.inputs[i] \in Effective \ SpentThere /\ InputOk(outputs[tx.inputs[i]], tx)
      /\ \A i \in DOMAIN tx.reads : tx.reads[i].id \in Effective /\ ReadOk(outputs[tx.reads[i].id], tx.reads[i], tx)
      /\ \A i \in DOMAIN tx.proposals : tx.proposals[i].id \notin Effective
      /\ ValidResolved(tx, [i \in DOMAIN tx.inputs |-> outputs[tx.inputs[i]]])

\* The ledger judges by the rules of the transactions, the same as the runs do.
LEMMA SameRules ==
  ASSUME NEW tx
  PROVE  /\ Ledger!Admissible(tx) <=> Admissible(tx)
         /\ \A b : Ledger!InputOk(b, tx) <=> InputOk(b, tx)
         /\ \A b, ref : Ledger!ReadOk(b, ref, tx) <=> ReadOk(b, ref, tx)
         /\ \A ins : Ledger!ValidResolved(tx, ins) <=> ValidResolved(tx, ins)
<1>1. Ledger!Admissible(tx) <=> Admissible(tx)
  BY DEF Ledger!Admissible, Admissible, Ledger!BasicSanityCheck, BasicSanityCheck, Ledger!ValidateTxEnvelope,
     ValidateTxEnvelope, Ledger!DomainAccepts, DomainAccepts, Ledger!NonceRequired, NonceRequired, None,
     Ledger!None
<1>2. \A b : Ledger!LifecycleOk(b, tx) <=> LifecycleOk(b, tx)
  BY DEF Ledger!LifecycleOk, LifecycleOk, Ledger!CommonFlagsOk, CommonFlagsOk, None, Ledger!None
<1>3. /\ \A b : Ledger!InputOk(b, tx) <=> InputOk(b, tx)
      /\ \A b, ref : Ledger!ReadOk(b, ref, tx) <=> ReadOk(b, ref, tx)
  BY <1>2 DEF Ledger!InputOk, InputOk, Ledger!ReadOk, ReadOk
<1>4. ASSUME NEW ins PROVE Ledger!ValidateOutputProposals(tx, ins) <=> ValidateOutputProposals(tx, ins)
  <2>1. \A b, p : Ledger!Succeeds(b, p) <=> Succeeds(b, p)
    BY DEF Ledger!Succeeds, Succeeds, Ledger!NextVersion, NextVersion
  <2>2. \A b : Ledger!ProposalOk(b, tx, ins) <=> ProposalOk(b, tx, ins)
    BY <1>2, <2>1 DEF Ledger!ProposalOk, ProposalOk, None, Ledger!None
  <2> QED
    BY <2>2 DEF Ledger!ValidateOutputProposals, ValidateOutputProposals
<1>5. ASSUME NEW ins PROVE Ledger!Authorize(tx, ins) <=> Authorize(tx, ins)
  <2>1. \A o : Ledger!OwnerConsents(o, tx.sigs) <=> OwnerConsents(o, tx.sigs)
    BY DEF Ledger!OwnerConsents, OwnerConsents, Ledger!SignedBy, SignedBy
  <2>2. \A l : Ledger!LockOpens(l, tx) <=> LockOpens(l, tx)
    BY DEF Ledger!LockOpens, LockOpens
  <2> QED
    BY <2>1, <2>2 DEF Ledger!Authorize, Authorize, None, Ledger!None
<1>6. ASSUME NEW ins PROVE Ledger!CheckResources(tx, ins) <=> CheckResources(tx, ins)
  <2>1. ASSUME NEW bodies, NEW a, NEW kinds PROVE Ledger!Counter(bodies, a, kinds) = Counter(bodies, a, kinds)
    BY DEF Ledger!Counter, Counter, Ledger!MapThenSumSet, MapThenSumSet, Ledger!MapThenFoldSet, MapThenFoldSet
  <2>2. ASSUME NEW bodies, NEW a
        PROVE  /\ Ledger!AmountOf(bodies, a) = AmountOf(bodies, a) /\ Ledger!ItemsOf(bodies, a) = ItemsOf(bodies, a)
               /\ Ledger!ValuesOf(bodies, a) = ValuesOf(bodies, a) /\ Ledger!AssetsOf(bodies) = AssetsOf(bodies)
    BY <2>1 DEF Ledger!AmountOf, AmountOf, Ledger!ItemsOf, ItemsOf, Ledger!ValuesOf, ValuesOf, Ledger!AssetsOf, AssetsOf
  <2>3. Ledger!ProposedBodies(tx) = ProposedBodies(tx)
    BY DEF Ledger!ProposedBodies, ProposedBodies
  <2>4. ASSUME NEW outs PROVE Ledger!AggregateResources(ins, outs) <=> AggregateResources(ins, outs)
    BY <2>2 DEF Ledger!AggregateResources, AggregateResources
  <2> QED
    BY <2>2, <2>3, <2>4 DEF Ledger!CheckResources, CheckResources
<1>7. \A ins : Ledger!ValidResolved(tx, ins) <=> ValidResolved(tx, ins)
  BY <1>4, <1>5, <1>6 DEF Ledger!ValidResolved, ValidResolved
<1> QED
  BY <1>1, <1>3, <1>7

LEMMA FitsIs ==
  ASSUME LedgerAssumption, NEW r \in Runs
  PROVE  Ledger!Executable(TxOf[r]) <=> Fits(r)
<1> DEFINE tx == TxOf[r]
<1>1. /\ Ledger!Distinct(tx.inputs) /\ Ledger!Distinct(Ledger!ProposedIds(tx))
  BY DEF LedgerAssumption, NamedOnce, Ledger!Distinct, Ledger!ProposedIds
<1>2. \A o \in Effective : LedgerOutputs[o] = outputs[o]
  BY DEF LedgerOutputs
<1>3. DOMAIN LedgerOutputs = Effective
  BY DEF LedgerOutputs
<1>4. ASSUME \A i \in DOMAIN tx.inputs : tx.inputs[i] \in Effective
      PROVE  [i \in DOMAIN tx.inputs |-> LedgerOutputs[tx.inputs[i]]] = [i \in DOMAIN tx.inputs |-> outputs[tx.inputs[i]]]
  BY <1>2, <1>4
<1>5. Ledger!Executable(tx) <=>
        /\ Admissible(tx)
        /\ \A i \in DOMAIN tx.inputs :
             tx.inputs[i] \in DOMAIN LedgerOutputs \ SpentThere /\ InputOk(LedgerOutputs[tx.inputs[i]], tx)
        /\ \A i \in DOMAIN tx.reads :
             tx.reads[i].id \in DOMAIN LedgerOutputs /\ ReadOk(LedgerOutputs[tx.reads[i].id], tx.reads[i], tx)
        /\ \A i \in DOMAIN tx.proposals : tx.proposals[i].id \notin DOMAIN LedgerOutputs
        /\ ValidResolved(tx, [i \in DOMAIN tx.inputs |-> LedgerOutputs[tx.inputs[i]]])
  BY <1>1, SameRules DEF Ledger!Executable, LedgerOutputs, SpentThere
<1> HIDE DEF LedgerOutputs
<1> QED
  BY <1>2, <1>3, <1>4, <1>5 DEF Fits

\* What a run that is past its checks read is what the ledger has.
LEMMA ReadAsStored ==
  ASSUME Inv, NEW r \in Runs, pc[r] \in {"check", "clock", "nonce", "spend", "insert"}
  PROVE  [i \in DOMAIN TxOf[r].inputs |-> outputs[TxOf[r].inputs[i]]] = snap[r]
<1>1. Resolved(r) /\ snap[r] \in Seq(Bodies)
  BY DEF Inv, IInv, SnapInv, TypeOK, RunTypeOK
<1>2. Len(snap[r]) = Len(TxOf[r].inputs) /\ \A i \in DOMAIN snap[r] : snap[r][i] = outputs[TxOf[r].inputs[i]]
  BY <1>1 DEF Resolved
<1>3. DOMAIN TxOf[r].inputs = 1..Len(snap[r]) /\ snap[r] = [i \in 1..Len(snap[r]) |-> snap[r][i]]
  BY <1>1, <1>2, ListLengths
<1>4. DOMAIN snap[r] = 1..Len(snap[r])
  BY <1>1
<1> QED
  BY <1>2, <1>3, <1>4

\* The outputs a run is about to make, or has made so far, are not in the ledger.
LEMMA NotThereYet ==
  ASSUME LedgerAssumption, LedgerInv, NEW r \in Runs, pc[r] = "insert", NEW o \in ProposalIds(TxOf[r])
  PROVE  o \notin Effective
<1>1. Effective = DOMAIN Genesis \cup AllMade
  BY LedgerHas DEF LedgerView, LedgerInv
<1>2. o \notin DOMAIN Genesis
  BY DEF LedgerAssumption, IdsNew
<1>3. ASSUME NEW s \in Accepted, o \in madeBy[s] PROVE FALSE
  <2>1. s \in Runs \ {r} /\ o \in ProposalIds(TxOf[s])
    BY <1>3 DEF Accepted, LedgerInv, OwnInv, ProposalIds
  <2>2. PICK i : i \in InputIds(TxOf[r]) \cap InputIds(TxOf[s])
    BY <2>1 DEF LedgerAssumption, IdsNew
  <2>3. i \in spentBy[r] /\ i \in spentBy[s]
    BY <1>3, <2>1, <2>2 DEF Accepted, LedgerInv, OwnInv, Spends, InputIds
  <2> QED
    BY <2>1, <2>3 DEF LedgerInv, Inv, IInv, SpendInv
<1> QED
  BY <1>1, <1>2, <1>3 DEF AllMade

\* A run that is accepted was executable in the ledger just before.
LEMMA AcceptedFits ==
  ASSUME LedgerAssumption, LedgerInv, NEW r \in Runs, Begin(r) \/ RunStep(r), pc'[r] = "accepted"
  PROVE  Fits(r)
<1> DEFINE tx == TxOf[r]
<1> USE DEF LedgerInv
<1>1. pc[r] \in {"spend", "insert"} /\ (pc[r] = "spend" => tx.proposals = << >>)
  <2>1. CASE Begin(r) \/ Prepare(r)
    <3>1. Moves(r)
      BY <2>1, BeginMoves, PrepareMoves
    <3>2. tx.inputs = << >> /\ tx.proposals = << >>
      BY <3>1 DEF Moves
    <3>3. Admissible(tx)
      <4>1. CASE Begin(r)
        BY <4>1, BeginMoves
      <4>2. CASE Prepare(r)
        BY <4>2 DEF Prepare, ReadInput, ReadReference, CheckResolved, ReadClock, RegisterNonce, Active, Terminal, OwnInv
      <4> QED
        BY <2>1, <4>1, <4>2
    <3> QED
      BY <3>2, <3>3 DEF Admissible, BasicSanityCheck
  <2>2. CASE MarkSpent(r) \/ InsertOutput(r)
    BY <2>2, Commits DEF AfterSpend
  <2> QED
    BY <2>1, <2>2 DEF RunStep
<1>2. Active(r) /\ Admissible(tx)
  BY <1>1 DEF Active, Terminal, OwnInv
<1>3. /\ \A i \in DOMAIN tx.inputs : SeenInput(r, i)
      /\ \A i \in DOMAIN tx.reads : SeenRead(r, i)
  BY <1>1, <1>2 DEF SeenInv, SawInput, SawRead
<1>4. ASSUME NEW i \in DOMAIN tx.inputs PROVE tx.inputs[i] \notin SpentThere
  <2>1. SpentThere = AllSpent
    BY LedgerHas DEF LedgerView
  <2>2. r \notin Accepted
    BY <1>1 DEF Accepted
  <2> QED
    BY <1>3, <2>1, <2>2 DEF AllSpent, Accepted, SeenInput
<1>5. \A i \in DOMAIN tx.proposals : tx.proposals[i].id \notin Effective
  BY <1>1, NotThereYet DEF ProposalIds
<1>6. ValidResolved(tx, [i \in DOMAIN tx.inputs |-> outputs[tx.inputs[i]]])
  <2>1. ValidResolved(tx, snap[r])
    BY <1>1 DEF Inv, IInv, SnapInv, Resolved
  <2> QED
    BY <1>1, <2>1, ReadAsStored
<1> QED
  BY <1>2, <1>3, <1>4, <1>5, <1>6 DEF Fits, SeenInput, SeenRead

\* A run that is refused was not.
LEMMA RefusedFitsNot ==
  ASSUME LedgerAssumption, LedgerInv, NEW r \in Runs, Begin(r) \/ RunStep(r), pc'[r] = "rejected",
         NEW f \in Flushes, r \in Running(f)
  PROVE  ~Fits(r)
<1> DEFINE tx == TxOf[r]
<1> USE DEF LedgerInv, Inv, TypeOK
<1>1. pc \in [Runs -> Phases] /\ pos[r] \in Nat \ {0}
  BY DEF RunTypeOK
<1>2. CASE Begin(r)
  <2>1. ~Admissible(tx)
    BY <1>1, <1>2 DEF Begin, GoTo, AfterBegin, AfterInputs
  <2> QED
    BY <2>1 DEF Fits
<1>3. CASE ReadInput(r)
  <2> DEFINE o == tx.inputs[pos[r]]
  <2>1. pc[r] = "inputs" /\ pos[r] \in DOMAIN tx.inputs
    BY <1>3, ListLengths DEF ReadInput, IInv, PosInv
  <2>2. ~(o \in DOMAIN outputs /\ o \notin spent /\ InputOk(outputs[o], tx))
    <3> SUFFICES ASSUME o \in DOMAIN outputs /\ o \notin spent /\ InputOk(outputs[o], tx) PROVE FALSE
      OBVIOUS
    <3>1. Advance(r, tx.inputs, AfterInputs(tx))
      BY <1>3 DEF ReadInput
    <3> QED
      BY <1>1, <2>1, <3>1 DEF Advance, GoTo, AfterInputs
  <2>3. ASSUME o \in spent PROVE o \in SpentThere
    <3>1. PICK s \in Runs : o \in spentBy[s]
      BY <2>3 DEF OwnInv
    <3>2. o \in InputIds(TxOf[s]) /\ o \in InputIds(tx) /\ pc[s] \in {"spend", "insert", "accepted"}
      BY <2>1, <3>1 DEF OwnInv, Spends, InputIds
    <3>3. s # r
      BY <2>1, <3>2
    <3>4. ~Active(s)
      BY <3>2, <3>3, ActiveApart DEF Apart, LedgerAssumption
    <3>5. s \in Accepted
      BY <3>2, <3>4 DEF Active, Terminal, Accepted
    <3> QED
      BY <3>1, <3>5, LedgerHas DEF LedgerView, AllSpent
  <2>4. o \in Effective => o \in DOMAIN outputs
    BY DEF Effective
  <2> QED
    BY <2>1, <2>2, <2>3, <2>4 DEF Fits
<1>4. CASE ReadReference(r)
  <2> DEFINE ref == tx.reads[pos[r]]
  <2>1. pc[r] = "reads" /\ pos[r] \in DOMAIN tx.reads
    BY <1>4, ListLengths DEF ReadReference, IInv, PosInv
  <2>2. ~(ref.id \in DOMAIN outputs /\ ReadOk(outputs[ref.id], ref, tx))
    <3> SUFFICES ASSUME ref.id \in DOMAIN outputs /\ ReadOk(outputs[ref.id], ref, tx) PROVE FALSE
      OBVIOUS
    <3>1. Advance(r, tx.reads, "check")
      BY <1>4 DEF ReadReference
    <3> QED
      BY <1>1, <2>1, <3>1 DEF Advance, GoTo
  <2>3. ref.id \in Effective => ref.id \in DOMAIN outputs
    BY DEF Effective
  <2> QED
    BY <2>1, <2>2, <2>3 DEF Fits
<1>5. CASE CheckResolved(r) \/ ReadClock(r) \/ RegisterNonce(r)
  <2>1. CheckResolved(r)
    BY <1>5, CheckMoves
  <2>2. pc[r] = "check" /\ ~ValidResolved(tx, snap[r])
    <3>1. AfterNonce(tx) # "rejected"
      BY AfterNonceIs
    <3> QED
      BY <1>1, <2>1, <3>1 DEF CheckResolved, GoTo
  <2> QED
    BY <2>2, ReadAsStored DEF Fits
<1>6. CASE MarkSpent(r) \/ InsertOutput(r)
  BY <1>6, Commits DEF AfterSpend
<1> QED
  BY <1>2, <1>3, <1>4, <1>5, <1>6 DEF RunStep, Prepare

\* What accepting a run does to the outputs of the ledger.
LEMMA OutputsCommitted ==
  ASSUME LedgerAssumption, LedgerInv, NEW r \in Runs, Begin(r) \/ RunStep(r), Inv', OwnInv',
         pc'[r] = "accepted"
  PROVE  LET tx == TxOf[r]
             ids == {tx.proposals[i].id : i \in DOMAIN tx.proposals}
             bodyOf(o) == tx.proposals[CHOOSE i \in DOMAIN tx.proposals : tx.proposals[i].id = o].body
         IN  LedgerOutputs' = [o \in DOMAIN LedgerOutputs \cup ids |-> IF o \in ids THEN bodyOf(o) ELSE LedgerOutputs[o]]
<1> DEFINE tx == TxOf[r]
           ids == {tx.proposals[i].id : i \in DOMAIN tx.proposals}
           at(o) == CHOOSE i \in DOMAIN tx.proposals : tx.proposals[i].id = o
<1>1. Effective' = Effective \cup ids /\ \A o \in Effective : outputs'[o] = outputs[o]
  BY LedgerChanges DEF ProposalIds
<1>2. ASSUME NEW o \in ids PROVE o \notin Effective /\ outputs'[o] = tx.proposals[at(o)].body
  <2>1. at(o) \in DOMAIN tx.proposals /\ tx.proposals[at(o)].id = o
    BY <1>2
  <2>2. o \notin Effective
    <3>1. Fits(r)
      BY AcceptedFits
    <3> QED
      BY <1>2, <3>1 DEF Fits
  <2>3. \A i \in DOMAIN tx.proposals : outputs'[tx.proposals[i].id] = tx.proposals[i].body
    BY DEF Inv, IInv, MadeInv, Stored
  <2> QED
    BY <2>1, <2>2, <2>3
<1>3. LedgerOutputs' = [o \in Effective' |-> outputs'[o]] /\ DOMAIN LedgerOutputs = Effective
      /\ \A o \in Effective : LedgerOutputs[o] = outputs[o]
  BY DEF LedgerOutputs
<1> HIDE DEF ids, at
<1>4. LedgerOutputs' = [o \in DOMAIN LedgerOutputs \cup ids |->
                          IF o \in ids THEN tx.proposals[at(o)].body ELSE LedgerOutputs[o]]
  BY <1>1, <1>2, <1>3
<1> QED
  BY <1>4 DEF ids, at

LEMMA LedgerStep ==
  ASSUME LedgerAssumption, LedgerInv, LedgerInv', [BatchNext]_batchVars
  PROVE  [Ledger!Next]_(Ledger!ledgerVars)
<1>1. ASSUME UNCHANGED vars PROVE UNCHANGED Ledger!ledgerVars
  BY <1>1 DEF vars, storeVars, runVars, traceVars, Ledger!ledgerVars, Effective, InFlight
<1>2. ASSUME NEW f \in Flushes, NEW r \in Runs, Execute(f, r) PROVE [Ledger!Next]_(Ledger!ledgerVars)
  <2>1. r \in Running(f) /\ (Begin(r) \/ RunStep(r)) /\ Inv' /\ OwnInv'
    BY <1>2 DEF Execute, LedgerInv
  <2>2. /\ pc'[r] # "accepted" => Effective' = Effective /\ SpentThere' = SpentThere
        /\ pc'[r] = "accepted" => SpentThere' = SpentThere \cup InputIds(TxOf[r])
        /\ \A o \in Effective : outputs'[o] = outputs[o]
        /\ pc[r] \notin Terminal
        /\ LedgerDone' = [LedgerDone EXCEPT ![r] = IF pc'[r] \in Terminal THEN pc'[r] ELSE "open"]
    BY <2>1, LedgerChanges
  <2>3. LedgerDone[r] = "open" /\ LedgerDone = [LedgerDone EXCEPT ![r] = "open"]
    BY <2>2 DEF LedgerDone
  <2>4. pc'[r] # "accepted" => LedgerOutputs' = LedgerOutputs
    BY <2>2 DEF LedgerOutputs
  <2>5. CASE pc'[r] \notin Terminal
    <3>1. UNCHANGED <<LedgerOutputs, SpentThere, LedgerDone>>
      BY <2>2, <2>3, <2>4, <2>5 DEF Terminal
    <3> QED
      BY <3>1 DEF Ledger!ledgerVars, LedgerOutputs, SpentThere, LedgerDone
  <2>6. CASE pc'[r] = "accepted"
    <3>1. Ledger!Executable(TxOf[r])
      BY <2>1, <2>6, AcceptedFits, FitsIs
    <3>2. LET tx == TxOf[r]
              ids == {tx.proposals[i].id : i \in DOMAIN tx.proposals}
              bodyOf(o) == tx.proposals[CHOOSE i \in DOMAIN tx.proposals : tx.proposals[i].id = o].body
          IN  LedgerOutputs' = [o \in DOMAIN LedgerOutputs \cup ids |-> IF o \in ids THEN bodyOf(o) ELSE LedgerOutputs[o]]
      BY <2>1, <2>6, OutputsCommitted
    <3>3. SpentThere' = SpentThere \cup {TxOf[r].inputs[i] : i \in DOMAIN TxOf[r].inputs}
      BY <2>2, <2>6 DEF InputIds
    <3>4. LedgerDone' = [LedgerDone EXCEPT ![r] = "accepted"]
      BY <2>2, <2>6 DEF Terminal
    <3>5. Ledger!Commit(r)
      BY <2>3, <3>1, <3>2, <3>3, <3>4 DEF Ledger!Commit, LedgerOutputs, SpentThere, LedgerDone
    <3> QED
      BY <3>5 DEF Ledger!Next
  <2>7. CASE pc'[r] = "rejected"
    <3>1. ~Ledger!Executable(TxOf[r])
      BY <2>1, <2>7, RefusedFitsNot, FitsIs
    <3>2. UNCHANGED <<LedgerOutputs, SpentThere>>
      BY <2>2, <2>4, <2>7
    <3>3. LedgerDone' = [LedgerDone EXCEPT ![r] = "rejected"]
      BY <2>2, <2>7 DEF Terminal
    <3>4. Ledger!Refuse(r)
      BY <2>3, <3>1, <3>2, <3>3 DEF Ledger!Refuse, LedgerOutputs, SpentThere, LedgerDone
    <3> QED
      BY <3>4 DEF Ledger!Next
  <2> QED
    BY <2>5, <2>6, <2>7 DEF Terminal
<1>3. ASSUME NEW f \in Flushes, PlanItem(f) \/ NextTurn(f) PROVE UNCHANGED vars
  BY <1>3 DEF PlanItem, NextTurn
<1> QED
  BY <1>1, <1>2, <1>3 DEF BatchNext, batchVars

\* ImplementsLedger but for its fairness: a flush that has the store for itself, over
\* transactions that name an output once and propose new ones, executes each as if at one
\* instant, whatever it runs at once, and refuses exactly those that instant does not allow.
THEOREM FlushIsAtomic ==
  ASSUME LedgerAssumption
  PROVE  BatchSpec => Ledger!Init /\ [][Ledger!Next]_(Ledger!ledgerVars)
<1>1. LedgerInv /\ [BatchNext]_batchVars => LedgerInv'
  BY LedgerNextInv
<1>2. LedgerInv /\ LedgerInv' /\ [BatchNext]_batchVars => [Ledger!Next]_(Ledger!ledgerVars)
  BY LedgerStep
<1> QED
  BY <1>1, <1>2, LedgerInit, LedgerStarts, PTL DEF BatchSpec
=============================================================================
