------------------------ MODULE ComputeServiceProofs ------------------------
(***************************************************************************)
(* OwnItemTaken, HandedOnce, AcceptedIsTrue and StableAnswer for any       *)
(* submissions, lanes, limits and crashes, and any interleaving of the     *)
(* tasks that serve them.                                                  *)
(***************************************************************************)
EXTENDS ComputeService, FoldFacts

-----------------------------------------------------------------------------
(* The inductive invariants *)

Lanes == ToSet(LaneKeys)

TaskInv ==
  /\ config \in Configs /\ crashes \in Nat
  /\ lanes \in [Lanes -> Seq(Submissions)]
  /\ phase \in [Submissions -> Phases] /\ age \in [Submissions -> 0..Window]
  /\ rest \in [Submissions -> Seq(Submissions)] /\ hand \in [Submissions -> SUBSET Submissions]

\* A lane is in the order of arrival, so that what is ripe is its front.
LaneInv ==
  /\ \A l \in Lanes :
       /\ IsInjective(lanes[l])
       /\ \A i \in DOMAIN lanes[l] :
            LaneOf[TxOf[lanes[l][i]]] = l /\ phase[lanes[l][i]] \notin {"idle", "queue"}
       /\ \A i, j \in DOMAIN lanes[l] : i < j => age[lanes[l][j]] <= age[lanes[l][i]]
  /\ \A s \in Submissions : phase[s] \in {"idle", "queue"} => age[s] = 0
  /\ OwnItemTaken

\* What the flush of f has and has not run.
Has(f) == ToSet(rest[f]) \cup hand[f]

\* A submission is with one flush, in its rest or in its hand, or elsewhere.
HandInv ==
  /\ \A f \in Submissions :
       /\ IsInjective(rest[f]) /\ ToSet(rest[f]) \cap hand[f] = {}
       /\ Has(f) \cap (Queued \cup ran) = {}
       /\ hand[f] # {} => phase[f] = "run"
       /\ rest[f] # << >> => phase[f] \in {"flush", "run"}
  /\ \A f, g \in Submissions : f # g => Has(f) \cap Has(g) = {}
  /\ Queued \cap ran = {}
  /\ \A s \in Submissions :
       /\ phase[s] \in {"idle", "queue"} => s \notin Queued \cup ran \cup UNION {Has(f) : f \in Submissions}
       /\ config.serial /\ crashes = 0 /\ phase[s] \in {"sleep", "flush", "run", "look"}
            => s \in Queued \cup ran \cup UNION {Has(f) : f \in Submissions}

\* Outcomes that do not claim what did not happen.
TrueOutcomes == {o \in [tx : Txs, accepted : BOOLEAN] : o.accepted => Makes[o.tx] \subseteq stored}

\* Whoever is about to tell, remember or persist that a transaction was accepted.
TruthInv ==
  /\ completed \in Seq(TrueOutcomes) /\ outcomes \in [Submissions -> Seq(TrueOutcomes)]
  /\ results \in Seq(Txs) /\ persisted \subseteq Txs /\ answer \in [Submissions -> Answers]
  /\ \A t \in ToSet(results) \cup persisted : Makes[t] \subseteq stored
  /\ \A s \in Submissions :
       /\ phase[s] = "note" => Len(outcomes[s]) = 1 /\ outcomes[s][1].tx = TxOf[s]
       /\ phase[s] \in {"persist", "cache"} \/ answer[s] \in {"accepted", "duplicate"}
            => Makes[TxOf[s]] \subseteq stored

\* With a persistent store nothing is told or cached before it is on disk.
DiskInv ==
  config.durable =>
    /\ ToSet(results) \subseteq persisted
    /\ \A s \in Submissions :
         phase[s] = "cache" \/ answer[s] \in {"accepted", "duplicate"} => TxOf[s] \in persisted

-----------------------------------------------------------------------------
(* The steps                                                               *)

\* A task goes on, and neither the queue nor what flushes hold changes.
Moved(s, p) ==
  /\ phase' = [phase EXCEPT ![s] = p] /\ p \in Phases \ {"idle", "sleep", "run", "look"}
  /\ p = "queue" => phase[s] = "idle"
  /\ p = "flush" => phase[s] = "run" /\ hand[s] = {}
  /\ phase[s] # "flush" /\ (phase[s] = "run" => p = "flush")
  /\ UNCHANGED <<config, lanes, age, rest, hand, ran, crashes>>

Turned(s) ==
  /\ phase[s] = "queue" /\ ((GoTo(s, "alone") /\ UNCHANGED answer) \/ Answer(s, "error"))
  /\ UNCHANGED <<config, store, lanes, age, flushVars, completed, persisted, results, ran, crashes>>

Enqueue(s) ==
  /\ phase[s] = "queue" /\ phase' = [phase EXCEPT ![s] = "sleep"]
  /\ lanes' = [lanes EXCEPT ![LaneOf[TxOf[s]]] = Append(lanes[LaneOf[TxOf[s]]], s)]
  /\ UNCHANGED <<config, store, age, flushVars, completed, answered, ran, crashes>>

Quiet(s) ==
  \/ Receive(s) \/ Turned(s) \/ HangUp(s) \/ RecordChunk(s)
  \/ Look(s) \/ RunAlone(s) \/ NoteAlone(s) \/ Persist(s) \/ Cache(s)

LEMMA QuietMoves ==
  ASSUME NEW s \in Submissions, Quiet(s)
  PROVE  \E p : Moved(s, p)
<1>1. ASSUME NEW p \in Phases \ {"idle", "sleep", "run", "look", "queue", "flush"}, GoTo(s, p),
             phase[s] \notin {"flush", "run"}, UNCHANGED <<config, lanes, age, rest, hand, ran, crashes>>
      PROVE  Moved(s, p)
  BY <1>1 DEF Moved, GoTo
<1>2. ASSUME NEW o, Conclude(s, o)
      PROVE  \E p \in Phases \ {"idle", "sleep", "run", "look", "queue", "flush"} : GoTo(s, p)
  BY <1>2 DEF Conclude, Answer, Phases
<1>3. ASSUME Receive(s) PROVE \E p : Moved(s, p)
  <2>1. phase[s] = "idle" /\ (GoTo(s, "over") \/ GoTo(s, "queue"))
        /\ UNCHANGED <<config, lanes, age, rest, hand, ran, crashes>>
    BY <1>3 DEF Receive, Answer, flushVars
  <2> QED
    BY <2>1 DEF Moved, GoTo, Phases
<1>4. ASSUME Turned(s) PROVE \E p : Moved(s, p)
  <2>1. phase[s] = "queue" /\ (GoTo(s, "over") \/ GoTo(s, "alone"))
        /\ UNCHANGED <<config, lanes, age, rest, hand, ran, crashes>>
    BY <1>4 DEF Turned, Answer, flushVars
  <2> QED
    BY <1>1, <2>1 DEF Phases
<1>5. ASSUME RecordChunk(s) PROVE \E p : Moved(s, p)
  BY <1>5 DEF RecordChunk, Moved, GoTo, Phases
<1>6. ASSUME HangUp(s) \/ RunAlone(s) \/ Persist(s) \/ Cache(s) PROVE \E p : Moved(s, p)
  <2>1. phase[s] \in {"sleep", "alone", "persist", "cache"}
        /\ (GoTo(s, "over") \/ GoTo(s, "note") \/ GoTo(s, "cache"))
        /\ UNCHANGED <<config, lanes, age, rest, hand, ran, crashes>>
    BY <1>6 DEF HangUp, RunAlone, Persist, Cache, Answer, flushVars
  <2> QED
    BY <1>1, <2>1 DEF Phases
<1>7. ASSUME Look(s) \/ NoteAlone(s) PROVE \E p : Moved(s, p)
  <2>1. phase[s] \in {"look", "note"} /\ UNCHANGED <<config, lanes, age, rest, hand, ran, crashes>>
    BY <1>7 DEF Look, NoteAlone, flushVars
  <2>2. (\E o : Conclude(s, o)) \/ GoTo(s, "alone") \/ GoTo(s, "over")
    BY <1>7 DEF Look, NoteAlone, Answer
  <2> QED
    BY <1>1, <1>2, <2>1, <2>2 DEF Phases
<1> QED
  BY <1>3, <1>4, <1>5, <1>6, <1>7 DEF Quiet

\* The steps of the system, sorted by what they do to the queue and the flushes.
LEMMA Steps ==
  ASSUME [ServiceNext]_svcVars
  PROVE  \/ \E s \in Submissions : \/ Quiet(s) \/ Enqueue(s) \/ Drain(s) \/ TakeChunk(s)
                                   \/ \E i \in Submissions : RunItem(s, i)
         \/ Elapse \/ Crash \/ UNCHANGED svcVars
<1>1. ASSUME NEW s \in Submissions, Queue(s) PROVE Turned(s) \/ Enqueue(s)
  BY <1>1 DEF Queue, Turned, Enqueue, GoTo, answered
<1> QED
  BY <1>1 DEF ServiceNext, Serve, Flush, Settle, Quiet

\* What ripe items are: those before the first that is not.
LEMMA Ripens ==
  ASSUME NEW q \in Seq(Submissions)
  PROVE  /\ Ripe(q) \in 0..Len(q) /\ \A i \in 1..Ripe(q) : Aged(q[i])
         /\ Ripe(q) < Len(q) => ~Aged(q[Ripe(q) + 1])
<1> DEFINE Stops(n) == n \in 0..Len(q) /\ (\A i \in 1..n : Aged(q[i])) /\ (n < Len(q) => ~Aged(q[n + 1]))
           A == {n \in Nat : n <= Len(q) => (\A i \in 1..n : Aged(q[i])) \/ \E m \in 0..Len(q) : Stops(m)}
<1>0. Len(q) \in Nat
  OBVIOUS
<1>1. 0 \in A
  OBVIOUS
<1>2. ASSUME NEW n \in Nat, n \in A PROVE n + 1 \in A
  <2> SUFFICES ASSUME n + 1 <= Len(q), ~\E m \in 0..Len(q) : Stops(m) PROVE \A i \in 1..(n + 1) : Aged(q[i])
    OBVIOUS
  <2>1. \A i \in 1..n : Aged(q[i])
    BY <1>0, <1>2
  <2>2. n \in 0..Len(q) /\ n < Len(q)
    BY <1>0
  <2>3. ~Stops(n)
    BY <2>2
  <2>4. Aged(q[n + 1])
    BY <2>1, <2>2, <2>3
  <2> QED
    BY <2>1, <2>4
<1>3. Len(q) \in A
  <2> HIDE DEF A
  <2> QED
    BY <1>0, <1>1, <1>2, AllNumbers
<1>4. \E m \in 0..Len(q) : Stops(m)
  BY <1>0, <1>3
<1> QED
  BY <1>4 DEF Ripe

-----------------------------------------------------------------------------
(* Where everything is *)

LEMMA TaskInit == ServiceInit => TaskInv
  BY ServiceAssumption DEF ServiceInit, TaskInv, Phases, Lanes

\* Draining moves the ripe front of every lane to the flush.
RipePart(l) == SubSeq(lanes[l], 1, Ripe(lanes[l]))
Back(l) == SubSeq(lanes[l], Ripe(lanes[l]) + 1, Len(lanes[l]))

LEMMA Drains ==
  ASSUME TaskInv, LaneInv, NEW s \in Submissions, Drain(s)
  PROVE  /\ rest'[s] \in Seq(Submissions) /\ IsInjective(rest'[s])
         /\ ToSet(rest'[s]) = UNION {ToSet(RipePart(l)) : l \in Lanes}
         /\ lanes' = [l \in Lanes |-> Back(l)]
         /\ \A l \in Lanes : /\ Back(l) \in Seq(Submissions) /\ IsInjective(Back(l))
                             /\ ToSet(lanes[l]) = ToSet(RipePart(l)) \cup ToSet(Back(l))
                             /\ ToSet(RipePart(l)) \cap ToSet(Back(l)) = {}
<1> DEFINE parts == [i \in DOMAIN LaneKeys |-> RipePart(LaneKeys[i])]
<1>1. /\ rest'[s] = FlattenSeq(parts)
      /\ lanes' = [l \in Lanes |-> Back(l)]
  BY DEF Drain, TaskInv, RipePart, Back
<1>2. ASSUME NEW l \in Lanes
      PROVE  /\ RipePart(l) \in Seq(Submissions) /\ IsInjective(RipePart(l))
             /\ Back(l) \in Seq(Submissions) /\ IsInjective(Back(l))
             /\ ToSet(lanes[l]) = ToSet(RipePart(l)) \cup ToSet(Back(l))
             /\ ToSet(RipePart(l)) \cap ToSet(Back(l)) = {}
  <2>1. lanes[l] \in Seq(Submissions) /\ IsInjective(lanes[l])
    BY DEF TaskInv, LaneInv
  <2>2. Ripe(lanes[l]) \in 0..Len(lanes[l])
    BY <2>1, Ripens
  <2> QED
    BY <2>1, <2>2, CutAnywhere DEF RipePart, Back
<1>3. DOMAIN LaneKeys = 1..Len(LaneKeys) /\ Len(LaneKeys) \in Nat /\ \A i \in DOMAIN LaneKeys : LaneKeys[i] \in Lanes
  BY ServiceAssumption DEF Lanes, ToSet
<1>4. parts \in Seq(Seq(Submissions)) /\ DOMAIN parts = DOMAIN LaneKeys
  BY <1>2, <1>3
<1>5. \A i \in DOMAIN parts : IsInjective(parts[i])
  BY <1>2, <1>3
<1>6. ASSUME NEW i \in DOMAIN LaneKeys, NEW j \in DOMAIN LaneKeys, i # j
      PROVE  ToSet(RipePart(LaneKeys[i])) \cap ToSet(RipePart(LaneKeys[j])) = {}
  <2>1. \A l \in Lanes : \A x \in ToSet(lanes[l]) : LaneOf[TxOf[x]] = l
    BY DEF LaneInv, ToSet
  <2>2. LaneKeys[i] # LaneKeys[j]
    BY <1>6, ServiceAssumption DEF IsInjective
  <2>3. LaneKeys[i] \in Lanes /\ LaneKeys[j] \in Lanes
    BY <1>3
  <2>4. /\ ToSet(RipePart(LaneKeys[i])) \subseteq ToSet(lanes[LaneKeys[i]])
        /\ ToSet(RipePart(LaneKeys[j])) \subseteq ToSet(lanes[LaneKeys[j]])
    BY <1>2, <2>3
  <2> QED
    BY <2>1, <2>2, <2>3, <2>4
<1>7. ToSet(rest'[s]) = UNION {ToSet(parts[i]) : i \in DOMAIN parts} /\ rest'[s] \in Seq(Submissions) /\ IsInjective(rest'[s])
  <2>1. \A i, j \in DOMAIN parts : i # j => ToSet(parts[i]) \cap ToSet(parts[j]) = {}
    BY <1>6
  <2> HIDE DEF parts
  <2> QED
    BY <1>1, <1>4, <1>5, <2>1, Flattened
<1>8. UNION {ToSet(parts[i]) : i \in DOMAIN parts} = UNION {ToSet(RipePart(l)) : l \in Lanes}
  <2>1. Lanes = {LaneKeys[i] : i \in DOMAIN LaneKeys}
    BY DEF Lanes, ToSet
  <2> QED
    BY <2>1
<1> QED
  BY <1>1, <1>2, <1>7, <1>8

\* A chunk moves from the rest to the hand.
LEMMA Chunks ==
  ASSUME TaskInv, NEW s \in Submissions, IsInjective(rest[s])
  PROVE  LET k == ChunkLen(rest[s])
             chunk == ToSet(SubSeq(rest[s], 1, k))
         IN  /\ chunk \subseteq Submissions /\ AfterChunk(rest[s]) \in Seq(Submissions)
             /\ IsInjective(AfterChunk(rest[s]))
             /\ ToSet(rest[s]) = chunk \cup ToSet(AfterChunk(rest[s]))
             /\ chunk \cap ToSet(AfterChunk(rest[s])) = {}
             /\ chunk = {} => rest[s] = << >>
<1> DEFINE q == rest[s]
           k == ChunkLen(q)
           front == SubSeq(q, 1, k)
<1>1. q \in Seq(Submissions) /\ Len(q) \in Nat /\ config.batchSize \in Nat \ {0}
  BY ServiceAssumption DEF TaskInv
<1>2. k \in 0..Len(q) /\ (k = 0 => Len(q) = 0)
  BY <1>1 DEF ChunkLen
<1> HIDE DEF k
<1>3. /\ front \in Seq(Submissions) /\ SubSeq(q, k + 1, Len(q)) \in Seq(Submissions)
      /\ ToSet(q) = ToSet(front) \cup ToSet(SubSeq(q, k + 1, Len(q)))
      /\ Len(front) = k
      /\ IsInjective(SubSeq(q, k + 1, Len(q)))
      /\ ToSet(front) \cap ToSet(SubSeq(q, k + 1, Len(q))) = {}
  BY <1>1, <1>2, CutAnywhere
<1>4. AfterChunk(q) = SubSeq(q, k + 1, Len(q))
  BY DEF AfterChunk, k
<1>5. ToSet(front) \subseteq Submissions /\ (ToSet(front) = {} => q = << >>)
  <2>1. DOMAIN front = 1..k /\ \A i \in 1..k : front[i] \in Submissions
    BY <1>3
  <2>2. k # 0 => 1 \in 1..k
    BY <1>1, <1>2
  <2>3. ToSet(front) \subseteq Submissions
    BY <2>1 DEF ToSet
  <2>4. k # 0 => ToSet(front) # {}
    BY <2>1, <2>2 DEF ToSet
  <2> QED
    BY <1>1, <1>2, <2>3, <2>4
<1> QED
  BY <1>3, <1>4, <1>5 DEF k

LEMMA TaskStep == ASSUME TaskInv, LaneInv, HandInv, [ServiceNext]_svcVars PROVE TaskInv'
<1>1. ASSUME NEW s \in Submissions, Quiet(s) PROVE TaskInv'
  <2>1. PICK p : Moved(s, p)
    BY <1>1, QuietMoves
  <2> QED
    BY <2>1 DEF Moved, TaskInv
<1>2. ASSUME NEW s \in Submissions, Enqueue(s) PROVE TaskInv'
  <2>1. LaneOf[TxOf[s]] \in Lanes
    BY ServiceAssumption DEF Lanes
  <2>2. Append(lanes[LaneOf[TxOf[s]]], s) \in Seq(Submissions)
    BY <2>1 DEF TaskInv
  <2> QED
    BY <1>2, <2>1, <2>2 DEF Enqueue, TaskInv, flushVars, Phases
<1>3. ASSUME NEW s \in Submissions, Drain(s) PROVE TaskInv'
  <2>1. rest'[s] \in Seq(Submissions) /\ lanes' \in [Lanes -> Seq(Submissions)]
    BY <1>3, Drains
  <2>2. /\ rest' = [rest EXCEPT ![s] = rest'[s]] /\ phase' = [phase EXCEPT ![s] = "flush"]
        /\ UNCHANGED <<config, age, hand, crashes>>
    BY <1>3 DEF Drain, GoTo, TaskInv
  <2> QED
    BY <2>1, <2>2 DEF TaskInv, Phases
<1>4. ASSUME NEW s \in Submissions, TakeChunk(s) PROVE TaskInv'
  <2>1. /\ UNCHANGED <<config, lanes, age, crashes>>
        /\ \E p \in {"look", "run", "over"} : phase' = [phase EXCEPT ![s] = p]
    BY <1>4 DEF TakeChunk, GoTo, Answer
  <2> DEFINE chunk == ToSet(SubSeq(rest[s], 1, ChunkLen(rest[s])))
  <2>2. chunk \subseteq Submissions /\ AfterChunk(rest[s]) \in Seq(Submissions) /\ << >> \in Seq(Submissions)
    BY Chunks DEF HandInv
  <2>3. /\ rest' = rest \/ rest' = [rest EXCEPT ![s] = AfterChunk(rest[s])] \/ rest' = [rest EXCEPT ![s] = << >>]
        /\ hand' = hand \/ hand' = [hand EXCEPT ![s] = chunk]
    BY <1>4 DEF TakeChunk
  <2> HIDE DEF chunk
  <2>4. rest' \in [Submissions -> Seq(Submissions)] /\ hand' \in [Submissions -> SUBSET Submissions]
    BY <2>2, <2>3 DEF TaskInv
  <2> QED
    BY <2>1, <2>4 DEF TaskInv, Phases
<1>5. ASSUME NEW s \in Submissions, NEW i \in Submissions, RunItem(s, i) PROVE TaskInv'
  BY <1>5 DEF RunItem, TaskInv
<1>6. CASE Elapse
  <2>1. age' \in [Submissions -> 0..Window]
    BY <1>6, ServiceAssumption DEF Elapse, TaskInv
  <2> QED
    BY <1>6, <2>1 DEF Elapse, TaskInv, flushVars
<1>7. CASE Crash
  BY <1>7 DEF Crash, TaskInv, Phases
<1>8. CASE UNCHANGED svcVars
  BY <1>8 DEF svcVars, TaskInv, flushVars
<1> QED
  BY <1>1, <1>2, <1>3, <1>4, <1>5, <1>6, <1>7, <1>8, Steps

LEMMA LaneInit == ServiceInit => LaneInv
  BY DEF ServiceInit, LaneInv, Lanes, OwnItemTaken, IsInjective

\* The own item of who drains was ripe, and so was all before it in its lane.
LEMMA OwnItemRipe ==
  ASSUME TaskInv, LaneInv, NEW s \in Submissions, Aged(s), NEW l \in Lanes
  PROVE  s \notin ToSet(Back(l))
<1> SUFFICES ASSUME s \in ToSet(Back(l)) PROVE FALSE
  OBVIOUS
<1> DEFINE q == lanes[l]
           k == Ripe(q)
<1>1. q \in Seq(Submissions) /\ DOMAIN q = 1..Len(q) /\ Len(q) \in Nat
  BY DEF TaskInv
<1>2. k \in 0..Len(q) /\ (k < Len(q) => ~Aged(q[k + 1]))
  BY <1>1, Ripens
<1> HIDE DEF k
<1>3. DOMAIN SubSeq(q, k + 1, Len(q)) = 1..(Len(q) - k)
      /\ \A i \in 1..(Len(q) - k) : SubSeq(q, k + 1, Len(q))[i] = q[k + i]
  BY <1>1, <1>2, CutAnywhere
<1>4. PICK i \in 1..(Len(q) - k) : q[k + i] = s
  BY <1>3 DEF Back, ToSet, k
<1>5. ~Aged(q[k + 1]) /\ k + 1 \in DOMAIN q /\ k + i \in DOMAIN q /\ (i = 1 \/ k + 1 < k + i)
  BY <1>1, <1>2, <1>4
<1>6. age[q[k + i]] <= age[q[k + 1]]
  <2>1. q[k + 1] \in Submissions
    BY <1>1, <1>5
  <2>2. age[q[k + 1]] \in Nat
    BY <2>1, ServiceAssumption DEF TaskInv
  <2>3. CASE k + 1 < k + i
    BY <1>5, <2>3 DEF LaneInv
  <2> QED
    BY <1>5, <2>2, <2>3
<1>7. age[q[k + 1]] \in Nat /\ age[s] \in Nat /\ Window \in Nat
  BY <1>1, <1>5, ServiceAssumption DEF TaskInv
<1> QED
  BY <1>4, <1>5, <1>6, <1>7 DEF Aged

LEMMA LaneStep == ASSUME TaskInv, LaneInv, HandInv, [ServiceNext]_svcVars PROVE LaneInv'
<1>1. ASSUME UNCHANGED <<lanes, age>>,
             \A u \in Submissions : /\ phase'[u] \in {"idle", "queue"} => phase[u] \in {"idle", "queue"}
                                    /\ phase'[u] \in {"flush", "run", "look"} => phase[u] \in {"flush", "run", "look"}
      PROVE  LaneInv'
  <2>1. \A l \in Lanes : \A i \in DOMAIN lanes[l] : lanes[l][i] \in Submissions
    BY DEF TaskInv
  <2> QED
    BY <1>1, <2>1 DEF LaneInv, OwnItemTaken, Queued
<1>2. ASSUME NEW s \in Submissions, Quiet(s) PROVE LaneInv'
  <2>1. PICK p : Moved(s, p)
    BY <1>2, QuietMoves
  <2> QED
    BY <1>1, <2>1 DEF Moved, TaskInv
<1>3. ASSUME NEW s \in Submissions, TakeChunk(s) \/ \E i \in Submissions : RunItem(s, i) PROVE LaneInv'
  <2>1. /\ UNCHANGED <<lanes, age>>
        /\ \/ phase' = phase
           \/ phase[s] = "flush" /\ \E p \in {"look", "run", "over"} : phase' = [phase EXCEPT ![s] = p]
    BY <1>3 DEF TakeChunk, RunItem, GoTo, Answer
  <2> QED
    BY <1>1, <2>1 DEF TaskInv
<1>4. ASSUME NEW s \in Submissions, Enqueue(s) PROVE LaneInv'
  <2> DEFINE l == LaneOf[TxOf[s]]
             q == lanes[l]
  <2>1. l \in Lanes /\ q \in Seq(Submissions)
    BY ServiceAssumption DEF Lanes, TaskInv
  <2>2. /\ phase[s] = "queue" /\ phase' = [phase EXCEPT ![s] = "sleep"] /\ UNCHANGED age
        /\ lanes' = [lanes EXCEPT ![l] = Append(q, s)]
    BY <1>4 DEF Enqueue
  <2> HIDE DEF l, q
  <2>3. \A m \in Lanes : \A i \in DOMAIN lanes[m] : lanes[m][i] # s /\ lanes[m][i] \in Submissions
    BY <2>2 DEF LaneInv, TaskInv
  <2>4. DOMAIN lanes' = Lanes /\ lanes'[l] = Append(q, s) /\ \A m \in Lanes \ {l} : lanes'[m] = lanes[m]
    BY <2>1, <2>2 DEF TaskInv
  <2>5. /\ Len(q) \in Nat /\ DOMAIN q = 1..Len(q) /\ DOMAIN Append(q, s) = 1..(Len(q) + 1)
        /\ \A i \in 1..Len(q) : Append(q, s)[i] = q[i]
        /\ Append(q, s)[Len(q) + 1] = s
    BY <2>1
  <2>6. IsInjective(Append(q, s))
    <3>1. IsInjective(q)
      BY <2>1 DEF LaneInv, q
    <3>2. \A i \in 1..Len(q) : q[i] # s
      BY <2>1, <2>3, <2>5 DEF q
    <3>3. \A i \in 1..(Len(q) + 1) : i \in 1..Len(q) \/ i = Len(q) + 1
      BY <2>5
    <3> QED
      BY <2>5, <3>1, <3>2, <3>3 DEF IsInjective
  <2>7. ASSUME NEW i \in DOMAIN Append(q, s)
        PROVE  LaneOf[TxOf[Append(q, s)[i]]] = l /\ phase'[Append(q, s)[i]] \notin {"idle", "queue"}
    <3>1. CASE i = Len(q) + 1
      BY <2>2, <2>5, <3>1 DEF TaskInv, l
    <3>2. CASE i \in 1..Len(q)
      <4>1. q[i] # s /\ q[i] \in Submissions /\ LaneOf[TxOf[q[i]]] = l /\ phase[q[i]] \notin {"idle", "queue"}
        BY <2>1, <2>3, <2>5, <3>2 DEF LaneInv, q
      <4> QED
        BY <2>2, <2>5, <3>2, <4>1 DEF TaskInv
    <3> QED
      BY <2>5, <3>1, <3>2
  <2>8. ASSUME NEW i \in DOMAIN Append(q, s), NEW j \in DOMAIN Append(q, s), i < j
        PROVE  age[Append(q, s)[j]] <= age[Append(q, s)[i]]
    <3>1. i \in 1..Len(q) /\ q[i] \in Submissions
      BY <2>1, <2>5, <2>8
    <3>2. CASE j = Len(q) + 1
      <4>1. age[s] = 0 /\ age[q[i]] \in Nat
        BY <2>2, <3>1, ServiceAssumption DEF LaneInv, TaskInv
      <4> QED
        BY <2>5, <3>1, <3>2, <4>1
    <3>3. CASE j \in 1..Len(q)
      BY <2>1, <2>5, <2>8, <3>1, <3>3 DEF LaneInv, q
    <3> QED
      BY <2>5, <3>2, <3>3
  <2>9. ASSUME NEW m \in Lanes
        PROVE  /\ IsInjective(lanes'[m])
               /\ \A i \in DOMAIN lanes'[m] :
                    LaneOf[TxOf[lanes'[m][i]]] = m /\ phase'[lanes'[m][i]] \notin {"idle", "queue"}
               /\ \A i, j \in DOMAIN lanes'[m] : i < j => age'[lanes'[m][j]] <= age'[lanes'[m][i]]
    <3>1. CASE m = l
      BY <2>2, <2>4, <2>6, <2>7, <2>8, <3>1
    <3>2. CASE m # l
      BY <2>2, <2>3, <2>4, <3>2 DEF LaneInv, TaskInv
    <3> QED
      BY <3>1, <3>2
  <2>10. \A u \in Submissions : phase'[u] \in {"idle", "queue"} => age'[u] = 0
    BY <2>2 DEF LaneInv, TaskInv
  <2>11. OwnItemTaken'
    <3>1. Queued' \subseteq Queued \cup {s}
      <4>1. ASSUME NEW i \in DOMAIN Append(q, s) PROVE Append(q, s)[i] \in ToSet(q) \cup {s}
        BY <2>5 DEF ToSet
      <4>2. ToSet(lanes'[l]) \subseteq Queued \cup {s}
        BY <2>1, <2>4, <4>1 DEF ToSet, Queued, TaskInv, q
      <4> QED
        BY <2>4, <4>2 DEF Queued, TaskInv
    <3> QED
      BY <2>2, <3>1 DEF OwnItemTaken, LaneInv, TaskInv
  <2> QED
    BY <2>9, <2>10, <2>11 DEF LaneInv
<1>5. ASSUME NEW s \in Submissions, Drain(s) PROVE LaneInv'
  <2>1. phase[s] = "sleep" /\ Aged(s) /\ phase' = [phase EXCEPT ![s] = "flush"] /\ UNCHANGED age
    BY <1>5 DEF Drain, GoTo, Aged
  <2>2. lanes' = [l \in Lanes |-> Back(l)]
    BY <1>5, Drains
  <2>3. ASSUME NEW l \in Lanes
        PROVE  /\ IsInjective(Back(l))
               /\ \A i \in DOMAIN Back(l) :
                    LaneOf[TxOf[Back(l)[i]]] = l /\ phase'[Back(l)[i]] \notin {"idle", "queue"}
               /\ \A i, j \in DOMAIN Back(l) : i < j => age[Back(l)[j]] <= age[Back(l)[i]]
    <3> DEFINE q == lanes[l]
               k == Ripe(q)
    <3>1. q \in Seq(Submissions) /\ DOMAIN q = 1..Len(q) /\ Len(q) \in Nat
      BY DEF TaskInv
    <3>2. k \in 0..Len(q)
      BY <3>1, Ripens
    <3>3. Back(l) = SubSeq(q, k + 1, Len(q))
      BY DEF Back
    <3> HIDE DEF q, k
    <3>4. DOMAIN Back(l) = 1..(Len(q) - k) /\ \A i \in 1..(Len(q) - k) : Back(l)[i] = q[k + i]
      BY <3>1, <3>2, <3>3, CutAnywhere
    <3>5. \A i \in 1..(Len(q) - k) : k + i \in DOMAIN q
      BY <3>1, <3>2
    <3>6. \A i, j \in 1..(Len(q) - k) : i < j => k + i < k + j
      BY <3>1, <3>2
    <3>7. \A i \in DOMAIN q : /\ LaneOf[TxOf[q[i]]] = l /\ phase[q[i]] \notin {"idle", "queue"}
                              /\ q[i] \in Submissions
      BY <3>1 DEF LaneInv, q
    <3>8. \A i, j \in DOMAIN q : i < j => age[q[j]] <= age[q[i]]
      BY DEF LaneInv, q
    <3>9. \A u \in Submissions : phase'[u] \in {"idle", "queue"} => phase[u] \in {"idle", "queue"}
      BY <2>1 DEF TaskInv
    <3>10. IsInjective(Back(l))
      BY <1>5, Drains
    <3> QED
      BY <3>4, <3>5, <3>6, <3>7, <3>8, <3>9, <3>10
  <2>4. OwnItemTaken'
    <3>1. s \notin Queued'
      BY <2>1, <2>2, OwnItemRipe DEF Queued
    <3>2. Queued' \subseteq Queued
      BY <1>5, <2>2, Drains DEF Queued, TaskInv
    <3> QED
      BY <2>1, <3>1, <3>2 DEF OwnItemTaken, LaneInv, TaskInv
  <2>5. \A u \in Submissions : phase'[u] \in {"idle", "queue"} => age'[u] = 0
    BY <2>1 DEF LaneInv, TaskInv
  <2> QED
    BY <2>1, <2>2, <2>3, <2>4, <2>5 DEF LaneInv
<1>6. CASE Elapse
  <2>1. /\ UNCHANGED <<lanes, phase>>
        /\ age' = [s \in Submissions |-> IF Waiting(s) /\ age[s] < Window THEN age[s] + 1 ELSE age[s]]
    BY <1>6 DEF Elapse
  <2>2. ASSUME NEW l \in Lanes, NEW i \in DOMAIN lanes[l], NEW j \in DOMAIN lanes[l], i < j
        PROVE  age'[lanes[l][j]] <= age'[lanes[l][i]]
    <3>1. lanes[l][i] \in Submissions /\ lanes[l][j] \in Submissions /\ Window \in Nat
      BY ServiceAssumption DEF TaskInv
    <3>2. Waiting(lanes[l][i]) /\ Waiting(lanes[l][j])
      BY DEF Waiting, Queued, ToSet, TaskInv
    <3>3. age[lanes[l][j]] <= age[lanes[l][i]] /\ age[lanes[l][i]] \in 0..Window /\ age[lanes[l][j]] \in 0..Window
      BY <2>2, <3>1 DEF LaneInv, TaskInv
    <3> QED
      BY <2>1, <3>1, <3>2, <3>3
  <2>3. ASSUME NEW u \in Submissions, phase[u] \in {"idle", "queue"} PROVE age'[u] = 0
    <3>1. u \notin Queued
      BY <2>3 DEF LaneInv, Queued, ToSet, TaskInv
    <3> QED
      BY <2>1, <2>3, <3>1 DEF Waiting, LaneInv
  <2> QED
    BY <2>1, <2>2, <2>3 DEF LaneInv, OwnItemTaken, Queued
<1>7. CASE Crash
  <2>1. /\ lanes' = [l \in Lanes |-> << >>] /\ UNCHANGED age
        /\ \A u \in Submissions : phase'[u] \in {"idle", "queue"} => phase[u] \in {"idle", "queue"}
    BY <1>7 DEF Crash, TaskInv
  <2>2. IsInjective(<< >>) /\ DOMAIN << >> = {} /\ ToSet(<< >>) = {}
    BY DEF IsInjective, ToSet
  <2>3. Queued' = {}
    BY <2>1, <2>2 DEF Queued
  <2> QED
    BY <2>1, <2>2, <2>3 DEF LaneInv, OwnItemTaken
<1>8. CASE UNCHANGED svcVars
  BY <1>1, <1>8 DEF svcVars
<1> QED
  BY <1>2, <1>3, <1>4, <1>5, <1>6, <1>7, <1>8, Steps

LEMMA HandInit == ServiceInit => HandInv
  BY DEF ServiceInit, HandInv, Has, Queued, ToSet, IsInjective

\* What is held where, when only the phases change and no task starts over.
LEMMA FrameHand ==
  ASSUME TaskInv, HandInv, UNCHANGED <<config, lanes, rest, hand, ran, crashes>>,
         \A u \in Submissions :
           /\ phase'[u] \in {"idle", "queue"} => phase[u] \in {"idle", "queue"}
           /\ phase'[u] \in {"sleep", "flush", "run", "look"} => phase[u] \in {"sleep", "flush", "run", "look"}
           /\ hand[u] # {} => phase'[u] = "run"
           /\ rest[u] # << >> => phase'[u] \in {"flush", "run"}
  PROVE  HandInv'
<1>1. Queued' = Queued /\ \A f \in Submissions : Has(f)' = Has(f)
  BY DEF Queued, Has
<1>2. UNION {Has(f)' : f \in Submissions} = UNION {Has(f) : f \in Submissions}
  BY <1>1
<1> QED
  BY <1>1, <1>2 DEF HandInv

\* The flush of s takes from the queue, drops, or runs; nothing else changes.
LEMMA OneHand ==
  ASSUME TaskInv, HandInv, NEW s \in Submissions, UNCHANGED <<config, crashes>>,
         \A f \in Submissions \ {s} : rest'[f] = rest[f] /\ hand'[f] = hand[f] /\ phase'[f] = phase[f],
         IsInjective(rest'[s]), ToSet(rest'[s]) \cap hand'[s] = {},
         Has(s)' \cup Queued' \cup ran' \subseteq Has(s) \cup Queued \cup ran,
         Has(s)' \cap (Queued' \cup ran') = {}, Queued' \cap ran' = {},
         config.serial => Has(s) \cup Queued \cup ran \subseteq Has(s)' \cup Queued' \cup ran',
         hand'[s] # {} => phase'[s] = "run", rest'[s] # << >> => phase'[s] \in {"flush", "run"},
         phase[s] \in {"sleep", "flush", "run", "look"}, phase'[s] \notin {"idle", "queue"}
  PROVE  HandInv'
<1> DEFINE Others == UNION {Has(f) : f \in Submissions \ {s}}
<1>1. \A f \in Submissions \ {s} : Has(f)' = Has(f)
  BY DEF Has
<1>2. /\ UNION {Has(f) : f \in Submissions} = Others \cup Has(s)
      /\ UNION {Has(f)' : f \in Submissions} = Others \cup Has(s)'
  BY <1>1
<1>3. Others \cap (Has(s) \cup Queued \cup ran) = {}
  BY DEF HandInv
<1> HIDE DEF Others
<1>4. \A f \in Submissions :
        /\ IsInjective(rest'[f]) /\ ToSet(rest'[f]) \cap hand'[f] = {}
        /\ hand'[f] # {} => phase'[f] = "run"
        /\ rest'[f] # << >> => phase'[f] \in {"flush", "run"}
  BY DEF HandInv
<1>5. \A f \in Submissions : Has(f)' \cap (Queued' \cup ran') = {}
  <2>1. \A f \in Submissions \ {s} : Has(f) \cap (Has(s) \cup Queued \cup ran) = {}
    BY DEF HandInv
  <2> QED
    BY <1>1, <2>1
<1>6. \A f, g \in Submissions : f # g => Has(f)' \cap Has(g)' = {}
  <2>1. \A f \in Submissions \ {s} : Has(f) \cap Has(s)' = {}
    BY DEF HandInv
  <2>2. \A f, g \in Submissions \ {s} : f # g => Has(f) \cap Has(g) = {}
    BY DEF HandInv
  <2> QED
    BY <1>1, <2>1, <2>2
<1>7. \A u \in Submissions :
        phase'[u] \in {"idle", "queue"} => u \notin Queued' \cup ran' \cup UNION {Has(f)' : f \in Submissions}
  <2>1. ASSUME NEW u \in Submissions, phase'[u] \in {"idle", "queue"}
        PROVE  u \notin Queued \cup ran \cup Others \cup Has(s)
    <3>1. phase[u] \in {"idle", "queue"}
      BY <2>1
    <3> QED
      BY <1>2, <3>1 DEF HandInv
  <2> QED
    BY <1>2, <2>1
<1>8. ASSUME NEW u \in Submissions, config.serial /\ crashes = 0, phase'[u] \in {"sleep", "flush", "run", "look"}
      PROVE  u \in Queued' \cup ran' \cup UNION {Has(f)' : f \in Submissions}
  <2>1. phase[u] \in {"sleep", "flush", "run", "look"}
    BY <1>8
  <2>2. u \in Queued \cup ran \cup (Others \cup Has(s))
    BY <1>2, <1>8, <2>1 DEF HandInv
  <2> QED
    BY <1>2, <1>8, <2>2
<1> QED
  BY <1>4, <1>5, <1>6, <1>7, <1>8 DEF HandInv

LEMMA HandStep == ASSUME TaskInv, LaneInv, HandInv, [ServiceNext]_svcVars PROVE HandInv'
<1>1. ASSUME NEW s \in Submissions, Quiet(s) PROVE HandInv'
  <2>1. PICK p : Moved(s, p)
    BY <1>1, QuietMoves
  <2>2. hand[s] # {} => phase'[s] = "run"
    BY <2>1 DEF Moved, HandInv, TaskInv
  <2>3. rest[s] # << >> => phase'[s] \in {"flush", "run"}
    BY <2>1 DEF Moved, HandInv, TaskInv
  <2>4. \A u \in Submissions : /\ hand[u] # {} => phase'[u] = "run"
                               /\ rest[u] # << >> => phase'[u] \in {"flush", "run"}
    BY <2>1, <2>2, <2>3 DEF Moved, HandInv, TaskInv
  <2>5. \A u \in Submissions :
           /\ phase'[u] \in {"idle", "queue"} => phase[u] \in {"idle", "queue"}
           /\ phase'[u] \in {"sleep", "flush", "run", "look"} => phase[u] \in {"sleep", "flush", "run", "look"}
    BY <2>1 DEF Moved, TaskInv
  <2>6. UNCHANGED <<config, lanes, rest, hand, ran, crashes>>
    BY <2>1 DEF Moved
  <2> QED
    BY <2>4, <2>5, <2>6, FrameHand
<1>2. ASSUME NEW s \in Submissions, Enqueue(s) PROVE HandInv'
  <2> DEFINE l == LaneOf[TxOf[s]]
  <2>1. l \in Lanes /\ lanes[l] \in Seq(Submissions)
    BY ServiceAssumption DEF Lanes, TaskInv
  <2>2. /\ phase[s] = "queue" /\ phase' = [phase EXCEPT ![s] = "sleep"]
        /\ UNCHANGED <<config, rest, hand, ran, crashes>>
        /\ lanes' = [lanes EXCEPT ![l] = Append(lanes[l], s)]
    BY <1>2 DEF Enqueue, flushVars
  <2> HIDE DEF l
  <2>3. Queued' = Queued \cup {s}
    <3>1. ToSet(Append(lanes[l], s)) = ToSet(lanes[l]) \cup {s}
      <4>1. /\ Len(lanes[l]) \in Nat /\ DOMAIN lanes[l] = 1..Len(lanes[l])
            /\ DOMAIN Append(lanes[l], s) = 1..(Len(lanes[l]) + 1)
            /\ \A i \in 1..Len(lanes[l]) : Append(lanes[l], s)[i] = lanes[l][i]
            /\ Append(lanes[l], s)[Len(lanes[l]) + 1] = s
        BY <2>1
      <4>2. /\ \A i : i \in 1..(Len(lanes[l]) + 1) <=> i \in 1..Len(lanes[l]) \/ i = Len(lanes[l]) + 1
        BY <4>1
      <4> QED
        BY <4>1, <4>2 DEF ToSet
    <3>2. DOMAIN lanes' = Lanes /\ DOMAIN lanes = Lanes /\ lanes'[l] = Append(lanes[l], s)
          /\ \A m \in Lanes \ {l} : lanes'[m] = lanes[m]
      BY <2>1, <2>2 DEF TaskInv
    <3> QED
      BY <2>1, <3>1, <3>2 DEF Queued
  <2>4. s \notin Queued \cup ran \cup UNION {Has(f) : f \in Submissions}
    BY <2>2 DEF HandInv
  <2>5. \A f \in Submissions : Has(f)' = Has(f)
    BY <2>2 DEF Has
  <2>6. \A u \in Submissions \ {s} : phase'[u] = phase[u]
    BY <2>2 DEF TaskInv
  <2>7. phase'[s] = "sleep"
    BY <2>2 DEF TaskInv
  <2>8. UNION {Has(f)' : f \in Submissions} = UNION {Has(f) : f \in Submissions}
    BY <2>5
  <2>9. \A f \in Submissions :
       /\ IsInjective(rest[f]) /\ ToSet(rest[f]) \cap hand[f] = {}
       /\ Has(f) \cap (Queued' \cup ran) = {}
       /\ hand[f] # {} => phase'[f] = "run"
       /\ rest[f] # << >> => phase'[f] \in {"flush", "run"}
    BY <2>2, <2>3, <2>4, <2>6, <2>7 DEF HandInv
  <2>10. \A u \in Submissions :
       /\ phase'[u] \in {"idle", "queue"} => u \notin Queued' \cup ran \cup UNION {Has(f) : f \in Submissions}
       /\ config.serial /\ crashes = 0 /\ phase'[u] \in {"sleep", "flush", "run", "look"}
            => u \in Queued' \cup ran \cup UNION {Has(f) : f \in Submissions}
    BY <2>3, <2>6, <2>7 DEF HandInv
  <2>11. (Queued \cap ran = {})' /\ \A f, g \in Submissions : f # g => Has(f)' \cap Has(g)' = {}
    BY <2>2, <2>3, <2>4, <2>5 DEF HandInv
  <2> QED
    BY <2>2, <2>5, <2>8, <2>9, <2>10, <2>11 DEF HandInv
<1>3. ASSUME NEW s \in Submissions, Drain(s) PROVE HandInv'
  <2>1. /\ phase[s] = "sleep" /\ phase' = [phase EXCEPT ![s] = "flush"]
        /\ \A f \in Submissions \ {s} : rest'[f] = rest[f]
        /\ UNCHANGED <<config, hand, ran, crashes>>
    BY <1>3 DEF Drain, GoTo, TaskInv
  <2>2. hand[s] = {} /\ rest[s] = << >> /\ Has(s) = {}
    BY <2>1 DEF HandInv, Has, ToSet
  <2>3. Has(s)' = UNION {ToSet(RipePart(l)) : l \in Lanes} /\ IsInjective(rest'[s])
    BY <1>3, <2>1, <2>2, Drains DEF Has
  <2>4. Queued' = UNION {ToSet(Back(l)) : l \in Lanes}
    BY <1>3, Drains DEF Queued
  <2>5. Queued = Has(s)' \cup Queued'
    <3>1. Queued = UNION {ToSet(lanes[l]) : l \in Lanes}
      BY DEF Queued, TaskInv
    <3>2. \A l \in Lanes : ToSet(lanes[l]) = ToSet(RipePart(l)) \cup ToSet(Back(l))
      BY <1>3, Drains
    <3> QED
      BY <2>3, <2>4, <3>1, <3>2
  <2>6. Has(s)' \cap Queued' = {}
    <3>1. ASSUME NEW l \in Lanes, NEW m \in Lanes PROVE ToSet(RipePart(l)) \cap ToSet(Back(m)) = {}
      <4>1. \A n \in Lanes : \A x \in ToSet(lanes[n]) : LaneOf[TxOf[x]] = n
        BY DEF LaneInv, ToSet
      <4>2. /\ ToSet(RipePart(l)) \subseteq ToSet(lanes[l]) /\ ToSet(Back(m)) \subseteq ToSet(lanes[m])
            /\ ToSet(RipePart(l)) \cap ToSet(Back(l)) = {}
        BY <1>3, Drains
      <4> QED
        BY <4>1, <4>2
    <3> QED
      BY <2>3, <2>4, <3>1
  <2>7. \A f \in Submissions \ {s} : rest'[f] = rest[f] /\ hand'[f] = hand[f] /\ phase'[f] = phase[f]
    BY <2>1 DEF TaskInv
  <2>8. ToSet(rest'[s]) \cap hand'[s] = {} /\ hand'[s] = {} /\ phase'[s] = "flush"
    BY <2>1, <2>2 DEF TaskInv
  <2>9. Queued \cap ran = {} /\ ran' = ran /\ UNCHANGED <<config, crashes>>
    BY <2>1 DEF HandInv
  <2>10. /\ Has(s)' \cup Queued' \cup ran' \subseteq Has(s) \cup Queued \cup ran
         /\ Has(s) \cup Queued \cup ran \subseteq Has(s)' \cup Queued' \cup ran'
         /\ Has(s)' \cap (Queued' \cup ran') = {} /\ Queued' \cap ran' = {}
    BY <2>2, <2>5, <2>6, <2>9
  <2> QED
    BY <2>1, <2>3, <2>7, <2>8, <2>9, <2>10, OneHand
<1>4. ASSUME NEW s \in Submissions, TakeChunk(s) PROVE HandInv'
  <2> DEFINE q == rest[s]
             chunk == ToSet(SubSeq(q, 1, ChunkLen(q)))
             after == AfterChunk(q)
  <2>1. /\ phase[s] = "flush" /\ UNCHANGED <<config, lanes, ran, crashes>>
        /\ \/ chunk = {} /\ phase' = [phase EXCEPT ![s] = "look"] /\ UNCHANGED <<rest, hand>>
           \/ /\ hand' = [hand EXCEPT ![s] = chunk] /\ rest' = [rest EXCEPT ![s] = after]
              /\ phase' = [phase EXCEPT ![s] = "run"]
           \/ /\ ~config.serial /\ rest' = [rest EXCEPT ![s] = << >>] /\ UNCHANGED hand
              /\ phase' = [phase EXCEPT ![s] = "over"]
    BY <1>4 DEF TakeChunk, GoTo, Answer
  <2>2. hand[s] = {} /\ IsInjective(q) /\ Has(s) = ToSet(q)
    BY <2>1 DEF HandInv, Has
  <2>3. /\ IsInjective(after) /\ ToSet(q) = chunk \cup ToSet(after) /\ chunk \cap ToSet(after) = {}
        /\ chunk = {} => q = << >>
    BY <2>2, Chunks
  <2> HIDE DEF chunk, after
  <2>4. \A f \in Submissions \ {s} : rest'[f] = rest[f] /\ hand'[f] = hand[f] /\ phase'[f] = phase[f]
    BY <2>1 DEF TaskInv
  <2>5. IsInjective(<< >>) /\ ToSet(<< >>) = {}
    BY DEF IsInjective, ToSet
  <2>6. \/ rest'[s] = << >> /\ hand'[s] = {} /\ phase'[s] \in {"look", "over"} /\ (config.serial => q = << >>)
        \/ rest'[s] = after /\ hand'[s] = chunk /\ phase'[s] = "run"
    BY <2>1, <2>2, <2>3 DEF TaskInv
  <2>7. /\ IsInjective(rest'[s]) /\ ToSet(rest'[s]) \cap hand'[s] = {}
        /\ hand'[s] # {} => phase'[s] = "run"
        /\ rest'[s] # << >> => phase'[s] \in {"flush", "run"}
        /\ phase'[s] \notin {"idle", "queue"}
    BY <2>3, <2>5, <2>6
  <2>8. Has(s)' \subseteq Has(s) /\ (config.serial => Has(s)' = Has(s))
    BY <2>2, <2>3, <2>5, <2>6 DEF Has
  <2>9. Queued' = Queued /\ ran' = ran /\ UNCHANGED <<config, crashes>> /\ Queued \cap ran = {} /\ Has(s) \cap (Queued \cup ran) = {}
    BY <2>1 DEF Queued, HandInv
  <2>10. /\ Has(s)' \cup Queued' \cup ran' \subseteq Has(s) \cup Queued \cup ran
         /\ config.serial => Has(s) \cup Queued \cup ran \subseteq Has(s)' \cup Queued' \cup ran'
         /\ Has(s)' \cap (Queued' \cup ran') = {} /\ Queued' \cap ran' = {}
    BY <2>8, <2>9
  <2> QED
    BY <2>1, <2>4, <2>7, <2>9, <2>10, OneHand
<1>5. ASSUME NEW s \in Submissions, NEW i \in Submissions, RunItem(s, i) PROVE HandInv'
  <2>1. /\ phase[s] = "run" /\ i \in hand[s] /\ UNCHANGED <<config, lanes, phase, rest, crashes>>
        /\ hand' = [hand EXCEPT ![s] = hand[s] \ {i}] /\ ran' = ran \cup {i}
    BY <1>5 DEF RunItem, TaskInv
  <2>2. hand'[s] = hand[s] \ {i} /\ \A f \in Submissions \ {s} : hand'[f] = hand[f]
    BY <2>1 DEF TaskInv
  <2>3. IsInjective(rest[s]) /\ ToSet(rest[s]) \cap hand[s] = {} /\ Has(s) \cap (Queued \cup ran) = {} /\ Queued \cap ran = {}
    BY DEF HandInv
  <2>4. Has(s)' = Has(s) \ {i} /\ i \in Has(s) /\ Queued' = Queued
    BY <2>1, <2>2, <2>3 DEF Has, Queued
  <2>5. /\ Has(s)' \cup Queued' \cup ran' = Has(s) \cup Queued \cup ran
        /\ Has(s)' \cap (Queued' \cup ran') = {} /\ Queued' \cap ran' = {}
        /\ ToSet(rest'[s]) \cap hand'[s] = {}
    BY <2>1, <2>2, <2>3, <2>4
  <2>6. /\ UNCHANGED <<config, crashes>> /\ IsInjective(rest'[s])
        /\ \A f \in Submissions \ {s} : rest'[f] = rest[f] /\ hand'[f] = hand[f] /\ phase'[f] = phase[f]
        /\ phase'[s] = "run"
    BY <2>1, <2>2, <2>3
  <2> QED
    BY <2>1, <2>5, <2>6, OneHand
<1>6. CASE Elapse \/ UNCHANGED svcVars
  <2>1. UNCHANGED <<config, lanes, rest, hand, ran, crashes, phase>>
    BY <1>6 DEF Elapse, svcVars, flushVars
  <2>2. \A u \in Submissions : /\ hand[u] # {} => phase[u] = "run"
                               /\ rest[u] # << >> => phase[u] \in {"flush", "run"}
    BY DEF HandInv
  <2> QED
    BY <2>1, <2>2, FrameHand
<1>7. CASE Crash
  <2>1. /\ crashes' = crashes + 1 /\ UNCHANGED ran /\ lanes' = [l \in Lanes |-> << >>]
        /\ rest' = [f \in Submissions |-> << >>] /\ hand' = [f \in Submissions |-> {}]
        /\ \A u \in Submissions : phase'[u] \in {"idle", "queue"} => phase[u] \in {"idle", "queue"}
    BY <1>7 DEF Crash, TaskInv
  <2>2. IsInjective(<< >>) /\ ToSet(<< >>) = {}
    BY DEF IsInjective, ToSet
  <2>3. Queued' = {} /\ \A f \in Submissions : Has(f)' = {}
    BY <2>1, <2>2 DEF Queued, Has
  <2>4. crashes' # 0
    BY <2>1 DEF TaskInv
  <2> QED
    BY <2>1, <2>2, <2>3, <2>4 DEF HandInv
<1> QED
  BY <1>1, <1>2, <1>3, <1>4, <1>5, <1>6, <1>7, Steps

LEMMA WhereInit == ServiceInit => TaskInv /\ LaneInv /\ HandInv
  BY TaskInit, LaneInit, HandInit

LEMMA WhereStep == TaskInv /\ LaneInv /\ HandInv /\ [ServiceNext]_svcVars => (TaskInv /\ LaneInv /\ HandInv)'
  BY TaskStep, LaneStep, HandStep

\* Who looks for its outcome has nothing in the queue any more: its own flush, or
\* another that got there first, has taken it along.
THEOREM OwnItemIsTaken == ServiceSpec => []OwnItemTaken
<1>1. LaneInv => OwnItemTaken
  BY DEF LaneInv
<1> QED
  BY <1>1, WhereInit, WhereStep, PTL DEF ServiceSpec

\* A queued transaction is in the queue, with one flush, or run: no two of any number
\* of flushes drain it both, and with the serial fallback none loses it.
THEOREM ItemsHandedOnce == ServiceSpec => []HandedOnce
<1>1. ASSUME TaskInv, HandInv PROVE HandedOnce
  <2>1. ASSUME NEW s \in Submissions PROVE Cardinality(Hands(s)) <= 1
    <3>1. \A f, g \in Hands(s) : f = g
      BY <1>1 DEF HandInv, Hands, Has
    <3>2. Hands(s) = {} \/ \E f : Hands(s) = {f}
      BY <3>1
    <3>3. Cardinality({}) = 0 /\ \A f : Cardinality({f}) = 1
      BY FS_EmptySet, FS_Singleton
    <3>4. Cardinality(Hands(s)) = 0 \/ Cardinality(Hands(s)) = 1
      BY <3>2, <3>3
    <3> QED
      BY <3>4
  <2>2. ASSUME NEW s \in Submissions PROVE Hands(s) # {} <=> s \in UNION {Has(f) : f \in Submissions}
    BY DEF Hands, Has
  <2>3. ASSUME NEW s \in Submissions, Hands(s) # {} PROVE s \notin Queued \cup ran
    BY <1>1, <2>3 DEF HandInv, Hands, Has
  <2>4. ASSUME NEW s \in Submissions, config.serial /\ crashes = 0, phase[s] \in {"sleep", "flush", "run", "look"}
        PROVE  s \in Queued \cup ran \/ Hands(s) # {}
    BY <1>1, <2>2, <2>4 DEF HandInv
  <2> QED
    BY <2>1, <2>3, <2>4 DEF HandedOnce
<1> QED
  BY <1>1, WhereInit, WhereStep, PTL DEF ServiceSpec

-----------------------------------------------------------------------------
(* What is told                                                            *)

LEMMA Remembers ==
  ASSUME NEW T, NEW list \in Seq(T), NEW o \in T
  PROVE  Remember(list, o) \in Seq(T)
<1> DEFINE I == {i \in 1..Len(list) : list[i].tx = o.tx}
           rest_ == RemoveFirstMatch(list, LAMBDA x : x.tx = o.tx)
<1>1. CASE I # {}
  <2>1. Min(I) \in I
    <3>1. I \subseteq Nat
      OBVIOUS
    <3> HIDE DEF I
    <3> QED
      BY <1>1, <3>1, LeastOf
  <2>2. rest_ = RemoveAt(list, Min(I))
    BY <1>1 DEF RemoveFirstMatch, SelectInSeq
  <2>3. rest_ \in Seq(T)
    <3>1. Min(I) \in 1..Len(list)
      BY <2>1
    <3> QED
      BY <2>2, <3>1, OneRemoved
  <2> QED
    BY <2>3 DEF Remember
<1>2. CASE I = {}
  <2>1. rest_ = list
    BY <1>2 DEF RemoveFirstMatch
  <2> QED
    BY <2>1 DEF Remember
<1> QED
  BY <1>1, <1>2

LEMMA NewestOf ==
  ASSUME NEW T, NEW list \in Seq(T), NEW n \in Nat \ {0}
  PROVE  Newest(list, n) \in Seq(T) /\ ToSet(Newest(list, n)) \subseteq ToSet(list)
<1> DEFINE from == IF Len(list) > n THEN Len(list) - n + 1 ELSE 1
<1>1. from \in Int /\ Len(list) \in Int /\ from >= 1
  OBVIOUS
<1>2. \A i \in from..Len(list) : list[i] \in T \cap ToSet(list)
  BY <1>1 DEF ToSet
<1> HIDE DEF from
<1>3. SubSeq(list, from, Len(list)) \in Seq(T \cap ToSet(list))
  BY <1>1, <1>2, SubSeqProperties
<1>4. Newest(list, n) \in Seq(T \cap ToSet(list))
  BY <1>3 DEF Newest, from
<1>5. Newest(list, n) \in Seq(T)
  BY <1>4, SeqMonotonic
<1>6. \A i \in DOMAIN Newest(list, n) : Newest(list, n)[i] \in ToSet(list)
  BY <1>4
<1> QED
  BY <1>5, <1>6 DEF ToSet

\* What is remembered after a chunk was remembered before, or is in the chunk.
LEMMA RecordedIn ==
  ASSUME NEW T, completed \in Seq(T), NEW outs \in Seq(T)
  PROVE  Recorded(outs) \in Seq(T)
<1> DEFINE D == DOMAIN outs
           Body(f, s) == IF s = {} THEN completed ELSE Remember(f[s \ {Max(s)}], outs[Max(s)])
           iter == CHOOSE f : f = [s \in SUBSET D |-> Body(f, s)]
           pick == [s \in SUBSET D |-> Max(s)]
           step == [p \in D \X Seq(T) |-> Remember(p[2], outs[p[1]])]
<1>1. FoldLeft(Remember, completed, outs) = iter[D]
  BY DEF FoldLeft, MapThenFoldSet
<1>2. IsFiniteSet(D) /\ D = 1..Len(outs) /\ \A i \in D : outs[i] \in T
  BY FS_Interval
<1>3. \A s \in SUBSET D : s # {} => Max(s) \in s
  BY <1>2, GreatestOf
<1> HIDE DEF D
<1>4. iter = [s \in SUBSET D |-> Body(iter, s)]
  <2>1. step \in [D \X Seq(T) -> Seq(T)]
    BY <1>2, Remembers
  <2>2. Picks(pick, D)
    BY <1>3 DEF Picks
  <2>3. PICK f \in [SUBSET D -> Seq(T)] : \A s \in SUBSET D :
           f[s] = IF s = {} THEN completed ELSE step[<<pick[s], f[s \ {pick[s]}]>>]
    <3> DEFINE V == Seq(T)
    <3>1. IsFiniteSet(D) /\ completed \in V /\ Adds(step, D, V)
      BY <1>2, <2>1 DEF Adds
    <3> HIDE DEF step, pick, V
    <3>2. \E f \in [SUBSET D -> V] : FoldsBy(f, D, completed, step, pick)
      BY <2>2, <3>1, FoldExists
    <3> QED
      BY <3>2 DEF V, FoldsBy
  <2>4. ASSUME NEW s \in SUBSET D PROVE f[s] = Body(f, s)
    <3>1. s # {} => Max(s) \in D /\ f[s \ {Max(s)}] \in Seq(T)
      BY <1>3, <2>3
    <3> QED
      BY <2>3, <3>1
  <2>5. f = [s \in SUBSET D |-> Body(f, s)]
    BY <2>3, <2>4
  <2> QED
    BY <2>5
<1> HIDE DEF iter
<1>5. iter[{}] \in Seq(T)
  BY <1>4
<1>6. ASSUME NEW s \in SUBSET D, s # {}, iter[s \ {pick[s]}] \in Seq(T) PROVE iter[s] \in Seq(T)
  <2>1. iter[s] = Remember(iter[s \ {Max(s)}], outs[Max(s)])
    BY <1>4, <1>6
  <2>2. outs[Max(s)] \in T
    BY <1>2, <1>3, <1>6
  <2> QED
    BY <1>6, <2>1, <2>2, Remembers
<1>7. iter[D] \in Seq(T)
  <2>1. \A s \in SUBSET D : s # {} => pick[s] \in s
    BY <1>3
  <2> HIDE DEF pick
  <2> QED
    BY <1>2, <1>5, <1>6, <2>1, FoldStays
<1> QED
  BY <1>1, <1>7, NewestOf, ServiceAssumption DEF Recorded

LEMMA TruthInit == ServiceInit => TruthInv /\ DiskInv
<1> SUFFICES ASSUME ServiceInit PROVE TruthInv /\ DiskInv
  OBVIOUS
<1>1. << >> \in Seq(TrueOutcomes) /\ << >> \in Seq(Txs) /\ ToSet(results) = {}
  BY DEF ServiceInit, ToSet
<1> QED
  BY <1>1 DEF ServiceInit, TruthInv, DiskInv, Answers

\* Which steps touch what is stored, recorded, persisted and cached.
LEMMA Touched ==
  ASSUME [ServiceNext]_svcVars
  PROVE  /\ \/ UNCHANGED store
            \/ \E s \in Submissions : RunAlone(s) \/ \E i \in Submissions : RunItem(s, i)
         /\ \/ UNCHANGED completed \/ Crash
            \/ \E s \in Submissions : RecordChunk(s) \/ NoteAlone(s)
         /\ \/ UNCHANGED outcomes \/ Crash
            \/ \E s \in Submissions :
                 RecordChunk(s) \/ RunAlone(s) \/ NoteAlone(s) \/ \E i \in Submissions : RunItem(s, i)
         /\ UNCHANGED persisted \/ \E s \in Submissions : Persist(s)
         /\ UNCHANGED results \/ Crash \/ \E s \in Submissions : Cache(s)
<1>1. \/ \E s \in Submissions : \/ Quiet(s) \/ Enqueue(s) \/ Drain(s) \/ TakeChunk(s)
                                \/ \E i \in Submissions : RunItem(s, i)
      \/ Elapse \/ Crash \/ UNCHANGED svcVars
  BY Steps
<1>2. ASSUME NEW s \in Submissions,
             Receive(s) \/ Turned(s) \/ HangUp(s) \/ Look(s) \/ Enqueue(s) \/ Drain(s) \/ TakeChunk(s)
      PROVE  UNCHANGED <<store, completed, outcomes, persisted, results>>
  BY <1>2 DEF Receive, Turned, HangUp, Look, Enqueue, Drain, TakeChunk, flushVars, answered
<1>3. ASSUME NEW s \in Submissions, RunAlone(s) \/ \E i \in Submissions : RunItem(s, i)
      PROVE  UNCHANGED <<completed, persisted, results>>
  BY <1>3 DEF RunAlone, RunItem, answered
<1>4. ASSUME NEW s \in Submissions, RecordChunk(s) \/ NoteAlone(s)
      PROVE  UNCHANGED <<store, persisted, results>>
  BY <1>4 DEF RecordChunk, NoteAlone, answered
<1>5. ASSUME NEW s \in Submissions, Persist(s)
      PROVE  UNCHANGED <<store, completed, outcomes, results>>
  BY <1>5 DEF Persist, flushVars
<1>6. ASSUME NEW s \in Submissions, Cache(s)
      PROVE  UNCHANGED <<store, completed, outcomes, persisted>>
  BY <1>6 DEF Cache, flushVars
<1>7. ASSUME Elapse \/ UNCHANGED svcVars
      PROVE  UNCHANGED <<store, completed, outcomes, persisted, results>>
  BY <1>7 DEF Elapse, svcVars, flushVars, answered
<1>8. ASSUME Crash PROVE UNCHANGED <<store, persisted>>
  BY <1>8 DEF Crash
<1> QED
  BY <1>1, <1>2, <1>3, <1>4, <1>5, <1>6, <1>7, <1>8 DEF Quiet

\* Which steps bring a task to a phase where it is about to tell.
LEMMA Told ==
  ASSUME TaskInv, TruthInv, [ServiceNext]_svcVars, NEW s \in Submissions
  PROVE  /\ answer' \in [Submissions -> Answers]
         /\ phase'[s] = "note" => phase[s] = "note" \/ RunAlone(s)
         /\ phase'[s] = "persist" => \/ phase[s] = "persist"
                                     \/ Look(s) /\ \E o \in Found(s) : o.accepted
                                     \/ NoteAlone(s) /\ outcomes[s][1].accepted
         /\ phase'[s] = "cache" => \/ phase[s] = "cache" \/ Persist(s)
                                   \/ Look(s) /\ ~config.durable /\ \E o \in Found(s) : o.accepted
                                   \/ NoteAlone(s) /\ ~config.durable /\ outcomes[s][1].accepted
         /\ answer'[s] \in {"accepted", "duplicate"} =>
              answer'[s] = answer[s] \/ Cache(s) \/ (Receive(s) /\ Known(TxOf[s]))
         /\ phase[s] = "idle" /\ phase'[s] # "idle" => Receive(s)
<1> DEFINE Goes(u) == /\ \E p \in Phases : GoTo(u, p)
                      /\ UNCHANGED answer \/ \E a \in Answers : answer' = [answer EXCEPT ![u] = a]
<1> USE DEF TaskInv, TruthInv
<1>1. ASSUME NEW u \in Submissions,
             \/ Quiet(u) \/ Enqueue(u) \/ Drain(u) \/ TakeChunk(u)
             \/ \E i \in Submissions : RunItem(u, i)
      PROVE  Goes(u) \/ UNCHANGED <<phase, answer>>
  <2>1. CASE Receive(u) \/ Turned(u) \/ HangUp(u) \/ TakeChunk(u)
    BY <2>1 DEF Receive, Turned, HangUp, TakeChunk, Answer, answered, Answers, Phases
  <2>2. CASE RecordChunk(u) \/ RunAlone(u) \/ Persist(u) \/ Cache(u)
    BY <2>2 DEF RecordChunk, RunAlone, Persist, Cache, Answer, answered, Answers, Phases
  <2>3. CASE Enqueue(u) \/ Drain(u) \/ \E i \in Submissions : RunItem(u, i)
    BY <2>3 DEF Enqueue, Drain, RunItem, GoTo, answered, Phases
  <2>4. CASE Look(u) \/ NoteAlone(u)
    BY <2>4 DEF Look, NoteAlone, Conclude, Answer, Answers, Phases
  <2> QED
    BY <1>1, <2>1, <2>2, <2>3, <2>4 DEF Quiet
<1>2. ASSUME NEW u \in Submissions, u # s, Goes(u)
      PROVE  answer' \in [Submissions -> Answers] /\ phase'[s] = phase[s] /\ answer'[s] = answer[s]
  BY <1>2 DEF GoTo
<1>3. ASSUME Elapse \/ UNCHANGED svcVars PROVE UNCHANGED <<phase, answer>>
  BY <1>3 DEF Elapse, svcVars, answered
<1>4. ASSUME Crash
      PROVE  UNCHANGED answer /\ phase'[s] \in {phase[s], "over"} /\ (phase[s] = "idle" => phase'[s] = "idle")
  BY <1>4 DEF Crash, UnderWay
<1>5. ASSUME Goes(s)
      PROVE  answer' \in [Submissions -> Answers] /\ phase'[s] \in Phases /\ answer'[s] \in Answers
  BY <1>5 DEF GoTo
<1>6. CASE UNCHANGED <<phase, answer>> \/ Crash \/ \E u \in Submissions \ {s} : Goes(u)
  BY <1>2, <1>4, <1>6
<1> HIDE DEF Goes
<1>7. CASE Goes(s) /\ (Receive(s) \/ Turned(s) \/ HangUp(s) \/ TakeChunk(s))
  BY <1>5, <1>7 DEF Receive, Turned, HangUp, TakeChunk, GoTo, Answer, answered
<1>8. CASE Goes(s) /\ (RecordChunk(s) \/ RunAlone(s) \/ Persist(s) \/ Cache(s))
  BY <1>5, <1>8 DEF RecordChunk, RunAlone, Persist, Cache, GoTo, Answer, answered
<1>9. CASE Goes(s) /\ (Enqueue(s) \/ Drain(s) \/ \E i \in Submissions : RunItem(s, i))
  BY <1>5, <1>9 DEF Enqueue, Drain, RunItem, GoTo, answered
<1>10. CASE Goes(s) /\ Look(s)
  BY <1>5, <1>10 DEF Look, Conclude, GoTo, Answer
<1>11. CASE Goes(s) /\ NoteAlone(s)
  BY <1>5, <1>11 DEF NoteAlone, Conclude, GoTo, Answer
<1> QED
  BY <1>1, <1>3, <1>6, <1>7, <1>8, <1>9, <1>10, <1>11, Steps DEF Quiet

\* What is cached was cached before, or is the transaction that is being cached.
LEMMA Caches ==
  ASSUME NEW s \in Submissions, Cache(s), TxOf[s] \in Txs, results \in Seq(Txs)
  PROVE  results' \in Seq(Txs) /\ ToSet(results') \subseteq ToSet(results) \cup {TxOf[s]}
<1> DEFINE less == RemoveFirst(results, TxOf[s])
           more == Append(less, TxOf[s])
<1>1. less \in Seq(Txs) /\ ToSet(less) \subseteq ToSet(results)
  BY FirstRemoved
<1> HIDE DEF less
<1>2. more \in Seq(Txs) /\ ToSet(more) \subseteq ToSet(results) \cup {TxOf[s]}
  BY <1>1 DEF ToSet
<1> HIDE DEF more
<1>3. Newest(more, MaxResults) \in Seq(Txs) /\ ToSet(Newest(more, MaxResults)) \subseteq ToSet(more)
  BY <1>2, NewestOf, ServiceAssumption
<1> QED
  BY <1>2, <1>3 DEF Cache, more, less

\* Only its own task changes the outcomes a submission holds.
LEMMA Kept ==
  ASSUME TaskInv, TruthInv, [ServiceNext]_svcVars, NEW s \in Submissions,
         phase[s] = "note", phase'[s] = "note"
  PROVE  outcomes'[s] = outcomes[s]
<1>1. ~RecordChunk(s) /\ ~RunAlone(s) /\ ~NoteAlone(s) /\ \A i \in Submissions : ~RunItem(s, i)
  BY DEF RecordChunk, RunAlone, NoteAlone, RunItem, Conclude, Answer, GoTo, TaskInv
<1>2. ~Crash
  BY DEF Crash, UnderWay
<1>3. ASSUME NEW u \in Submissions, u # s,
             RecordChunk(u) \/ RunAlone(u) \/ NoteAlone(u) \/ \E i \in Submissions : RunItem(u, i)
      PROVE  outcomes'[s] = outcomes[s]
  BY <1>3 DEF RecordChunk, RunAlone, NoteAlone, RunItem, TruthInv
<1> QED
  BY <1>1, <1>2, <1>3, Touched

LEMMA ConfigKept == [ServiceNext]_svcVars => config' = config
<1>1. ASSUME NEW s \in Submissions, Quiet(s) PROVE config' = config
  BY <1>1, QuietMoves DEF Moved
<1>2. ASSUME NEW s \in Submissions,
             Enqueue(s) \/ Drain(s) \/ TakeChunk(s) \/ \E i \in Submissions : RunItem(s, i)
      PROVE  config' = config
  BY <1>2 DEF Enqueue, Drain, TakeChunk, RunItem
<1>3. Elapse \/ Crash \/ UNCHANGED svcVars => config' = config
  BY DEF Elapse, Crash, svcVars
<1> QED
  BY <1>1, <1>2, <1>3, Steps

LEMMA TruthStep ==
  ASSUME TaskInv, TruthInv, [ServiceNext]_svcVars
  PROVE  TruthInv'
<1>1. stored \subseteq stored' /\ TrueOutcomes \subseteq TrueOutcomes'
  <2>1. ASSUME NEW t, Execute(t) PROVE stored \subseteq stored'
    BY <2>1 DEF Execute, store
  <2>2. stored \subseteq stored'
    BY <2>1, Touched DEF RunAlone, RunItem, store
  <2> QED
    BY <2>2 DEF TrueOutcomes
<1>2. Seq(TrueOutcomes) \subseteq Seq(TrueOutcomes')
  <2> DEFINE V == TrueOutcomes
             W == TrueOutcomes'
  <2>1. V \subseteq W
    BY <1>1
  <2> HIDE DEF V, W
  <2>2. Seq(V) \subseteq Seq(W)
    BY <2>1, SeqMonotonic
  <2> QED
    BY <2>2 DEF V, W
<1>3. ASSUME NEW t \in Txs, Execute(t) PROVE Outcome(t) \in TrueOutcomes'
  BY <1>3 DEF Execute, Executable, Outcome, TrueOutcomes
<1>4. \A s \in Submissions : TxOf[s] \in Txs
  BY DEF Txs
<1>5. completed' \in Seq(TrueOutcomes')
  <2>1. ASSUME NEW s \in Submissions, RecordChunk(s) \/ NoteAlone(s)
        PROVE  completed' \in Seq(TrueOutcomes)
    <3>1. completed' = Recorded(outcomes[s]) /\ outcomes[s] \in Seq(TrueOutcomes)
          /\ completed \in Seq(TrueOutcomes)
      BY <2>1 DEF RecordChunk, NoteAlone, TruthInv
    <3> QED
      BY <3>1, RecordedIn
  <2>2. Crash => completed' \in Seq(TrueOutcomes)
    BY DEF Crash
  <2>3. UNCHANGED completed => completed' \in Seq(TrueOutcomes)
    BY Zenon DEF TruthInv
  <2> QED
    BY <1>2, <2>1, <2>2, <2>3, Touched
<1>6. outcomes' \in [Submissions -> Seq(TrueOutcomes')]
  <2>1. outcomes \in [Submissions -> Seq(TrueOutcomes')]
    BY <1>2 DEF TruthInv
  <2> DEFINE V == Seq(TrueOutcomes')
  <2>2. << >> \in V
    OBVIOUS
  <2>3. ASSUME NEW s \in Submissions, NEW i \in Submissions, RunItem(s, i)
        PROVE  outcomes' \in [Submissions -> V]
    <3>1. Append(outcomes[s], Outcome(TxOf[i])) \in V
      BY <1>3, <1>4, <2>1, <2>3 DEF RunItem
    <3> HIDE DEF V
    <3> QED
      BY <2>1, <2>3, <3>1 DEF RunItem, V
  <2>4. ASSUME NEW s \in Submissions, RunAlone(s) PROVE outcomes' \in [Submissions -> V]
    <3>1. <<Outcome(TxOf[s])>> \in V
      BY <1>3, <1>4, <2>4 DEF RunAlone
    <3> QED
      BY <2>1, <2>4, <3>1 DEF RunAlone
  <2>5. ASSUME NEW s \in Submissions, RecordChunk(s) \/ NoteAlone(s) PROVE outcomes' \in [Submissions -> V]
    BY <2>1, <2>2, <2>5 DEF RecordChunk, NoteAlone
  <2>6. Crash \/ UNCHANGED outcomes => outcomes' \in [Submissions -> V]
    BY <2>1, <2>2 DEF Crash
  <2> QED
    BY <2>3, <2>4, <2>5, <2>6, Touched
<1>7. \A s \in Submissions :
        phase[s] \in {"persist", "cache"} \/ answer[s] \in {"accepted", "duplicate"} => Makes[TxOf[s]] \subseteq stored'
  BY <1>1 DEF TruthInv
<1>8. persisted' \subseteq Txs /\ \A t \in persisted' : Makes[t] \subseteq stored'
  BY <1>1, <1>4, <1>7, Touched DEF Persist, TruthInv
<1>9. results' \in Seq(Txs) /\ \A t \in ToSet(results') : Makes[t] \subseteq stored'
  <2>1. ASSUME NEW s \in Submissions, Cache(s)
        PROVE  results' \in Seq(Txs) /\ ToSet(results') \subseteq ToSet(results) \cup {TxOf[s]}
    BY <2>1, <1>4, Caches DEF TruthInv
  <2>2. Crash => results' \in Seq(Txs) /\ ToSet(results') = {}
    BY DEF Crash, ToSet
  <2>3. ASSUME NEW s \in Submissions, Cache(s) PROVE Makes[TxOf[s]] \subseteq stored'
    BY <1>7, <2>3 DEF Cache
  <2> QED
    BY <1>1, <2>1, <2>2, <2>3, Touched DEF TruthInv
<1>10. answer' \in [Submissions -> Answers]
  <2>1. CASE Submissions = {}
    <3>1. UNCHANGED answer
      BY <2>1, Steps DEF Elapse, Crash, svcVars, answered
    <3> QED
      BY <3>1 DEF TruthInv
  <2>2. CASE Submissions # {}
    BY <2>2, Told
  <2> QED
    BY <2>1, <2>2
<1>11. ASSUME NEW s \in Submissions, phase'[s] = "note"
       PROVE  Len(outcomes'[s]) = 1 /\ outcomes'[s][1].tx = TxOf[s]
  <2>1. CASE RunAlone(s)
    <3>1. outcomes'[s] = <<Outcome(TxOf[s])>>
      BY <2>1 DEF RunAlone, TruthInv
    <3> QED
      BY <3>1 DEF Outcome
  <2>2. CASE phase[s] = "note" /\ ~RunAlone(s)
    <3>1. Len(outcomes[s]) = 1 /\ outcomes[s][1].tx = TxOf[s]
      BY <2>2 DEF TruthInv
    <3>2. outcomes'[s] = outcomes[s]
      BY <2>2, <1>11, Kept
    <3> QED
      BY <3>1, <3>2
  <2> QED
    BY <1>11, <2>1, <2>2, Told
<1>12. ASSUME NEW s \in Submissions, Look(s), \E o \in Found(s) : o.accepted
       PROVE  Makes[TxOf[s]] \subseteq stored
  <2>1. PICK o \in ToSet(completed) : o.tx = TxOf[s] /\ o.accepted
    BY <1>12 DEF Found
  <2>2. o \in TrueOutcomes
    BY <2>1 DEF TruthInv, ToSet
  <2> QED
    BY <2>1, <2>2 DEF TrueOutcomes
<1>13. ASSUME NEW s \in Submissions, NoteAlone(s), outcomes[s][1].accepted
       PROVE  Makes[TxOf[s]] \subseteq stored
  <2>1. outcomes[s][1] \in TrueOutcomes /\ outcomes[s][1].tx = TxOf[s]
    BY <1>13 DEF NoteAlone, TruthInv
  <2> QED
    BY <1>13, <2>1 DEF TrueOutcomes
<1>14. ASSUME NEW s \in Submissions, Known(TxOf[s]) PROVE Makes[TxOf[s]] \subseteq stored
  BY <1>14 DEF Known, TruthInv
<1>15. ASSUME NEW s \in Submissions,
              phase'[s] \in {"persist", "cache"} \/ answer'[s] \in {"accepted", "duplicate"}
       PROVE  Makes[TxOf[s]] \subseteq stored'
  <2>1. CASE Persist(s) \/ Cache(s)
    BY <1>7, <2>1 DEF Persist, Cache
  <2> QED
    BY <1>1, <1>7, <1>12, <1>13, <1>14, <1>15, <2>1, Told
<1>16. \A s \in Submissions :
         /\ phase'[s] = "note" => Len(outcomes'[s]) = 1 /\ outcomes'[s][1].tx = TxOf[s]
         /\ phase'[s] \in {"persist", "cache"} \/ answer'[s] \in {"accepted", "duplicate"}
              => Makes[TxOf[s]] \subseteq stored'
  BY <1>11, <1>15
<1> QED
  BY <1>5, <1>6, <1>8, <1>9, <1>10, <1>16 DEF TruthInv

LEMMA DiskStep ==
  ASSUME TaskInv, TruthInv, DiskInv, [ServiceNext]_svcVars
  PROVE  DiskInv'
<1>1. config' = config
  BY ConfigKept
<1> SUFFICES ASSUME config.durable PROVE DiskInv'
  BY <1>1 DEF DiskInv
<1>2. persisted \subseteq persisted'
  BY Touched DEF Persist
<1>3. ToSet(results') \subseteq persisted'
  <2>1. ASSUME NEW s \in Submissions, Cache(s)
        PROVE  ToSet(results') \subseteq ToSet(results) \cup {TxOf[s]} /\ TxOf[s] \in persisted
    <3>1. TxOf[s] \in Txs /\ phase[s] = "cache"
      BY <2>1 DEF Cache, Txs
    <3> QED
      BY <2>1, <3>1, Caches DEF TruthInv, DiskInv
  <2>2. Crash => ToSet(results') = {}
    BY DEF Crash, ToSet
  <2> QED
    BY <1>2, <2>1, <2>2, Touched DEF DiskInv
<1>4. ASSUME NEW s \in Submissions, phase'[s] = "cache" \/ answer'[s] \in {"accepted", "duplicate"}
      PROVE  TxOf[s] \in persisted'
  <2>1. Persist(s) => TxOf[s] \in persisted'
    BY DEF Persist
  <2>2. Cache(s) => TxOf[s] \in persisted
    BY DEF Cache, DiskInv
  <2>3. Known(TxOf[s]) => TxOf[s] \in persisted
    BY DEF Known, DiskInv
  <2> QED
    BY <1>2, <1>4, <2>1, <2>2, <2>3, Told DEF DiskInv
<1> QED
  BY <1>3, <1>4 DEF DiskInv

\* AcceptedIsTrue: whoever is told that a transaction was accepted, by its own flush,
\* by another's, from the cache or from disk after a restart, finds its outputs stored.
THEOREM AcceptedHappened == ServiceSpec => []AcceptedIsTrue
<1>1. TaskInv /\ TruthInv => AcceptedIsTrue
  BY DEF TruthInv, AcceptedIsTrue
<1>2. TaskInv /\ TruthInv /\ [ServiceNext]_svcVars => TruthInv'
  BY TruthStep
<1>3. ServiceInit => TruthInv
  BY TruthInit
<1> QED
  BY <1>1, <1>2, <1>3, WhereInit, WhereStep, PTL DEF ServiceSpec

\* StableAnswer: with a persistent store, a transaction that was answered as accepted is
\* answered as a duplicate ever after, whatever the caches dropped or a restart lost.
THEOREM AnswersAgree == ServiceSpec => StableAnswer
<1>1. ASSUME TaskInv, TruthInv, DiskInv, [ServiceNext]_svcVars, NEW s \in Submissions,
             config.durable, phase[s] = "idle", phase'[s] # "idle",
             NEW c \in Submissions, TxOf[c] = TxOf[s], answer[c] \in {"accepted", "duplicate"}
      PROVE  answer'[s] = "duplicate"
  <2>1. Receive(s)
    BY <1>1, Told
  <2>2. Known(TxOf[s])
    BY <1>1 DEF DiskInv, Known
  <2>3. answer' = [answer EXCEPT ![s] = "duplicate"]
    BY <2>1, <2>2 DEF Receive, Answer
  <2> QED
    BY <1>1, <2>3 DEF TruthInv
<1> DEFINE A == \A s \in Submissions :
                  /\ config.durable /\ phase[s] = "idle" /\ phase'[s] # "idle"
                  /\ \E c \in Submissions : TxOf[c] = TxOf[s] /\ answer[c] \in {"accepted", "duplicate"}
                  => answer'[s] = "duplicate"
<1>2. TaskInv /\ TruthInv /\ DiskInv /\ [ServiceNext]_svcVars => [A]_svcVars
  BY <1>1
<1>3. TaskInv /\ TruthInv /\ DiskInv /\ [ServiceNext]_svcVars => TruthInv' /\ DiskInv'
  BY TruthStep, DiskStep
<1>4. ServiceInit => TruthInv /\ DiskInv
  BY TruthInit
<1>5. ServiceSpec => [][A]_svcVars
  <2> HIDE DEF A
  <2> QED
    BY <1>2, <1>3, <1>4, WhereInit, WhereStep, PTL DEF ServiceSpec
<1> QED
  BY <1>5 DEF StableAnswer
=============================================================================
