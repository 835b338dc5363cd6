-------------------------- MODULE MiningRpcProofs --------------------------
(***************************************************************************)
(* Grounded, NoRewardInvented and NoShareTwice for any number of threads,  *)
(* any blocks and any limits.                                              *)
(*                                                                         *)
(* A thread carries what it has found out past the lock under which it     *)
(* found it.  The invariant says what of it stays true: a block that was   *)
(* checked has its parent among the blocks that ever were in the cache,    *)
(* though the cache may hold the parent no more; the block of a call that  *)
(* is past its store was in the cache; a balance that was read is covered  *)
(* by the shares paid so far.                                              *)
(***************************************************************************)
EXTENDS MiningRpc, FiniteSetTheorems, SequenceTheorems, LocalMiner, RateLimiter, FoldFacts, TLAPS

Checked == {"begin", "rest", "newline", "insert"}
Paying == {"announce", "exclusive", "reward", "credit"}
Good(b) == b \in Sound /\ Parent[b] \in ever \cup {Root}
Done(t) == at[t] = "stored" \/ (t \in Miners /\ at[t] \in Paying)

GroundInv ==
  /\ at = [t \in Threads |-> at[t]] /\ todo = [t \in Threads |-> todo[t]]
  /\ Grounded
  /\ \A t \in Threads : at[t] \in Checked => Good(Head(todo[t]))
  /\ \A t \in Threads : Done(t) => Head(todo[t]) \in ever

LEMMA GroundInit == Init => GroundInv
  BY DEF Init, CacheInit, GroundInv, Grounded, Checked, Paying, Done, Range

\* Thread t moves on; what it may claim where it goes is all there is to show.
LEMMA MoveInv ==
  ASSUME GroundInv, Grounded', NEW t \in Threads, ever \subseteq ever',
         at' = [at EXCEPT ![t] = at'[t]], todo' = [todo EXCEPT ![t] = todo'[t]],
         at'[t] \in Checked => Good(Head(todo'[t])),
         at'[t] = "stored" \/ (t \in Miners /\ at'[t] \in Paying) => Head(todo'[t]) \in ever'
  PROVE  GroundInv'
<1>1. \A u \in Threads \ {t} : at'[u] = at[u] /\ todo'[u] = todo[u]
  BY DEF GroundInv
<1> QED
  BY <1>1 DEF GroundInv, Good, Done

\* One call changes at and todo of its own thread.
LEMMA OwnCall ==
  ASSUME GroundInv, NEW t \in Threads,
         (\E s : Goto(t, s)) \/ UNCHANGED at,
         (\E s : todo' = [todo EXCEPT ![t] = s]) \/ UNCHANGED todo
  PROVE  at' = [at EXCEPT ![t] = at'[t]] /\ todo' = [todo EXCEPT ![t] = todo'[t]]
<1>1. at' = [at EXCEPT ![t] = at'[t]]
  <2>1. CASE \E s : Goto(t, s)
    <3>1. PICK s : at' = [at EXCEPT ![t] = s]
      BY <2>1 DEF Goto
    <3> QED
      BY <3>1 DEF GroundInv
  <2> QED
    BY <2>1 DEF GroundInv
<1>2. todo' = [todo EXCEPT ![t] = todo'[t]]
  <2>1. CASE \E s : todo' = [todo EXCEPT ![t] = s]
    <3>1. PICK s : todo' = [todo EXCEPT ![t] = s]
      BY <2>1
    <3> QED
      BY <3>1 DEF GroundInv
  <2> QED
    BY <2>1 DEF GroundInv
<1> QED
  BY <1>1, <1>2

LEMMA CheckGround == ASSUME GroundInv, NEW t \in Threads, Check(t), UNCHANGED heads PROVE GroundInv'
<1> DEFINE b == Head(todo[t])
<1>1. Goto(t, at'[t]) /\ UNCHANGED <<todo, blocks, ever, heads>>
  BY DEF Check, Goto, GroundInv, cacheVars
<1>2. ASSUME at'[t] \in Checked PROVE Good(b)
  <2>1. ValidateInsert(b)
    BY <1>2 DEF Check, Goto, GroundInv, Checked
  <2>2. CASE Number[b] \in DOMAIN blocks /\ blocks[Number[b]] = b
    BY <2>2 DEF GroundInv, Grounded, Good, Range
  <2>3. CASE Number[b] - 1 \in DOMAIN blocks /\ ValidChild(blocks[Number[b] - 1], b)
    BY <2>3 DEF GroundInv, Grounded, Good, ValidChild, Range
  <2>4. CASE ValidChild(Root, b)
    BY <2>4 DEF Good, ValidChild
  <2> QED
    BY <2>1, <2>2, <2>3, <2>4 DEF ValidateInsert
<1>3. at'[t] \in Checked \cup {"refused"}
  BY DEF Check, Goto, GroundInv, Checked
<1>4. Grounded'
  BY <1>1 DEF heads, GroundInv, Grounded
<1> QED
  BY <1>1, <1>2, <1>3, <1>4, OwnCall, MoveInv DEF Checked, Paying

\* The record is written: the block stays what it was.
LEMMA PersistGround ==
  ASSUME GroundInv, NEW t \in Threads, Begin(t) \/ Rest(t) \/ Newline(t), UNCHANGED heads
  PROVE  GroundInv'
<1>1. /\ at[t] \in Checked /\ at'[t] \in Checked /\ Goto(t, at'[t])
      /\ UNCHANGED <<todo, blocks, ever, heads>>
  BY DEF Begin, Rest, Newline, Goto, GroundInv, cacheVars, Checked
<1>2. Grounded' /\ Good(Head(todo'[t]))
  BY <1>1 DEF heads, GroundInv, Grounded
<1> QED
  BY <1>1, <1>2, OwnCall, MoveInv DEF Checked, Paying

LEMMA InsertGround == ASSUME GroundInv, NEW t \in Threads, Insert(t), UNCHANGED heads PROVE GroundInv'
<1> DEFINE b == Head(todo[t])
<1>1. /\ Good(b) /\ ever' = ever \cup {b} /\ UNCHANGED heads
      /\ \E s : todo' = [todo EXCEPT ![t] = s]
      /\ Goto(t, at'[t]) /\ at'[t] \in {"stored", "check"}
      /\ at'[t] = "stored" => todo'[t] = todo[t]
  BY DEF Insert, Goto, GroundInv, Checked
<1>2. Range(blocks') \subseteq Range(blocks) \cup {b}
  BY DEF Insert, WithBlock, Kept, Range
<1>3. Grounded'
  BY <1>1, <1>2 DEF heads, GroundInv, Grounded, Good
<1> QED
  BY <1>1, <1>3, OwnCall, MoveInv DEF Checked, Paying

LEMMA SplitGround == ASSUME GroundInv, NEW t \in Threads, Split(t), UNCHANGED heads PROVE GroundInv'
<1>1. Goto(t, "check") /\ UNCHANGED <<todo, ever, heads>> /\ Range(blocks') \subseteq Range(blocks)
  BY DEF Split, Restrict, Range
<1>2. Grounded'
  BY <1>1 DEF heads, GroundInv, Grounded
<1>3. at'[t] = "check"
  BY <1>1 DEF Goto, GroundInv
<1> QED
  BY <1>1, <1>2, <1>3, OwnCall, MoveInv DEF Checked, Paying

-----------------------------------------------------------------------------
\* The cache is left alone, and where the thread goes it need not claim more.
LEMMA CallGround ==
  ASSUME GroundInv, Grounded', NEW t \in Threads, UNCHANGED ever,
         Goto(t, at'[t]), (\E s : todo' = [todo EXCEPT ![t] = s]) \/ UNCHANGED todo,
         at'[t] \notin Checked \cup {"stored"},
         t \in Miners /\ at'[t] \in Paying => UNCHANGED todo /\ Done(t)
  PROVE  GroundInv'
<1>1. t \in Miners /\ at'[t] \in Paying => Head(todo'[t]) \in ever'
  BY DEF GroundInv
<1> QED
  BY <1>1, OwnCall, MoveInv

\* What the RPC adds to its own history and head was in the cache.
LEMMA HistoryGround ==
  ASSUME GroundInv, NEW b \in ever, history' = HistoryWith(b) \/ UNCHANGED history,
         latest' = b \/ UNCHANGED latest, UNCHANGED <<blocks, ever>>
  PROVE  Grounded'
<1>1. Range(history') \subseteq Range(history) \cup {b}
  BY DEF HistoryWith, Range
<1> QED
  BY <1>1 DEF GroundInv, Grounded

LEMMA MinerGround ==
  ASSUME GroundInv, NEW t \in Miners, Submit(t) \/ MinerStep(t)
  PROVE  GroundInv'
<1> USE MiningAssumption DEF store, cacheVars, heads
<1>1. ASSUME Submit(t) \/ Remember(t) \/ Take(t) \/ Retain(t) \/ BuildBlock(t) \/ RefuseMined(t)
             \/ ReadAccount(t) \/ Credit(t)
      PROVE  GroundInv'
  <2>1. UNCHANGED <<blocks, ever, heads>>
    BY <1>1 DEF Submit, Remember, Take, Retain, BuildBlock, RefuseMined, ReadAccount, Credit
  <2>2. \E s : Goto(t, s)
    BY <1>1 DEF Submit, Remember, Take, Retain, BuildBlock, RefuseMined, ReadAccount, Credit, AnswerMiner, Answer, CallStore
  <2>3. (\E s : todo' = [todo EXCEPT ![t] = s]) \/ UNCHANGED todo
    BY <1>1 DEF Submit, Remember, Take, Retain, BuildBlock, RefuseMined, ReadAccount, Credit, AnswerMiner, Answer, CallStore
  <2>4. /\ at'[t] \in {"idle", "remember", "take", "retain", "gone", "head", "check", "credit"}
        /\ at'[t] = "credit" => at[t] = "reward" /\ UNCHANGED todo
    BY <1>1 DEF Submit, Remember, Take, Retain, BuildBlock, RefuseMined, ReadAccount, Credit, AnswerMiner, Answer,
                CallStore, Goto, GroundInv
  <2>5. Grounded' /\ Goto(t, at'[t])
    BY <2>1, <2>2 DEF GroundInv, Grounded, Goto
  <2> QED
    BY <2>1, <2>3, <2>4, <2>5, CallGround DEF Checked, Paying, Done
<1>2. ASSUME KeepMined(t) \/ Announce(t) \/ SetLatest(t) PROVE GroundInv'
  <2>1. /\ UNCHANGED <<blocks, ever, todo>>
        /\ at[t] \in {"stored", "announce", "exclusive"}
        /\ \E s \in {"announce", "exclusive", "reward"} : Goto(t, s)
    BY <1>2 DEF KeepMined, Announce, SetLatest
  <2>2. Goto(t, at'[t]) /\ at'[t] \in {"announce", "exclusive", "reward"}
    BY <2>1 DEF GroundInv, Goto
  <2>3. Done(t)
    BY <2>1 DEF Done, Paying
  <2> t \in Threads
    OBVIOUS
  <2>5. Head(todo[t]) \in ever
    BY <2>3 DEF GroundInv
  <2>4. Grounded'
    BY <1>2, <2>1, <2>5, HistoryGround DEF KeepMined, Announce, SetLatest
  <2> QED
    BY <2>1, <2>2, <2>3, <2>4, CallGround DEF Checked
<1> QED
  BY <1>1, <1>2 DEF MinerStep

LEMMA OtherGround ==
  ASSUME GroundInv, NEW t \in Threads \ Miners,
         \/ Import(t) \/ ImporterStep(t) \/ AskMissing(t) \/ ReadAgain(t) \/ SyncCall(t) \/ FinishSync(t)
  PROVE  GroundInv'
<1> USE DEF store, cacheVars, heads
<1>1. UNCHANGED <<blocks, ever>>
  BY DEF Import, ImporterStep, Announce, ImportStore, FinishImport, AskMissing, ReadAgain, SyncCall, FinishSync
<1>2. \E s : Goto(t, s)
  BY DEF Import, ImporterStep, Announce, ImportStore, FinishImport, AskMissing, ReadAgain, SyncCall, FinishSync,
         Answer, CallStore, CallReplace
<1>3. (\E s : todo' = [todo EXCEPT ![t] = s]) \/ UNCHANGED todo
  BY DEF Import, ImporterStep, Announce, ImportStore, FinishImport, AskMissing, ReadAgain, SyncCall, FinishSync,
         Answer, CallStore, CallReplace
<1>4. at'[t] \in {"idle", "announce", "exclusive", "check", "split", "again"}
  BY DEF Import, ImporterStep, Announce, ImportStore, FinishImport, AskMissing, ReadAgain, SyncCall, FinishSync,
         Answer, CallStore, CallReplace, Goto, GroundInv
<1>5. Grounded'
  <2>1. CASE UNCHANGED heads
    BY <1>1, <2>1 DEF GroundInv, Grounded
  <2>2. CASE FinishImport(t) /\ ~UNCHANGED heads
    <3>1. at[t] = "stored"
      BY <2>2 DEF FinishImport
    <3> Done(t)
      BY <3>1 DEF Done
    <3>2. Head(todo[t]) \in ever
      BY DEF GroundInv
    <3> QED
      BY <1>1, <2>2, <3>1, <3>2, HistoryGround DEF FinishImport
  <2> QED
    BY <2>1, <2>2 DEF Import, ImporterStep, Announce, ImportStore, AskMissing, ReadAgain, SyncCall, FinishSync
<1>6. Goto(t, at'[t])
  BY <1>2 DEF GroundInv, Goto
<1> QED
  BY <1>1, <1>3, <1>4, <1>5, <1>6, CallGround DEF Checked

LEMMA GroundStep == ASSUME GroundInv, [Next]_miningVars PROVE GroundInv'
<1>1. CASE GetWork \/ Tick \/ UNCHANGED miningVars
  <2>1. UNCHANGED <<at, todo, blocks, ever, history, latest>>
    BY <1>1 DEF GetWork, Tick, miningVars, store, cacheVars, heads
  <2> QED
    BY <2>1 DEF GroundInv, Grounded, Good, Done
<1>2. ASSUME NEW t \in Threads, Store(t) PROVE GroundInv'
  BY <1>2, CheckGround, PersistGround, InsertGround, SplitGround DEF Store, StoreStep
<1> QED
  BY <1>1, <1>2, MinerGround, OtherGround, MiningAssumption DEF Next

LEMMA Grounding == MiningSpec => []GroundInv
  BY GroundInit, GroundStep, PTL DEF MiningSpec

\* However miners, imports and the sync task interleave, each cached, remembered or
\* announced block has a line of valid blocks behind it.
THEOREM ChainGrounded == MiningSpec => []Grounded
<1>1. GroundInv => Grounded
  BY DEF GroundInv
<1> QED
  BY <1>1, Grounding, PTL

-----------------------------------------------------------------------------
(* The coinbase's account.                                                 *)

IsSequence(s) == s \in Seq(Range(s))

LEMMA AppendTo ==
  ASSUME NEW s, NEW e, IsSequence(s)
  PROVE  /\ IsSequence(Append(s, e)) /\ Len(Append(s, e)) = Len(s) + 1 /\ Len(s) \in Nat
         /\ DOMAIN Append(s, e) = DOMAIN s \cup {Len(s) + 1} /\ DOMAIN s = 1..Len(s)
         /\ Append(s, e)[Len(s) + 1] = e
         /\ \A i \in DOMAIN s : Append(s, e)[i] = s[i]
<1>1. s \in Seq(Range(s) \cup {e}) /\ Append(s, e) \in Seq(Range(s) \cup {e})
  BY DEF IsSequence
<1>2. IsSequence(Append(s, e))
  BY <1>1, SeqOfRange DEF IsSequence
<1> QED
  BY <1>1, <1>2

LEMMA OneMore == \A r, n \in Nat : r * n \in Nat /\ r * (n + 1) = r * n + r
  OBVIOUS

MoneyInv ==
  /\ balance \in Nat /\ base \in [Miners -> Nat] /\ IsSequence(accepted)
  /\ NoRewardInvented
  /\ \A t \in Miners : base[t] <= Reward * Len(accepted)

LEMMA MoneyInit == Init => MoneyInv
  BY MiningAssumption DEF Init, MoneyInv, NoRewardInvented, IsSequence, Range

LEMMA MoneyStep == ASSUME GroundInv, MoneyInv, [Next]_miningVars PROVE MoneyInv'
<1> USE MiningAssumption
<1>1. CASE UNCHANGED money /\ ever \subseteq ever'
  BY <1>1 DEF money, MoneyInv, NoRewardInvented
<1>2. ASSUME NEW t \in Miners, ReadAccount(t) PROVE MoneyInv'
  <2>1. base' = [base EXCEPT ![t] = balance] /\ UNCHANGED <<balance, accepted, ever>>
    BY <1>2 DEF ReadAccount, store, cacheVars
  <2> QED
    BY <2>1 DEF MoneyInv, NoRewardInvented
<1>3. ASSUME NEW t \in Miners, Credit(t) PROVE MoneyInv'
  <2> DEFINE paid == [share |-> Key(t), block |-> Head(todo[t])]
  <2>1. /\ balance' = base[t] + Reward /\ accepted' = Append(accepted, paid)
        /\ base' = [base EXCEPT ![t] = 0] /\ ever' = ever
    BY <1>3 DEF Credit, store, cacheVars
  <2>2. paid.block \in ever
    <3>1. Done(t)
      BY <1>3 DEF Credit, Done, Paying
    <3> QED
      BY <3>1 DEF GroundInv
  <2>3. Len(accepted) \in Nat /\ Len(accepted') = Len(accepted) + 1
    BY <2>1, AppendTo DEF MoneyInv
  <2>4. Reward * Len(accepted') = Reward * Len(accepted) + Reward /\ Reward * Len(accepted) \in Nat
    BY <2>3, OneMore
  <2>5. \A i \in DOMAIN accepted' : accepted'[i].block \in ever'
    <3>1. IsSequence(accepted) /\ \A i \in DOMAIN accepted : accepted[i].block \in ever
      BY DEF MoneyInv, NoRewardInvented
    <3>2. ASSUME NEW i \in DOMAIN accepted' PROVE accepted'[i] = paid \/ \E j \in DOMAIN accepted : accepted'[i] = accepted[j]
      <4> HIDE DEF paid
      <4> QED
        BY <2>1, <3>1, <3>2, AppendTo
    <3> HIDE DEF paid
    <3> QED
      BY <2>1, <2>2, <3>1, <3>2
  <2>6. IsSequence(accepted')
    BY <2>1, AppendTo DEF MoneyInv
  <2>7. /\ balance' \in Nat /\ base' \in [Miners -> Nat]
        /\ balance' <= Reward * Len(accepted')
        /\ \A u \in Miners : base'[u] <= Reward * Len(accepted')
    <3>1. /\ base[t] \in Nat /\ base[t] <= Reward * Len(accepted)
          /\ \A u \in Miners : base[u] \in Nat /\ base[u] <= Reward * Len(accepted)
          /\ base' \in [Miners -> Nat] /\ \A u \in Miners : base'[u] \in {0, base[u]}
      BY <2>1 DEF MoneyInv
    <3>2. Reward \in Nat
      OBVIOUS
    <3> DEFINE before == Reward * Len(accepted)
               after == Reward * Len(accepted')
    <3>3. before \in Nat /\ after = before + Reward
      BY <2>4
    <3>4. /\ base[t] \in Nat /\ base[t] <= before
          /\ \A u \in Miners : base[u] \in Nat /\ base[u] <= before
      BY <3>1
    <3> HIDE DEF before, after
    <3>5. balance' \in Nat /\ balance' <= after
      BY <2>1, <3>2, <3>3, <3>4
    <3>6. \A u \in Miners : base'[u] <= after
      BY <3>1, <3>2, <3>3, <3>4, SMTT(30)
    <3> QED
      BY <3>1, <3>5, <3>6 DEF after
  <2> QED
    BY <2>5, <2>6, <2>7 DEF MoneyInv, NoRewardInvented
<1>4. ASSUME NEW t \in Threads, Store(t) PROVE UNCHANGED money /\ ever \subseteq ever'
  BY <1>4 DEF Store, StoreStep, Check, Begin, Rest, Newline, Insert, Split, cacheVars
<1>5. ASSUME NEW t \in Miners, Submit(t) \/ MinerStep(t), ~ReadAccount(t), ~Credit(t)
      PROVE  UNCHANGED money /\ ever \subseteq ever'
  BY <1>5 DEF Submit, MinerStep, Remember, Take, Retain, BuildBlock, KeepMined, Announce, SetLatest, RefuseMined,
              store, cacheVars
<1>6. ASSUME NEW t \in Threads,
             \/ Import(t) \/ ImporterStep(t) \/ AskMissing(t) \/ ReadAgain(t) \/ SyncCall(t) \/ FinishSync(t)
      PROVE  UNCHANGED money /\ ever \subseteq ever'
  BY <1>6 DEF Import, ImporterStep, Announce, ImportStore, FinishImport, AskMissing, ReadAgain, SyncCall, FinishSync,
              store, cacheVars
<1>7. CASE GetWork \/ Tick \/ UNCHANGED miningVars
  BY <1>1, <1>7 DEF GetWork, Tick, miningVars, store, cacheVars, money
<1> QED
  BY <1>1, <1>2, <1>3, <1>4, <1>5, <1>6, <1>7 DEF Next, MinerStep

\* Rewards are lost when two miners read one balance, and never made up.
THEOREM RewardsCovered == MiningSpec => []NoRewardInvented
<1>1. MiningSpec => []MoneyInv
  BY MoneyInit, MoneyStep, Grounding, PTL DEF MiningSpec
<1>2. MoneyInv => NoRewardInvented
  BY DEF MoneyInv
<1> QED
  BY <1>1, <1>2, PTL

-----------------------------------------------------------------------------
(* Shares.  The registry of shares seen is all that protects them: as long *)
(* as it had no need to forget one, no share gets past Remember twice.     *)

Remembering == {t \in Miners : at[t] = "remember"}
Past(t) == at[t] \notin {"idle", "remember"}

PaidInv ==
  /\ IsSequence(seenOrder) /\ Len(seenOrder) + Cardinality(Remembering) <= sent
  /\ NoShareTwice
  /\ \A i \in DOMAIN accepted : accepted[i].share \in seen
  /\ \A t \in Miners : Past(t) =>
       /\ Key(t) \in seen
       /\ \A i \in DOMAIN accepted : accepted[i].share # Key(t)
       /\ \A u \in Miners : Past(u) /\ Key(u) = Key(t) => u = t

ShareInv ==
  /\ sent \in Nat /\ share = [t \in Miners |-> share[t]] /\ at = [t \in Threads |-> at[t]]
  /\ IsSequence(accepted)
  /\ sent <= MaxSeen => PaidInv

LEMMA ShareInit == Init => ShareInv
<1> SUFFICES ASSUME Init PROVE ShareInv
  OBVIOUS
<1>1. Remembering = {}
  BY MiningAssumption DEF Init, Remembering
<1>2. PaidInv
  BY <1>1, MiningAssumption, FS_EmptySet DEF Init, PaidInv, NoShareTwice, Past, IsSequence, Range
<1> QED
  BY <1>2 DEF Init, ShareInv, IsSequence, Range

LEMMA MinersFinite == Miners \subseteq Threads /\ IsFiniteSet(Miners) /\ IsFiniteSet(Remembering)
  BY MiningAssumption, FS_Subset DEF Remembering

\* No share is noted or paid, and nobody gets past Remember.
LEMMA SharesAside ==
  ASSUME ShareInv, UNCHANGED <<seen, seenOrder, accepted>>, sent' \in {sent, sent + 1},
         share' = [t \in Miners |-> share'[t]], at' = [t \in Threads |-> at'[t]],
         \A t \in Miners : (at'[t] = "remember" <=> at[t] = "remember"),
         \A t \in Miners : Past(t)' => Past(t) /\ share'[t] = share[t]
  PROVE  ShareInv'
<1>1. sent' \in Nat /\ sent <= sent'
  BY DEF ShareInv
<1>2. ASSUME PaidInv, sent <= MaxSeen PROVE PaidInv'
  <2>1. Remembering' = Remembering
    BY DEF Remembering
  <2>2. \A t \in Miners : Past(t)' => Past(t) /\ Key(t)' = Key(t)
    BY DEF Key
  <2>3. Len(seenOrder) \in Nat /\ Cardinality(Remembering) \in Nat
    BY <1>2, MinersFinite, FS_CardinalityType, AppendTo DEF PaidInv
  <2>4. (Len(seenOrder) + Cardinality(Remembering) <= sent)'
    BY <1>1, <1>2, <2>1, <2>3 DEF PaidInv, ShareInv
  <2> QED
    BY <1>2, <2>2, <2>4 DEF PaidInv, NoShareTwice
<1> QED
  BY <1>1, <1>2, MiningAssumption DEF ShareInv

LEMMA SubmitShares == ASSUME ShareInv, NEW t \in Miners, Submit(t) PROVE ShareInv'
<1> USE MinersFinite
<1>1. PICK x : share' = [share EXCEPT ![t] = x]
  BY DEF Submit
<1>2. /\ at[t] = "idle" /\ at' = [at EXCEPT ![t] = "remember"] /\ sent' = sent + 1
      /\ UNCHANGED <<seen, seenOrder, accepted>>
  BY DEF Submit, Goto, money
<1>3. share' = [u \in Miners |-> share'[u]] /\ at' = [u \in Threads |-> at'[u]] /\ sent' \in Nat
  BY <1>1, <1>2 DEF ShareInv
<1>4. ASSUME PaidInv PROVE PaidInv'
  <2>1. Remembering' = Remembering \cup {t} /\ t \notin Remembering
    BY <1>2 DEF Remembering, ShareInv
  <2>2. Cardinality(Remembering') = Cardinality(Remembering) + 1 /\ Cardinality(Remembering) \in Nat
    BY <2>1, FS_AddElement, FS_CardinalityType
  <2>3. Len(seenOrder) \in Nat
    BY <1>4, AppendTo DEF PaidInv
  <2>4. (Len(seenOrder) + Cardinality(Remembering) <= sent)'
    BY <1>2, <1>4, <2>2, <2>3 DEF PaidInv, ShareInv
  <2>5. \A u \in Miners : Past(u)' => Past(u) /\ Key(u)' = Key(u)
    BY <1>1, <1>2 DEF Past, Key, ShareInv
  <2> QED
    BY <1>2, <1>4, <2>4, <2>5 DEF PaidInv, NoShareTwice
<1> QED
  BY <1>2, <1>3, <1>4, MiningAssumption DEF ShareInv

LEMMA RememberShares == ASSUME ShareInv, NEW t \in Miners, Remember(t) PROVE ShareInv'
<1> USE MinersFinite
<1>1. CASE ~NewShare(t)
  <2>1. /\ at[t] = "remember" /\ at' = [at EXCEPT ![t] = "idle"] /\ share' = [share EXCEPT ![t] = None]
        /\ UNCHANGED <<seen, seenOrder, accepted, sent>>
    BY <1>1 DEF Remember, AnswerMiner, Answer, Goto, money, counts
  <2>2. share' = [u \in Miners |-> share'[u]] /\ at' = [u \in Threads |-> at'[u]]
    BY <2>1 DEF ShareInv
  <2>3. ASSUME PaidInv PROVE PaidInv'
    <3>1. Remembering' = Remembering \ {t} /\ t \in Remembering
      BY <2>1 DEF Remembering, ShareInv
    <3>2. Cardinality(Remembering') = Cardinality(Remembering) - 1 /\ Cardinality(Remembering) \in Nat
      BY <3>1, FS_RemoveElement, FS_CardinalityType
    <3>3. Len(seenOrder) \in Nat
      BY <2>3, AppendTo DEF PaidInv
    <3>4. (Len(seenOrder) + Cardinality(Remembering) <= sent)'
      BY <2>1, <2>3, <3>2, <3>3 DEF PaidInv, ShareInv
    <3>5. \A u \in Miners : Past(u)' => Past(u) /\ Key(u)' = Key(u)
      BY <2>1 DEF Past, Key, ShareInv
    <3> QED
      BY <2>1, <2>3, <3>4, <3>5 DEF PaidInv, NoShareTwice
  <2> QED
    BY <2>1, <2>2, <2>3 DEF ShareInv
<1>2. CASE NewShare(t)
  <2> DEFINE order == Append(seenOrder, Key(t))
             stale == IF Len(order) > MaxSeen THEN 1 ELSE 0
  <2>1. /\ at[t] = "remember" /\ at' = [at EXCEPT ![t] = "take"] /\ UNCHANGED <<share, accepted, sent>>
        /\ seenOrder' = SubSeq(order, 1 + stale, Len(order))
        /\ seen' = (seen \cup {Key(t)}) \ Range(SubSeq(order, 1, stale))
    BY <1>2 DEF Remember, Goto, money, counts
  <2>2. at' = [u \in Threads |-> at'[u]]
    BY <2>1 DEF ShareInv
  <2>3. ASSUME PaidInv, sent <= MaxSeen PROVE PaidInv'
    <3>1. Remembering' = Remembering \ {t} /\ t \in Remembering
      BY <2>1 DEF Remembering, ShareInv
    <3>2. /\ Cardinality(Remembering') = Cardinality(Remembering) - 1
          /\ Cardinality(Remembering) \in Nat /\ Cardinality(Remembering') \in Nat
      BY <3>1, FS_RemoveElement, FS_CardinalityType
    <3>3. IsSequence(order) /\ Len(order) = Len(seenOrder) + 1 /\ Len(seenOrder) \in Nat
      BY <2>3, AppendTo DEF PaidInv
    <3>4. Len(order) <= MaxSeen /\ Len(order) + Cardinality(Remembering') <= sent
      BY <2>3, <3>2, <3>3, MiningAssumption DEF PaidInv, ShareInv
    <3>5. stale = 0
      BY <3>3, <3>4, MiningAssumption
    <3>6. seenOrder' = order /\ seen' = seen \cup {Key(t)}
      <4> HIDE DEF order, stale
      <4>1. SubSeq(order, 1, Len(order)) = order
        BY <3>3, SubSeqFull DEF IsSequence
      <4>2. SubSeq(order, 1, 0) = << >>
        BY SubSeqEmpty
      <4> QED
        BY <2>1, <3>5, <4>1, <4>2 DEF Range
    <3>7. \A u \in Miners : /\ Key(u)' = Key(u)
                            /\ Past(u)' => Past(u) \/ u = t
      BY <2>1 DEF Past, Key, ShareInv
    <3>8. Key(t) \notin seen
      BY <1>2 DEF NewShare
    <3> HIDE DEF order, stale
    <3>9. (Len(seenOrder) + Cardinality(Remembering) <= sent /\ IsSequence(seenOrder))'
      BY <2>1, <3>3, <3>4, <3>6
    <3>10. ASSUME NEW u \in Miners, Past(u)'
           PROVE  /\ Key(u)' \in seen'
                  /\ \A i \in DOMAIN accepted' : accepted'[i].share # Key(u)'
                  /\ \A v \in Miners : Past(v)' /\ Key(v)' = Key(u)' => v = u
      BY <2>1, <2>3, <3>6, <3>7, <3>8, <3>10 DEF PaidInv
    <3>11. NoShareTwice' /\ \A i \in DOMAIN accepted' : accepted'[i].share \in seen'
      BY <2>1, <2>3, <3>6 DEF PaidInv, NoShareTwice
    <3> QED
      BY <3>9, <3>10, <3>11 DEF PaidInv
  <2> HIDE DEF order, stale
  <2> QED
    BY <2>1, <2>2, <2>3 DEF ShareInv
<1> QED
  BY <1>1, <1>2

LEMMA CreditShares == ASSUME ShareInv, NEW t \in Miners, Credit(t) PROVE ShareInv'
<1> USE MinersFinite
<1> DEFINE paid == [share |-> Key(t), block |-> Head(todo[t])]
<1>1. /\ at[t] = "credit" /\ at' = [at EXCEPT ![t] = "idle"] /\ share' = [share EXCEPT ![t] = None]
      /\ accepted' = Append(accepted, paid) /\ UNCHANGED <<seen, seenOrder, sent>>
  BY DEF Credit, AnswerMiner, Answer, Goto, books, counts
<1>2. share' = [u \in Miners |-> share'[u]] /\ at' = [u \in Threads |-> at'[u]]
  BY <1>1 DEF ShareInv
<1>3. IsSequence(accepted')
  BY <1>1, AppendTo DEF ShareInv
<1>4. ASSUME PaidInv PROVE PaidInv'
  <2>1. Remembering' = Remembering
    BY <1>1 DEF Remembering, ShareInv
  <2>2. \A u \in Miners : Past(u)' => Past(u) /\ u # t /\ Key(u)' = Key(u)
    BY <1>1 DEF Past, Key, ShareInv
  <2>3. Past(t) /\ paid.share = Key(t)
    BY <1>1 DEF Past
  <2> HIDE DEF paid
  <2>4. /\ DOMAIN accepted' = DOMAIN accepted \cup {Len(accepted) + 1}
        /\ accepted'[Len(accepted) + 1].share = Key(t)
        /\ \A i \in DOMAIN accepted : accepted'[i] = accepted[i]
    BY <1>1, <2>3, AppendTo DEF ShareInv
  <2>5. NoShareTwice'
    BY <1>4, <2>3, <2>4 DEF PaidInv, NoShareTwice
  <2>6. \A i \in DOMAIN accepted' : accepted'[i].share \in seen'
    BY <1>1, <1>4, <2>3, <2>4 DEF PaidInv
  <2>7. ASSUME NEW u \in Miners, Past(u)'
        PROVE  /\ Key(u)' \in seen'
               /\ \A i \in DOMAIN accepted' : accepted'[i].share # Key(u)'
               /\ \A v \in Miners : Past(v)' /\ Key(v)' = Key(u)' => v = u
    BY <1>1, <1>4, <2>2, <2>3, <2>4, <2>7 DEF PaidInv
  <2> QED
    BY <1>1, <1>4, <2>1, <2>5, <2>6, <2>7 DEF PaidInv
<1> HIDE DEF paid
<1> QED
  BY <1>1, <1>2, <1>3, <1>4 DEF ShareInv

LEMMA ShareStep == ASSUME ShareInv, [Next]_miningVars PROVE ShareInv'
<1> USE MinersFinite, MiningAssumption
<1>1. ASSUME NEW t \in Threads, Store(t) PROVE ShareInv'
  <2>1. /\ at[t] \in Checked \cup {"check", "split"}
        /\ \E s \in Checked \cup {"check", "refused", "stored"} : Goto(t, s)
        /\ UNCHANGED <<seen, seenOrder, accepted, sent, share>>
    BY <1>1 DEF Store, StoreStep, Check, Begin, Rest, Newline, Insert, Split, Checked, work, money, counts
  <2>2. at' = [u \in Threads |-> at'[u]] /\ \A u \in Threads : u # t => at'[u] = at[u]
    BY <2>1 DEF Goto, ShareInv
  <2>3. at'[t] \in Checked \cup {"check", "refused", "stored"}
    BY <2>1 DEF Goto, ShareInv
  <2>4. \A u \in Miners : (at'[u] = "remember" <=> at[u] = "remember") /\ (Past(u)' => Past(u))
    BY <2>1, <2>2, <2>3 DEF Past, Checked
  <2> QED
    BY <2>1, <2>2, <2>4, SharesAside DEF ShareInv
<1>2. ASSUME NEW t \in Miners, MinerStep(t), ~Remember(t), ~Credit(t) PROVE ShareInv'
  <2>1. /\ at[t] \notin {"idle", "remember"}
        /\ UNCHANGED <<seen, seenOrder, accepted, sent>>
    BY <1>2 DEF MinerStep, Take, Retain, BuildBlock, KeepMined, Announce, SetLatest, ReadAccount, RefuseMined,
                books, work, money, counts
  <2>2. \/ \E s \in {"retain", "gone", "head", "check", "announce", "exclusive", "reward", "credit"} :
             Goto(t, s) /\ UNCHANGED share
        \/ Goto(t, "idle") /\ share' = [share EXCEPT ![t] = None]
    BY <1>2 DEF MinerStep, Take, Retain, BuildBlock, KeepMined, Announce, SetLatest, ReadAccount, RefuseMined,
                AnswerMiner, Answer, CallStore, books, work
  <2>3. at' = [u \in Threads |-> at'[u]] /\ share' = [u \in Miners |-> share'[u]]
    BY <2>2 DEF Goto, ShareInv
  <2>4. \A u \in Miners : /\ at'[u] = "remember" <=> at[u] = "remember"
                          /\ Past(u)' => Past(u) /\ share'[u] = share[u]
    BY <2>1, <2>2 DEF Past, Goto, ShareInv
  <2> QED
    BY <2>1, <2>3, <2>4, SharesAside
<1>3. ASSUME NEW t \in Threads \ Miners,
             \/ Import(t) \/ ImporterStep(t) \/ AskMissing(t) \/ ReadAgain(t) \/ SyncCall(t) \/ FinishSync(t)
      PROVE  ShareInv'
  <2>1. UNCHANGED <<seen, seenOrder, accepted, share>> /\ sent' \in {sent, sent + 1}
    BY <1>3 DEF Import, ImporterStep, Announce, ImportStore, FinishImport, AskMissing, ReadAgain, SyncCall, FinishSync,
                work, money, counts
  <2>2. \E s : Goto(t, s)
    BY <1>3 DEF Import, ImporterStep, Announce, ImportStore, FinishImport, AskMissing, ReadAgain, SyncCall, FinishSync,
                Answer, CallStore, CallReplace
  <2>3. at' = [u \in Threads |-> at'[u]] /\ \A u \in Threads : u # t => at'[u] = at[u]
    BY <2>2 DEF Goto, ShareInv
  <2>4. \A u \in Miners : at'[u] = at[u]
    BY <2>3
  <2> QED
    BY <2>1, <2>3, <2>4, SharesAside DEF Past, ShareInv
<1>4. CASE GetWork \/ Tick \/ UNCHANGED miningVars
  <2>1. UNCHANGED <<at, share, seen, seenOrder, accepted, sent>>
    BY <1>4 DEF GetWork, Tick, miningVars, work, money, counts
  <2> QED
    BY <2>1, SharesAside DEF Past, ShareInv
<1> QED
  BY <1>1, <1>2, <1>3, <1>4, SubmitShares, RememberShares, CreditShares DEF Next

\* Work ids repeat within a second, and many threads may read one job before one of
\* them consumes it: until the registry is full, no share is paid for twice.
THEOREM SharePaidOnce == MiningSpec => [](sent <= MaxSeen => NoShareTwice)
<1>1. MiningSpec => []ShareInv
  BY ShareInit, ShareStep, PTL DEF MiningSpec
<1>2. ShareInv => (sent <= MaxSeen => NoShareTwice)
  BY DEF ShareInv, PaidInv
<1> QED
  BY <1>1, <1>2, PTL

-----------------------------------------------------------------------------
(* The local miner: WorkIsFresh, from what is known of a call, of an answer     *)
(* that waits in the channel and of the job under way.                         *)
\* h was the node's head at time t or later.
HeadSince(h, t) == h \in 0..nodeHead /\ (h = nodeHead \/ replacedAt[h + 1] >= t)

MinerTypeOK ==
  /\ nodeHead \in Nat /\ secs \in Nat
  /\ replacedAt \in Seq(Int) /\ Len(replacedAt) = nodeHead
  /\ minerStep \in {"idle", "fetch", "hash", "submit"}
  /\ jobStarted \in 0..secs
  /\ newest \in 0..nodeHead
  /\ call \in [since : 0..secs, read : Int] /\ watch \in [since : 0..secs, read : Int]
  /\ pushed \in Seq({Failed} \cup Nat)

\* A call is under way no longer than the client waits, and what the node has read for it was its
\* head meanwhile, no older than any head worked on.
CallInv(c) ==
  /\ c # NoCall => secs - c.since <= CallTimeout
  /\ c.read >= 0 => newest <= c.read /\ HeadSince(c.read, c.since)

PushedInv == \A i \in 1..Len(pushed) :
  pushed[i] >= 0 => newest <= pushed[i] /\ HeadSince(pushed[i], secs - CallTimeout)

JobInv ==
  /\ job = newest /\ HeadSince(job, jobStarted - CallTimeout)
  /\ secs - jobStarted <= MaxJobAgeSecs
  /\ PushedInv

MinerInv ==
  /\ MinerTypeOK
  /\ CallInv(call) /\ CallInv(watch)
  /\ minerStep = "hash" => JobInv

LEMMA MinerStart == MinerInit => MinerInv
<1> SUFFICES ASSUME MinerInit PROVE MinerInv
  OBVIOUS
<1>1. << >> \in Seq(Int) /\ << >> \in Seq({Failed} \cup Nat) /\ Len(<< >>) = 0
  OBVIOUS
<1>2. MinerTypeOK
  BY <1>1 DEF MinerInit, MinerTypeOK, NoCall, Failed
<1>3. CallInv(call) /\ CallInv(watch)
  BY DEF MinerInit, CallInv, NoCall, Failed
<1> QED
  BY <1>2, <1>3 DEF MinerInit, MinerInv

\* What a head was since t it stays, whatever the node does now or later.
LEMMA HeadStays ==
  ASSUME MinerTypeOK, NEW h, NEW t \in Int, t <= secs, HeadSince(h, t),
         Replaced \/ UNCHANGED <<nodeHead, replacedAt>>
  PROVE  HeadSince(h, t)'
<1>1. CASE UNCHANGED <<nodeHead, replacedAt>>
  BY <1>1 DEF HeadSince
<1>2. CASE Replaced
  <2>1. nodeHead' = nodeHead + 1 /\ secs \in Int
    BY <1>2 DEF Replaced, MinerTypeOK
  <2>2. \A i \in 1..nodeHead : replacedAt'[i] = replacedAt[i]
    BY <1>2 DEF Replaced, MinerTypeOK
  <2>3. replacedAt'[nodeHead + 1] = secs
    BY <1>2 DEF Replaced, MinerTypeOK
  <2>4. nodeHead \in Nat
    BY DEF MinerTypeOK
  <2>5. CASE h = nodeHead
    BY <2>1, <2>3, <2>4, <2>5 DEF HeadSince
  <2>6. CASE h # nodeHead
    <3>1. h \in 0..(nodeHead - 1) /\ h + 1 \in 1..nodeHead
      BY <2>4, <2>6 DEF HeadSince
    <3> QED
      BY <2>1, <2>2, <2>4, <2>6, <3>1 DEF HeadSince
  <2> QED
    BY <2>5, <2>6
<1> QED
  BY <1>1, <1>2

LEMMA LaterIsWeaker ==
  ASSUME MinerTypeOK, NEW h, NEW t \in Int, NEW u \in Int, u <= t, HeadSince(h, t)
  PROVE  HeadSince(h, u)
<1>1. h # nodeHead => h + 1 \in 1..Len(replacedAt)
  BY DEF MinerTypeOK, HeadSince
<1>2. h # nodeHead => replacedAt[h + 1] \in Int
  BY <1>1 DEF MinerTypeOK
<1> QED
  BY <1>2 DEF HeadSince

\* What is known of a call, of the answers pushed and of the job holds on while the head moves and
\* nothing else does.
LEMMA ReplacedKeeps ==
  ASSUME MinerInv, Replaced \/ UNCHANGED <<nodeHead, replacedAt>>, UNCHANGED <<newest, secs>>
  PROVE  /\ call' = call => CallInv(call)'
         /\ watch' = watch => CallInv(watch)'
         /\ UNCHANGED <<job, jobStarted, pushed>> /\ JobInv => JobInv'
         /\ nodeHead' \in Nat /\ replacedAt' \in Seq(Int) /\ Len(replacedAt') = nodeHead'
         /\ nodeHead <= nodeHead' /\ nodeHead' <= nodeHead + 1
<1> USE DEF MinerInv
<1>1. \A h : \A t \in Int : t <= secs /\ HeadSince(h, t) =>
        h \in 0..nodeHead' /\ (h = nodeHead' \/ replacedAt'[h + 1] >= t)
  BY HeadStays DEF HeadSince
<1>2. nodeHead' \in Nat /\ replacedAt' \in Seq(Int) /\ Len(replacedAt') = nodeHead'
      /\ nodeHead <= nodeHead' /\ nodeHead' <= nodeHead + 1
  <2>1. CASE UNCHANGED <<nodeHead, replacedAt>>
    BY <2>1 DEF MinerTypeOK
  <2>2. CASE Replaced
    <3>1. replacedAt \in Seq(Int) /\ secs \in Int /\ Len(replacedAt) = nodeHead /\ nodeHead \in Nat
      BY DEF MinerTypeOK
    <3>2. Append(replacedAt, secs) \in Seq(Int) /\ Len(Append(replacedAt, secs)) = nodeHead + 1
      BY <3>1
    <3> QED
      BY <2>2, <3>1, <3>2 DEF Replaced
  <2> QED
    BY <2>1, <2>2
<1>3. ASSUME NEW c \in [since : 0..secs, read : Int], CallInv(c)
      PROVE  /\ c # NoCall => secs' - c.since <= CallTimeout
             /\ c.read >= 0 => newest' <= c.read /\ c.read \in 0..nodeHead'
                                /\ (c.read = nodeHead' \/ replacedAt'[c.read + 1] >= c.since)
  <2>1. c.since \in Int /\ c.since <= secs /\ secs \in Nat
    BY DEF MinerTypeOK
  <2> QED
    BY <1>1, <1>3, <2>1 DEF CallInv
<1>4. (call' = call => CallInv(call)') /\ (watch' = watch => CallInv(watch)')
  BY <1>3 DEF MinerTypeOK, CallInv, HeadSince
<1>5. ASSUME UNCHANGED <<job, jobStarted, pushed>>, JobInv
      PROVE  JobInv'
  <2>1. secs \in Nat /\ jobStarted \in 0..secs /\ CallTimeout \in Nat
    BY MinerAssumption DEF MinerTypeOK
  <2>2. HeadSince(job, jobStarted - CallTimeout)'
    BY <1>1, <1>5, <2>1 DEF JobInv, HeadSince
  <2>3. PushedInv'
    <3> SUFFICES ASSUME NEW i \in 1..Len(pushed), pushed[i] >= 0
                 PROVE  newest' <= pushed'[i] /\ HeadSince(pushed[i], secs - CallTimeout)'
      BY <1>5 DEF PushedInv
    <3>1. newest <= pushed[i] /\ HeadSince(pushed[i], secs - CallTimeout)
      BY <1>5 DEF JobInv, PushedInv
    <3>2. secs - CallTimeout \in Int /\ secs - CallTimeout <= secs
      BY <2>1
    <3> QED
      BY <1>1, <1>5, <3>1, <3>2 DEF HeadSince
  <2> QED
    BY <1>5, <2>2, <2>3 DEF JobInv
<1> QED
  BY <1>2, <1>4, <1>5

\* The next job, for a head that was the node's within the time of a call, and the next channel.
LEMMA WorkKeeps ==
  ASSUME MinerInv, NEW h \in Nat, NEW rest, newest <= h, HeadSince(h, secs - CallTimeout),
         Work(h, rest), UNCHANGED <<nodeHead, replacedAt, secs>>
  PROVE  MinerInv'
<1>1. MinerTypeOK'
  BY DEF Work, MinerInv, MinerTypeOK, HeadSince, NewChannel, NoCall, Called, Failed, Unread
<1>2. CallInv(call)' /\ CallInv(watch)'
  BY MinerAssumption DEF Work, MinerInv, MinerTypeOK, CallInv, NoCall, Called, Failed, Unread
<1>3. JobInv'
  BY MinerAssumption DEF Work, MinerInv, MinerTypeOK, JobInv, PushedInv, HeadSince, NewChannel
<1> QED
  BY <1>1, <1>2, <1>3 DEF MinerInv

LEMMA MinerStepInv == MinerInv /\ [MinerNext]_minerVars => MinerInv'
<1> SUFFICES ASSUME MinerInv, [MinerNext]_minerVars PROVE MinerInv'
  OBVIOUS
<1> DEFINE SameHead == UNCHANGED <<nodeHead, replacedAt>>
<1>0. MinerTypeOK /\ CallTimeout \in Nat /\ MaxJobAgeSecs \in Nat
  BY MinerAssumption DEF MinerInv
<1>1. CASE HeadReplaced
  <2>1. CallInv(call)' /\ CallInv(watch)' /\ (minerStep' = "hash" => JobInv')
    BY <1>1, ReplacedKeeps DEF HeadReplaced, MinerInv
  <2>2. MinerTypeOK'
    BY <1>0, <1>1, ReplacedKeeps DEF HeadReplaced, MinerTypeOK
  <2> QED
    BY <2>1, <2>2 DEF MinerInv
<1>2. CASE AskWork
  BY <1>0, <1>2, ReplacedKeeps DEF AskWork, MinerInv, MinerTypeOK, Called, CallInv, NoCall, Failed, Unread
<1>3. CASE AnswerWork
  <2>1. call'.read = nodeHead /\ call'.since = call.since /\ call # NoCall
    BY <1>0, <1>3 DEF AnswerWork, MinerTypeOK, NoCall, Failed, Unread
  <2>2. CallInv(call)'
    BY <1>0, <1>3, <2>1 DEF AnswerWork, MinerInv, MinerTypeOK, CallInv, HeadSince
  <2>3. UNCHANGED <<nodeHead, replacedAt, minerStep, job, jobStarted, watch, pushed, newest, secs>>
        /\ call' = [call EXCEPT !.read = nodeHead]
    BY <1>3 DEF AnswerWork
  <2>4. call' \in [since : 0..secs, read : Int]
    <3>1. call \in [since : 0..secs, read : Int] /\ nodeHead \in Int
      BY <1>0 DEF MinerTypeOK
    <3> QED
      BY <2>3, <3>1
  <2>5. MinerTypeOK'
    BY <1>0, <2>3, <2>4 DEF MinerTypeOK
  <2>6. CallInv(watch)' /\ (minerStep' = "hash" => JobInv')
    BY <2>3, ReplacedKeeps DEF MinerInv
  <2> QED
    BY <2>2, <2>5, <2>6 DEF MinerInv
<1>4. CASE WorkArrives
  <2>1. call.read \in Nat /\ call # NoCall /\ newest <= call.read
        /\ HeadSince(call.read, call.since) /\ secs - call.since <= CallTimeout
    BY <1>0, <1>4 DEF WorkArrives, MinerInv, MinerTypeOK, CallInv, NoCall, Failed
  <2>2. HeadSince(call.read, secs - CallTimeout)
    BY <1>0, <2>1, LaterIsWeaker DEF MinerTypeOK
  <2> QED
    BY <1>4, <2>1, <2>2, WorkKeeps DEF WorkArrives
<1>5. CASE WorkFails
  BY <1>0, <1>5, ReplacedKeeps DEF WorkFails, MinerInv, MinerTypeOK, CallInv, NoCall, Failed
<1>6. CASE AnswerWatch
  <2>1. watch'.read = nodeHead /\ watch'.since = watch.since /\ watch # NoCall
    BY <1>0, <1>6 DEF AnswerWatch, MinerTypeOK, NoCall, Failed, Unread
  <2>2. CallInv(watch)'
    BY <1>0, <1>6, <2>1 DEF AnswerWatch, MinerInv, MinerTypeOK, CallInv, HeadSince
  <2>3. UNCHANGED <<nodeHead, replacedAt, minerStep, job, jobStarted, call, pushed, newest, secs>>
        /\ watch' = [watch EXCEPT !.read = nodeHead]
    BY <1>6 DEF AnswerWatch
  <2>6. watch' \in [since : 0..secs, read : Int]
    <3>1. watch \in [since : 0..secs, read : Int] /\ nodeHead \in Int
      BY <1>0 DEF MinerTypeOK
    <3> QED
      BY <2>3, <3>1
  <2>4. MinerTypeOK'
    BY <1>0, <2>3, <2>6 DEF MinerTypeOK
  <2>5. CallInv(call)' /\ (minerStep' = "hash" => JobInv')
    BY <2>3, ReplacedKeeps DEF MinerInv
  <2> QED
    BY <2>2, <2>4, <2>5 DEF MinerInv
<1>7. CASE WatchEnds
  <2>1. PICK answer \in {Failed} \cup Nat :
          /\ pushed' = Append(pushed, answer)
          /\ answer >= 0 => newest <= answer /\ HeadSince(answer, secs - CallTimeout)
    <3>1. CASE pushed' = Append(pushed, Failed)
      BY <3>1 DEF Failed
    <3>2. CASE watch.read >= 0 /\ pushed' = Append(pushed, watch.read)
      <4>1. watch.read \in Nat /\ newest <= watch.read
            /\ HeadSince(watch.read, watch.since) /\ secs - watch.since <= CallTimeout
        BY <1>0, <1>7, <3>2 DEF WatchEnds, MinerInv, MinerTypeOK, CallInv
      <4>2. HeadSince(watch.read, secs - CallTimeout)
        BY <1>0, <4>1, LaterIsWeaker DEF MinerTypeOK
      <4> QED
        BY <3>2, <4>1, <4>2
    <3> QED
      BY <1>7, <3>1, <3>2 DEF WatchEnds
  <2>2. MinerTypeOK' /\ CallInv(call)' /\ CallInv(watch)'
    BY <1>0, <1>7, <2>1, ReplacedKeeps DEF WatchEnds, MinerInv, MinerTypeOK, CallInv, NoCall, Failed
  <2>3. ASSUME minerStep = "hash" PROVE JobInv'
    <3>2. PushedInv /\ UNCHANGED <<nodeHead, replacedAt, newest, secs>>
      BY <1>7, <2>3 DEF WatchEnds, MinerInv, JobInv
    <3>3. /\ Len(pushed') = Len(pushed) + 1 /\ pushed'[Len(pushed) + 1] = answer /\ Len(pushed) \in Nat
          /\ \A i \in 1..Len(pushed) : pushed'[i] = pushed[i]
      BY <1>0, <2>1, AppendProperties, LenProperties DEF MinerTypeOK
    <3>4. \A i \in 1..Len(pushed') : i \in 1..Len(pushed) \/ i = Len(pushed) + 1
      BY <3>3
    <3>1. PushedInv'
      BY <2>1, <3>2, <3>3, <3>4 DEF PushedInv, HeadSince
    <3> QED
      BY <1>7, <2>3, <3>1 DEF WatchEnds, MinerInv, JobInv, HeadSince
  <2> QED
    BY <1>7, <2>2, <2>3 DEF WatchEnds, MinerInv
<1>8. CASE FindShare
  BY <1>0, <1>8, ReplacedKeeps DEF FindShare, MinerInv, MinerTypeOK, CallInv, Called, NoCall, Failed, Unread
<1>9. CASE ShareEnds
  <2>1. CallInv(call)' /\ CallInv(watch)' /\ minerStep' = "idle"
    BY <1>9 DEF ShareEnds, JobOver, CallInv, NoCall, Failed
  <2>2. MinerTypeOK'
    BY <1>0, <1>9, ReplacedKeeps DEF ShareEnds, JobOver, MinerTypeOK, NoCall, Failed
  <2> QED
    BY <2>1, <2>2 DEF MinerInv
<1>10. CASE Switch
  <2>1. Head(pushed) = pushed[1] /\ 1 \in 1..Len(pushed) /\ JobInv
        /\ Head(pushed) \in {Failed} \cup Nat /\ newest \in Nat /\ job = newest
    BY <1>0, <1>10 DEF Switch, MinerTypeOK, MinerInv, JobInv
  <2>2. CASE Head(pushed) \in {Failed, job}
    <3>1. watch' = Called /\ pushed' = Tail(pushed)
          /\ UNCHANGED <<nodeHead, replacedAt, minerStep, job, jobStarted, call, newest, secs>>
      BY <1>10, <2>2 DEF Switch
    <3>2. CallInv(watch)' /\ CallInv(call)'
      BY <1>0, <3>1, ReplacedKeeps DEF MinerTypeOK, CallInv, Called, Unread
    <3>3. PushedInv'
      BY <1>0, <2>1, <3>1 DEF JobInv, PushedInv, MinerTypeOK, HeadSince
    <3>4. MinerTypeOK'
      BY <1>0, <2>1, <3>1 DEF MinerTypeOK, Called, Unread
    <3>5. JobInv'
      BY <2>1, <3>1, <3>3 DEF JobInv, HeadSince
    <3> QED
      BY <3>2, <3>4, <3>5 DEF MinerInv
  <2>3. CASE Head(pushed) \notin {Failed, job}
    <3>1. Work(Head(pushed), Tail(pushed)) /\ UNCHANGED <<nodeHead, replacedAt, secs>>
      BY <1>10, <2>3 DEF Switch
    <3>2. Head(pushed) \in Nat /\ newest <= Head(pushed) /\ HeadSince(Head(pushed), secs - CallTimeout)
      BY <2>1, <2>3 DEF JobInv, PushedInv
    <3> QED
      BY <3>1, <3>2, WorkKeeps
  <2> QED
    BY <2>2, <2>3
<1>11. CASE Refresh
  BY <1>0, <1>11 DEF Refresh, JobOver, MinerInv, MinerTypeOK, CallInv, NoCall, Failed
<1>12. CASE SecondPasses
  <2>1. secs' = secs + 1
        /\ UNCHANGED <<nodeHead, replacedAt, minerStep, job, jobStarted, call, watch, pushed, newest>>
    BY <1>12 DEF SecondPasses
  <2>2. MinerTypeOK'
    BY <1>0, <2>1 DEF MinerTypeOK
  <2>3. CallInv(call)' /\ CallInv(watch)'
    BY <1>0, <1>12, <2>1 DEF SecondPasses, MinerInv, MinerTypeOK, CallInv, HeadSince
  <2>4. ASSUME minerStep = "hash" PROVE JobInv'
    BY <1>0, <1>12, <2>1, <2>4 DEF SecondPasses, MinerInv, MinerTypeOK, JobInv, PushedInv, HeadSince
  <2> QED
    BY <2>1, <2>2, <2>3, <2>4 DEF MinerInv
<1>13. CASE UNCHANGED minerVars
  BY <1>0, <1>13, ReplacedKeeps DEF minerVars, MinerInv, MinerTypeOK
<1> QED
  BY <1>1, <1>2, <1>3, <1>4, <1>5, <1>6, <1>7, <1>8, <1>9, <1>10, <1>11, <1>12, <1>13 DEF MinerNext

(* For any head the node may have, however late or wrong its answers: the miner works for the newest *)
(* head it has heard of, and for none the node gave up longer ago than a call and a job may take.    *)
THEOREM MinerKeepsFresh == MinerSpec => []WorkIsFresh
<1>1. MinerInv => WorkIsFresh
  <2> SUFFICES ASSUME MinerInv, minerStep = "hash"
               PROVE  job = newest /\ (job = nodeHead \/ secs - replacedAt[job + 1] <= CallTimeout + MaxJobAgeSecs)
    BY DEF WorkIsFresh
  <2>1. JobInv /\ MinerTypeOK
    BY DEF MinerInv
  <2>2. job \in 0..nodeHead /\ job # nodeHead => replacedAt[job + 1] \in Int
    BY <2>1 DEF MinerTypeOK
  <2> QED
    BY <2>1, <2>2, MinerAssumption DEF JobInv, HeadSince, MinerTypeOK
<1> QED
  BY <1>1, MinerStart, MinerStepInv, PTL DEF MinerSpec

-----------------------------------------------------------------------------

-----------------------------------------------------------------------------
(* The limit *)

Span == Minute - MaxStall

RateTyped ==
  /\ rpcClock \in Nat
  /\ window \in [Clients -> Seq(Nat)]
  /\ \A r \in waiting : r.client \in Clients /\ r.now \in Nat /\ r.now <= rpcClock /\ rpcClock - r.now <= MaxStall
  /\ IsFiniteSet(letIn) /\ \A x \in letIn : x.at \in Nat /\ x.at <= rpcClock

LetInOf(c) == {x \in letIn : x.client = c}
\* Let in so lately that a request that is deciding now would count them all.
Fresh(c) == {x \in LetInOf(c) : rpcClock <= x.at + Span}
\* A place in the queue for each, with a time as late as it was when it asked.
Holds(queue, S, place) ==
  /\ \A x \in S : place[x] \in DOMAIN queue /\ x.at - MaxStall <= queue[place[x]]
  /\ \A x, y \in S : place[x] = place[y] => x = y
QueueInv == Limit > 0 => \A c \in Clients : \E place : Holds(window[c], Fresh(c), place)

Within(c, from) == {x \in letIn : x.client = c /\ x.at \in from..(from + Minute - MaxStall)}

RateInv == RateTyped /\ QueueInv /\ LimitHolds

\* What is dropped from a queue is its front, and nothing of it is of the last minute.
LEMMA FrontDropped ==
  ASSUME NEW w \in Seq(Nat), NEW now \in Nat
  PROVE  \E k \in 0..Len(w) :
           /\ Recent(w, now) \in Seq(Nat) /\ Len(Recent(w, now)) = Len(w) - k
           /\ \A i \in 1..Len(w) : i > k => Recent(w, now)[i - k] = w[i]
           /\ \A i \in 1..Len(w) : now - w[i] <= Minute => i > k
<1> DEFINE n == Len(w)
           stale == Stale(w, now)
           k == Cardinality(stale)
<1>1. n \in Nat /\ DOMAIN w = 1..n /\ \A i \in 1..n : w[i] \in Nat
  OBVIOUS
<1>2. stale \subseteq 1..n /\ \A i \in stale : 1..i \subseteq stale
  <2>1. stale = {i \in 1..n : \A j \in 1..i : now - w[j] > Minute}
    BY <1>1 DEF Stale
  <2>2. \A i \in 1..n : \A j \in 1..i : j \in 1..n /\ 1..j \subseteq 1..i
    BY <1>1
  <2> HIDE DEF stale, n
  <2> QED
    BY <2>1, <2>2
<1>3. \A i \in stale : now - w[i] > Minute
  <2>1. \A i \in stale : i \in 1..n /\ i \in 1..i
    BY <1>1, <1>2
  <2> QED
    BY <2>1 DEF Stale
<1> HIDE DEF stale, n
<1>4. k \in 0..n /\ stale = 1..k
  <2>1. CASE stale = {}
    <3>1. k = 0
      BY <2>1, FS_EmptySet
    <3> QED
      BY <1>1, <2>1, <3>1
  <2>2. CASE stale # {}
    <3> DEFINE m == Max(stale)
    <3>1. m \in stale /\ \A i \in stale : i <= m
      BY <1>1, <1>2, <2>2, GreatestOf
    <3> HIDE DEF m
    <3>2. m \in 1..n
      BY <1>2, <3>1
    <3>3. stale \subseteq 1..m
      BY <1>1, <1>2, <3>1, <3>2
    <3>4. stale = 1..m
      BY <1>2, <3>1, <3>3
    <3>5. k = m
      BY <1>1, <3>2, <3>4, FS_Interval
    <3> QED
      BY <1>1, <3>2, <3>4, <3>5
  <2> QED
    BY <2>1, <2>2
<1>5. Recent(w, now) = SubSeq(w, k + 1, n)
  BY DEF Recent, stale, n
<1> HIDE DEF k
<1>6. Recent(w, now) \in Seq(Nat) /\ Len(Recent(w, now)) = n - k
      /\ \A i \in 1..(n - k) : Recent(w, now)[i] = w[k + i]
  <2>1. k \in Nat /\ n \in Nat /\ k <= n /\ n = Len(w)
    BY <1>1, <1>4 DEF n
  <2> DEFINE s == SubSeq(w, k + 1, n)
  <2>2. s \in Seq(Nat) /\ Len(s) = n - k
    BY <2>1
  <2>3. \A i \in 1..(n - k) : s[i] = w[k + i]
    BY <2>1
  <2> HIDE DEF s
  <2> QED
    BY <1>5, <2>2, <2>3 DEF s
<1>7. ASSUME NEW i \in 1..n, i > k PROVE Recent(w, now)[i - k] = w[i]
  <2>1. i - k \in 1..(n - k) /\ k + (i - k) = i
    BY <1>1, <1>4, <1>7
  <2> QED
    BY <1>6, <2>1
<1>8. ASSUME NEW i \in 1..n, now - w[i] <= Minute PROVE i > k
  <2>1. i \notin stale
    BY <1>1, <1>3, <1>8, RateAssumption
  <2> QED
    BY <1>1, <1>4, <2>1
<1> QED
  BY <1>4, <1>6, <1>7, <1>8 DEF n

LEMMA HeldCounts ==
  ASSUME NEW queue \in Seq(Nat), NEW S, NEW place, Holds(queue, S, place)
  PROVE  IsFiniteSet(S) /\ Cardinality(S) <= Len(queue)
<1> DEFINE f == [x \in S |-> place[x]]
           n == Len(queue)
<1>1. n \in Nat /\ DOMAIN queue = 1..n
  OBVIOUS
<1>2. f \in Injection(S, 1..n)
  <2>1. f \in [S -> 1..n] /\ \A x, y \in S : f[x] = f[y] => x = y
    BY <1>1 DEF Holds
  <2> QED
    BY <2>1 DEF Injection, IsInjective
<1> HIDE DEF n
<1>3. IsFiniteSet(1..n) /\ Cardinality(1..n) = n
  BY <1>1, FS_Interval
<1> HIDE DEF f
<1> QED
  BY <1>2, <1>3, FS_Injection DEF n

LEMMA HeldRecent ==
  ASSUME NEW queue \in Seq(Nat), NEW S, NEW place, Holds(queue, S, place), NEW now \in Nat,
         \A x \in S : x.at \in Nat /\ now <= x.at + Span
  PROVE  \E moved : Holds(Recent(queue, now), S, moved)
<1> DEFINE q == Recent(queue, now)
<1>1. PICK k \in 0..Len(queue) :
        /\ q \in Seq(Nat) /\ Len(q) = Len(queue) - k
        /\ \A i \in 1..Len(queue) : i > k => q[i - k] = queue[i]
        /\ \A i \in 1..Len(queue) : now - queue[i] <= Minute => i > k
  BY FrontDropped
<1> DEFINE moved == [x \in S |-> place[x] - k]
<1>2. Len(queue) \in Nat /\ DOMAIN queue = 1..Len(queue) /\ \A i \in 1..Len(queue) : queue[i] \in Nat
  OBVIOUS
<1> HIDE DEF q
<1>3. ASSUME NEW x \in S PROVE place[x] \in 1..Len(queue) /\ place[x] > k
  <2>1. place[x] \in 1..Len(queue) /\ x.at - MaxStall <= queue[place[x]] /\ queue[place[x]] \in Nat
    BY <1>2 DEF Holds
  <2>2. x.at \in Nat /\ now <= x.at + Span
    OBVIOUS
  <2>3. now - queue[place[x]] <= Minute
    <3> DEFINE then == x.at
               t == queue[place[x]]
    <3>1. then \in Nat /\ t \in Nat /\ then - MaxStall <= t /\ now <= then + (Minute - MaxStall)
      BY <2>1, <2>2 DEF Span
    <3> HIDE DEF then, t
    <3>2. now - t <= Minute
      BY <3>1, RateAssumption
    <3> QED
      BY <3>2 DEF t
  <2> QED
    BY <1>1, <2>1, <2>3
<1>4. ASSUME NEW x \in S PROVE moved[x] \in DOMAIN q /\ x.at - MaxStall <= q[moved[x]]
  <2>1. moved[x] = place[x] - k /\ place[x] - k \in 1..(Len(queue) - k)
    BY <1>2, <1>3
  <2>2. q[place[x] - k] = queue[place[x]]
    BY <1>1, <1>3
  <2>3. DOMAIN q = 1..(Len(queue) - k)
    BY <1>1
  <2> QED
    BY <2>1, <2>2, <2>3 DEF Holds
<1>5. ASSUME NEW x \in S, NEW y \in S, moved[x] = moved[y] PROVE x = y
  <2>1. place[x] - k = place[y] - k /\ place[x] \in Int /\ place[y] \in Int
    BY <1>2, <1>3, <1>5
  <2>2. place[x] = place[y]
    BY <1>1, <2>1
  <2> QED
    BY <2>2 DEF Holds
<1> HIDE DEF moved
<1>6. Holds(q, S, moved)
  BY <1>4, <1>5 DEF Holds
<1> QED
  BY <1>6 DEF q

LEMMA HeldMore ==
  ASSUME NEW queue \in Seq(Nat), NEW S, NEW place, Holds(queue, S, place), NEW t \in Nat, NEW new, new.at - MaxStall <= t
  PROVE  \E more : Holds(Append(queue, t), S \cup {new}, more)
<1> DEFINE q == Append(queue, t)
           n == Len(queue)
           more == [x \in S \cup {new} |-> IF x = new THEN n + 1 ELSE place[x]]
<1>1. n \in Nat /\ DOMAIN queue = 1..n /\ DOMAIN q = 1..(n + 1) /\ q[n + 1] = t /\ \A i \in 1..n : q[i] = queue[i]
  OBVIOUS
<1> HIDE DEF q, n
<1>2. \A x \in S : place[x] \in 1..n /\ x.at - MaxStall <= queue[place[x]]
  BY <1>1 DEF Holds
<1>3. ASSUME NEW x \in S \cup {new} PROVE more[x] \in DOMAIN q /\ x.at - MaxStall <= q[more[x]]
  BY <1>1, <1>2
<1>4. ASSUME NEW x \in S \cup {new}, NEW y \in S \cup {new}, more[x] = more[y] PROVE x = y
  <2>1. n + 1 \notin 1..n
    BY <1>1
  <2> QED
    BY <1>2, <1>4, <2>1 DEF Holds
<1> HIDE DEF more
<1>5. Holds(q, S \cup {new}, more)
  BY <1>3, <1>4 DEF Holds
<1> QED
  BY <1>5 DEF q

LEMMA HeldFewer ==
  ASSUME NEW queue, NEW S, NEW T, T \subseteq S, NEW place, Holds(queue, S, place)
  PROVE  Holds(queue, T, place)
BY DEF Holds

LEMMA StartRate == RpcInit => RateInv
<1> SUFFICES ASSUME RpcInit PROVE RateInv
  OBVIOUS
<1>1. RateTyped
  BY FS_EmptySet DEF RpcInit, RateTyped
<1>2. QueueInv
  <2>1. \A c \in Clients : Fresh(c) = {}
    BY DEF RpcInit, Fresh, LetInOf
  <2>2. \A c \in Clients : Holds(window[c], Fresh(c), << >>)
    BY <2>1 DEF Holds
  <2> QED
    BY <2>2 DEF QueueInv
<1>3. LimitHolds
  <2>1. \A c, from : Within(c, from) = {}
    BY DEF RpcInit, Within
  <2> QED
    BY <2>1, FS_EmptySet, RateAssumption DEF LimitHolds, Within
<1> QED
  BY <1>1, <1>2, <1>3 DEF RateInv

LEMMA RequestInv ==
  ASSUME RateInv, NEW c \in Clients, NEW method, NEW token, Request(c, method, token)
  PROVE  RateInv'
<1>1. UNCHANGED <<rpcClock, window>> /\ rpcClock \in Nat
  BY DEF Request, RateInv, RateTyped
<1>2. \/ UNCHANGED <<waiting, letIn>>
      \/ Limit = 0 /\ letIn' = letIn \cup {[client |-> c, at |-> rpcClock, id |-> requests]} /\ UNCHANGED waiting
      \/ waiting' = waiting \cup {[client |-> c, now |-> rpcClock, id |-> requests]} /\ UNCHANGED letIn
  BY DEF Request
<1>3. IsFiniteSet(letIn') /\ \A x \in letIn' : x.at \in Nat /\ x.at <= rpcClock
  <2>1. IsFiniteSet(letIn) /\ \A x \in letIn : x.at \in Nat /\ x.at <= rpcClock
    BY DEF RateInv, RateTyped
  <2>2. CASE letIn' = letIn
    BY <2>1, <2>2
  <2>3. CASE letIn' = letIn \cup {[client |-> c, at |-> rpcClock, id |-> requests]}
    <3>1. IsFiniteSet(letIn')
      BY <2>1, <2>3, FS_AddElement
    <3>2. \A x \in letIn' : x \in letIn \/ x.at = rpcClock
      BY <2>3
    <3> QED
      BY <1>1, <2>1, <3>1, <3>2
  <2> QED
    BY <1>2, <2>2, <2>3
<1>4. \A r \in waiting' : r.client \in Clients /\ r.now \in Nat /\ r.now <= rpcClock /\ rpcClock - r.now <= MaxStall
  BY <1>1, <1>2, RateAssumption DEF RateInv, RateTyped
<1>5. RateTyped'
  BY <1>1, <1>3, <1>4 DEF RateInv, RateTyped
<1>6. Limit > 0 => UNCHANGED letIn
  BY <1>2
<1>7. Limit > 0 => \A d : Fresh(d)' = Fresh(d)
  BY <1>1, <1>6 DEF Fresh, LetInOf
<1>8. QueueInv'
  BY <1>1, <1>7 DEF RateInv, QueueInv
<1>9. LimitHolds'
  BY <1>1, <1>6 DEF RateInv, LimitHolds
<1> QED
  BY <1>5, <1>8, <1>9 DEF RateInv

\* If a request is let in, those let in within a minute before it, less a stall, are in its queue, and are too few.
LEMMA DecideInv ==
  ASSUME RateInv, NEW r, Decide(r)
  PROVE  RateInv'
<1> DEFINE c == r.client
           recent == Recent(window[c], r.now)
           new == [client |-> c, at |-> rpcClock, id |-> r.id]
           letin == Len(recent) < Limit
<1>1. r \in waiting /\ waiting' = waiting \ {r} /\ UNCHANGED rpcClock
  BY DEF Decide
<1>2. c \in Clients /\ r.now \in Nat /\ r.now <= rpcClock /\ rpcClock - r.now <= MaxStall /\ rpcClock \in Nat
      /\ window \in [Clients -> Seq(Nat)] /\ window[c] \in Seq(Nat)
  BY <1>1 DEF RateInv, RateTyped
<1>3. recent \in Seq(Nat) /\ Len(recent) \in Nat
  <2>1. recent \in Seq(Nat)
    BY <1>2, FrontDropped
  <2> HIDE DEF recent
  <2> QED
    BY <2>1
<1>4. /\ ~letin => window' = [window EXCEPT ![c] = recent] /\ UNCHANGED letIn
      /\ letin => window' = [window EXCEPT ![c] = Append(recent, r.now)] /\ letIn' = letIn \cup {new}
  <2>1. CASE Len(recent) >= Limit
    BY <1>3, <2>1, RateAssumption DEF Decide
  <2>2. CASE ~(Len(recent) >= Limit)
    BY <1>3, <2>2, RateAssumption DEF Decide
  <2> QED
    BY <2>1, <2>2
<1>5. new.client = c /\ new.at = rpcClock
  OBVIOUS
<1>6. \A x \in letIn : x.at \in Nat /\ x.at <= rpcClock
  BY DEF RateInv, RateTyped
<1> HIDE DEF recent, new, letin
<1>7. window' \in [Clients -> Seq(Nat)] /\ \A d \in Clients \ {c} : window'[d] = window[d]
  <2>1. Append(recent, r.now) \in Seq(Nat)
    BY <1>2, <1>3
  <2> QED
    BY <1>2, <1>3, <1>4, <2>1
<1>8. RateTyped'
  <2>1. IsFiniteSet(letIn') /\ \A x \in letIn' : x.at \in Nat /\ x.at <= rpcClock
    BY <1>2, <1>4, <1>5, FS_AddElement DEF RateInv, RateTyped
  <2> QED
    BY <1>1, <1>7, <2>1 DEF RateInv, RateTyped
<1>9. ASSUME Limit > 0 PROVE \E place : Holds(recent, Fresh(c), place)
  <2>1. PICK place : Holds(window[c], Fresh(c), place)
    BY <1>2, <1>9 DEF RateInv, QueueInv
  <2>2. \A x \in Fresh(c) : x.at \in Nat /\ r.now <= x.at + Span
    <3>1. Span \in Int
      BY RateAssumption DEF Span
    <3> QED
      BY <1>2, <1>6, <3>1 DEF Fresh, LetInOf
  <2> QED
    BY <1>2, <2>1, <2>2, HeldRecent DEF recent
<1>10. \A d \in Clients \ {c} : Fresh(d)' = Fresh(d)
  BY <1>1, <1>4, <1>5 DEF Fresh, LetInOf
<1>11. QueueInv'
  <2> SUFFICES ASSUME Limit > 0, NEW d \in Clients PROVE \E place : Holds(window'[d], Fresh(d)', place)
    BY DEF QueueInv
  <2>1. CASE d # c
    BY <1>7, <1>10, <2>1 DEF RateInv, QueueInv
  <2>2. CASE d = c /\ ~letin
    <3>1. Fresh(c)' = Fresh(c) /\ window'[c] = recent
      BY <1>1, <1>2, <1>4, <2>2 DEF Fresh, LetInOf
    <3> QED
      BY <1>9, <2>2, <3>1
  <2>3. CASE d = c /\ letin
    <3>1. Fresh(c)' \subseteq Fresh(c) \cup {new} /\ window'[c] = Append(recent, r.now)
      BY <1>1, <1>2, <1>4, <2>3 DEF Fresh, LetInOf
    <3>2. PICK place : Holds(recent, Fresh(c), place)
      BY <1>9
    <3>3. new.at - MaxStall <= r.now
      BY <1>2, <1>5, RateAssumption
    <3>4. PICK more : Holds(Append(recent, r.now), Fresh(c) \cup {new}, more)
      BY <1>2, <1>3, <3>2, <3>3, HeldMore
    <3>5. Holds(Append(recent, r.now), Fresh(c)', more)
      BY <3>1, <3>4, HeldFewer
    <3> QED
      BY <2>3, <3>1, <3>5
  <2> QED
    BY <2>1, <2>2, <2>3
<1>12. LimitHolds'
  <2> SUFFICES ASSUME Limit > 0, NEW d \in Clients, NEW from \in 0..rpcClock PROVE Cardinality(Within(d, from)') <= Limit
    BY <1>1 DEF LimitHolds, Within
  <2>1. Cardinality(Within(d, from)) <= Limit
    BY DEF RateInv, LimitHolds, Within
  <2>2. CASE d = c /\ letin /\ new.at \in from..(from + Minute - MaxStall)
    <3>1. Within(d, from)' \subseteq Fresh(c) \cup {new}
      <4> SUFFICES ASSUME NEW x \in Within(d, from)', x # new PROVE x \in Fresh(c)
        OBVIOUS
      <4>1. x \in letIn /\ x.client = c /\ x.at \in from..(from + Minute - MaxStall)
        BY <1>4, <2>2 DEF Within
      <4>2. rpcClock <= from + Minute - MaxStall /\ from <= x.at /\ x.at \in Nat
        BY <1>5, <1>6, <2>2, <4>1
      <4>3. rpcClock <= x.at + Span
        BY <1>2, <4>2, RateAssumption DEF Span
      <4> QED
        BY <4>1, <4>3 DEF Fresh, LetInOf
    <3>2. PICK place : Holds(recent, Fresh(c), place)
      BY <1>9
    <3>3. IsFiniteSet(Fresh(c)) /\ Cardinality(Fresh(c)) <= Len(recent) /\ Cardinality(Fresh(c)) \in Nat
      BY <1>3, <3>2, HeldCounts, FS_CardinalityType
    <3>4. IsFiniteSet(Fresh(c) \cup {new}) /\ Cardinality(Fresh(c) \cup {new}) <= Cardinality(Fresh(c)) + 1
          /\ Cardinality(Fresh(c) \cup {new}) \in Nat
      <4> DEFINE S == Fresh(c)
      <4>1. IsFiniteSet(S) /\ Cardinality(S) \in Nat
        BY <3>3
      <4> HIDE DEF S
      <4>2. IsFiniteSet(S \cup {new}) /\ Cardinality(S \cup {new}) = (IF new \in S THEN Cardinality(S) ELSE Cardinality(S) + 1)
        BY <4>1, FS_AddElement
      <4>3. Cardinality(S \cup {new}) <= Cardinality(S) + 1 /\ Cardinality(S \cup {new}) \in Nat
        BY <4>1, <4>2
      <4> QED
        BY <4>2, <4>3 DEF S
    <3>5. Cardinality(Within(d, from)') <= Cardinality(Fresh(c) \cup {new}) /\ Cardinality(Within(d, from)') \in Nat
      <4> DEFINE S == Within(d, from)'
                 T == Fresh(c) \cup {new}
      <4>1. S \subseteq T /\ IsFiniteSet(T)
        BY <3>1, <3>4
      <4> HIDE DEF S, T
      <4>2. IsFiniteSet(S) /\ Cardinality(S) <= Cardinality(T)
        BY <4>1, FS_Subset
      <4>3. Cardinality(S) \in Nat
        BY <4>2, FS_CardinalityType
      <4> QED
        BY <4>2, <4>3 DEF S, T
    <3>6. Len(recent) < Limit
      BY <2>2 DEF letin
    <3> HIDE DEF c
    <3> QED
      BY <1>3, <3>3, <3>4, <3>5, <3>6, RateAssumption
  <2>3. CASE ~(d = c /\ letin /\ new.at \in from..(from + Minute - MaxStall))
    <3>1. Within(d, from)' = Within(d, from)
      BY <1>4, <1>5, <2>3 DEF Within
    <3> QED
      BY <2>1, <3>1
  <2> QED
    BY <2>2, <2>3
<1> QED
  BY <1>8, <1>11, <1>12 DEF RateInv

LEMMA SecondInv ==
  ASSUME RateInv, Second
  PROVE  RateInv'
<1>1. rpcClock' = rpcClock + 1 /\ (\A r \in waiting : rpcClock - r.now < MaxStall) /\ UNCHANGED <<window, waiting, letIn>>
  BY DEF Second
<1>2. rpcClock \in Nat /\ \A x \in letIn : x.at \in Nat /\ x.at <= rpcClock
  BY DEF RateInv, RateTyped
<1>3. RateTyped'
  <2>1. \A r \in waiting : r.client \in Clients /\ r.now \in Nat /\ r.now <= rpcClock' /\ rpcClock' - r.now <= MaxStall
    BY <1>1, <1>2, RateAssumption DEF RateInv, RateTyped
  <2>2. \A x \in letIn : x.at \in Nat /\ x.at <= rpcClock'
    BY <1>1, <1>2
  <2> QED
    BY <1>1, <1>2, <2>1, <2>2 DEF RateInv, RateTyped
<1>4. \A c : Fresh(c)' \subseteq Fresh(c)
  <2>1. \A x \in letIn : rpcClock' <= x.at + Span => rpcClock <= x.at + Span
    BY <1>1, <1>2, RateAssumption DEF Span
  <2> QED
    BY <1>1, <2>1 DEF Fresh, LetInOf
<1>5. QueueInv'
  <2> SUFFICES ASSUME Limit > 0, NEW c \in Clients PROVE \E place : Holds(window'[c], Fresh(c)', place)
    BY DEF QueueInv
  <2>1. PICK place : Holds(window[c], Fresh(c), place)
    BY DEF RateInv, QueueInv
  <2>2. Holds(window[c], Fresh(c)', place)
    BY <1>4, <2>1, HeldFewer
  <2> QED
    BY <1>1, <2>2
<1>6. LimitHolds'
  <2> SUFFICES ASSUME Limit > 0, NEW c \in Clients, NEW from \in 0..rpcClock' PROVE Cardinality(Within(c, from)') <= Limit
    BY DEF LimitHolds, Within
  <2>1. Within(c, from)' = Within(c, from)
    BY <1>1 DEF Within
  <2>2. CASE from \in 0..rpcClock
    <3>1. Cardinality(Within(c, from)) <= Limit
      BY <2>2 DEF RateInv, LimitHolds, Within
    <3> QED
      BY <2>1, <3>1
  <2>3. CASE from = rpcClock + 1
    <3>1. Within(c, from) = {}
      BY <1>2, <2>3, RateAssumption DEF Within
    <3> QED
      BY <2>1, <3>1, FS_EmptySet, RateAssumption
  <2> QED
    BY <1>1, <1>2, <2>2, <2>3
<1> QED
  BY <1>3, <1>5, <1>6 DEF RateInv

LEMMA RateStep == RateInv /\ [RpcNext]_rpcVars => RateInv'
<1> SUFFICES ASSUME RateInv, [RpcNext]_rpcVars PROVE RateInv'
  OBVIOUS
<1>1. ASSUME NEW c \in Clients, NEW method, NEW token, Request(c, method, token) PROVE RateInv'
  BY <1>1, RequestInv
<1>2. ASSUME NEW r, Decide(r) PROVE RateInv'
  BY <1>2, DecideInv
<1>3. ASSUME UNCHANGED rpcVars PROVE RateInv'
  <2>1. UNCHANGED <<rpcClock, window, waiting, letIn>>
    BY <1>3 DEF rpcVars
  <2>2. RateTyped' /\ LimitHolds'
    BY <2>1 DEF RateInv, RateTyped, LimitHolds
  <2>3. QueueInv'
    BY <2>1 DEF RateInv, QueueInv, Fresh, LetInOf
  <2> QED
    BY <2>2, <2>3 DEF RateInv
<1> QED
  BY <1>1, <1>2, <1>3, SecondInv, Zenon DEF RpcNext

(* Of one client no more than Limit requests are let in within any stretch  *)
(* of a minute, less what a request may wait for the lock.                  *)
THEOREM LimitIsKept == RpcSpec => []LimitHolds
<1>1. RpcInit => RateInv
  BY StartRate
<1>2. RateInv /\ [RpcNext]_rpcVars => RateInv'
  BY RateStep
<1>3. RateInv => LimitHolds
  BY DEF RateInv
<1> QED
  BY <1>1, <1>2, <1>3, PTL DEF RpcSpec
=============================================================================
