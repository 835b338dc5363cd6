----------------------------- MODULE MiningRpc -----------------------------
(***************************************************************************)
(* Mining and block import over the block cache: zero_getWork,             *)
(* zero_submitWork, zero_importBlock and zero_getBlockByNumber as threads  *)
(* of the RPC server, beside the sync task that stores and replaces blocks.*)
(*                                                                         *)
(* The lock of latest_block is explicit: a writer announces itself, which  *)
(* stops new readers (also a thread that reads already), and gets the lock *)
(* when the last reader has left.                                          *)
(***************************************************************************)
EXTENDS BlockCache

CONSTANTS
  Miners, Importers, Readers, Syncers,   \* the threads, by what they call
  Nonces, Mined,     \* Mined[p, n]: the block made of nonce n after p
  Chains,            \* suffixes peers send
  MaxJobs, MaxJobAge, MaxSeen, MaxHistory,
  Reward,
  MaxClock, MaxCalls,   \* bounds of the instance
  None

ASSUME MiningAssumption ==
  /\ Threads = Miners \cup Importers \cup Readers \cup Syncers
  /\ IsFiniteSet(Threads) /\ Miners \cap (Importers \cup Readers \cup Syncers) = {}
  /\ {MaxJobs, MaxJobAge, MaxSeen, MaxHistory, Reward, MaxClock, MaxCalls} \subseteq Nat
  /\ None \notin Blocks \cup {Root} \cup Threads

VARIABLES
  latest, history,        \* latest_block and block_history of the RPC
  writer, readers,        \* who has announced a write of latest_block, who reads it
  jobs, jobOrder,         \* mining_jobs, mining_job_order
  seen, seenOrder,        \* mining_seen_submissions and its order
  share,                  \* the share each miner's thread is handling
  balance, base,          \* the coinbase's account, and what a thread has read of it
  accepted,               \* history: the shares paid for and their blocks
  clock, sent             \* seconds; calls made

store == <<cacheVars, journal>>
heads == <<latest, history>>
lock == <<writer, readers>>
work == <<jobs, jobOrder, seen, seenOrder, share>>
books == <<jobs, jobOrder, seen, seenOrder>>
money == <<balance, base, accepted>>
counts == <<clock, sent>>
miningVars == <<store, at, todo, heads, lock, work, money, counts>>

Init ==
  /\ CacheInit
  /\ at = [t \in Threads |-> "idle"]
  /\ todo = [t \in Threads |-> << >>]
  /\ latest = None /\ history = << >>
  /\ writer = None /\ readers = {}
  /\ jobs = << >> /\ jobOrder = << >>
  /\ seen = {} /\ seenOrder = << >>
  /\ share = [t \in Miners |-> None]
  /\ balance = 0 /\ base = [t \in Miners |-> 0]
  /\ accepted = << >>
  /\ clock = 0 /\ sent = 0

HeightOf(b) == IF b \in {Root, None} THEN 0 ELSE Number[b]
NewestCached == IF DOMAIN blocks = {} THEN None ELSE blocks[Max(DOMAIN blocks)]

\* current_head_block: of the two heads the higher one, the shared one when they tie.
CurrentHead ==
  CASE latest = None /\ NewestCached = None -> Root
    [] latest = None -> NewestCached
    [] NewestCached = None -> latest
    [] OTHER -> IF HeightOf(NewestCached) >= HeightOf(latest) THEN NewestCached ELSE latest

MayRead == writer = None

\* Back to idle, as every refused or finished call.
Answer(t) == Goto(t, "idle") /\ todo' = [todo EXCEPT ![t] = << >>]
AnswerMiner(t) == Answer(t) /\ share' = [share EXCEPT ![t] = None]

(***************************************************************************)
(* zero_getWork: jobs over age leave at the front, the new one comes in,   *)
(* surplus leaves.  Its id is the height and the second.                   *)
(***************************************************************************)
Expired(id) == id \notin DOMAIN jobs \/ clock - jobs[id].created > MaxJobAge
FreshOrder ==
  LET live == {i \in DOMAIN jobOrder : ~Expired(jobOrder[i])}
  IN  IF live = {} THEN << >> ELSE SubSeq(jobOrder, Min(live), Len(jobOrder))
Surplus(order) == SubSeq(order, 1, Len(order) - MaxJobs)
WorkId == <<HeightOf(CurrentHead) + 1, clock>>

GetWork ==
  LET order == Append(FreshOrder, WorkId)
      dropped == Range(SubSeq(jobOrder, 1, Len(jobOrder) - Len(FreshOrder)))
      job == [height |-> HeightOf(CurrentHead) + 1, prev |-> CurrentHead, created |-> clock]
      held == (DOMAIN jobs \ dropped) \cup {WorkId}
  IN  /\ MayRead /\ sent < MaxCalls
      /\ \E n \in Nonces : <<CurrentHead, n>> \in DOMAIN Mined   \* bound of the instance
      /\ jobs' = [i \in held \ Range(Surplus(order)) |-> IF i = WorkId THEN job ELSE jobs[i]]
      /\ jobOrder' = SubSeq(order, Len(Surplus(order)) + 1, Len(order))
      /\ UNCHANGED <<store, at, todo, heads, lock, seen, seenOrder, share, money, counts>>

(***************************************************************************)
(* zero_submitWork by a miner's thread t: the job is read, the share noted,*)
(* the job consumed, the head compared, the block stored and published,    *)
(* the reward credited.  Between any two steps others may run.             *)
(***************************************************************************)
Submit(t) ==
  /\ at[t] = "idle" /\ sent < MaxCalls
  /\ \E id \in DOMAIN jobs, n \in Nonces :
       share' = [share EXCEPT ![t] = [id |-> id, nonce |-> n, height |-> jobs[id].height, prev |-> jobs[id].prev]]
  /\ sent' = sent + 1
  /\ Goto(t, "remember")
  /\ UNCHANGED <<store, todo, heads, lock, jobs, jobOrder, seen, seenOrder, money, clock>>

Key(t) == <<share[t].id, share[t].nonce>>
AnyShare(t) == Key(t) = Key(t)
NewShare(t) == Key(t) \notin seen

Remember(t) ==
  /\ at[t] = "remember"
  /\ LET order == Append(seenOrder, Key(t))
         stale == IF Len(order) > MaxSeen THEN 1 ELSE 0
     IN  IF ~NewShare(t) THEN AnswerMiner(t) /\ UNCHANGED <<seen, seenOrder>>
         ELSE /\ seenOrder' = SubSeq(order, 1 + stale, Len(order))
              /\ seen' = (seen \cup {Key(t)}) \ Range(SubSeq(order, 1, stale))
              /\ Goto(t, "take") /\ UNCHANGED <<todo, share>>
  /\ UNCHANGED <<store, heads, lock, jobs, jobOrder, money, counts>>

\* The job is consumed, whatever becomes of the block.
Take(t) ==
  /\ at[t] = "take"
  /\ jobs' = Restrict(jobs, DOMAIN jobs \ {share[t].id})
  /\ Goto(t, IF share[t].id \in DOMAIN jobs THEN "retain" ELSE "gone")
  /\ UNCHANGED <<store, todo, heads, lock, jobOrder, seen, seenOrder, share, money, counts>>

Retain(t) ==
  /\ at[t] \in {"retain", "gone"}
  /\ jobOrder' = SelectSeq(jobOrder, LAMBDA id : id # share[t].id)
  /\ IF at[t] = "gone" THEN AnswerMiner(t) ELSE Goto(t, "head") /\ UNCHANGED <<todo, share>>
  /\ UNCHANGED <<store, heads, lock, jobs, seen, seenOrder, money, counts>>

OnHead(t) == share[t].height = HeightOf(CurrentHead) + 1 /\ share[t].prev = CurrentHead

BuildBlock(t) ==
  /\ at[t] = "head" /\ MayRead
  /\ IF OnHead(t) THEN CallStore(t, Mined[share[t].prev, share[t].nonce]) /\ UNCHANGED share
     ELSE AnswerMiner(t)
  /\ UNCHANGED <<store, heads, lock, books, money, counts>>

\* store_block, after the shared cache: the RPC's own history.
HistoryWith(b) ==
  LET heights == DOMAIN history \cup {Number[b]}
      kept == {h \in heights : Cardinality({g \in heights : g > h}) < MaxHistory}
  IN  [h \in kept |-> IF h = Number[b] THEN b ELSE history[h]]

KeepMined(t) ==
  /\ at[t] = "stored"
  /\ history' = HistoryWith(Head(todo[t]))
  /\ Goto(t, "announce")
  /\ UNCHANGED <<store, todo, latest, lock, work, money, counts>>

Announce(t) ==
  /\ at[t] = "announce" /\ writer = None
  /\ writer' = t
  /\ Goto(t, "exclusive")
  /\ UNCHANGED <<store, todo, heads, readers, work, money, counts>>

SetLatest(t) ==
  /\ at[t] = "exclusive" /\ readers = {}
  /\ latest' = Head(todo[t])
  /\ writer' = None
  /\ Goto(t, "reward")
  /\ UNCHANGED <<store, todo, history, readers, work, money, counts>>

\* credit_block_reward: the account is read, then written.
ReadAccount(t) ==
  /\ at[t] = "reward"
  /\ base' = [base EXCEPT ![t] = balance]
  /\ Goto(t, "credit")
  /\ UNCHANGED <<store, todo, heads, lock, work, balance, accepted, counts>>

Credit(t) ==
  /\ at[t] = "credit"
  /\ balance' = base[t] + Reward
  /\ accepted' = Append(accepted, [share |-> Key(t), block |-> Head(todo[t])])
  /\ base' = [base EXCEPT ![t] = 0]
  /\ AnswerMiner(t)
  /\ UNCHANGED <<store, heads, lock, books, counts>>

RefusedPaid(t) ==
  /\ at[t] = "refused"
  /\ Goto(t, "reward")
  /\ UNCHANGED <<store, todo, heads, lock, work, money, counts>>

RefuseMined(t) ==
  /\ at[t] = "refused"
  /\ AnswerMiner(t)
  /\ UNCHANGED <<store, heads, lock, books, money, counts>>

MinerStep(t) ==
  \/ Remember(t) \/ Take(t) \/ Retain(t) \/ BuildBlock(t) \/ KeepMined(t) \/ Announce(t)
  \/ SetLatest(t) \/ ReadAccount(t) \/ Credit(t) \/ RefuseMined(t)

(***************************************************************************)
(* zero_importBlock: the head is compared first; the write lock of         *)
(* latest_block is then held from before store_block to the end.           *)
(***************************************************************************)
Import(t) ==
  /\ at[t] = "idle" /\ MayRead /\ sent < MaxCalls
  /\ sent' = sent + 1
  /\ \E b \in Sound :
       /\ Number[b] = HeightOf(CurrentHead) + 1 /\ Parent[b] = CurrentHead
       /\ todo' = [todo EXCEPT ![t] = <<b>>]
  /\ Goto(t, "announce")
  /\ UNCHANGED <<store, heads, lock, work, money, clock>>

ImportStore(t) ==
  /\ at[t] = "exclusive" /\ readers = {}
  /\ CallStore(t, Head(todo[t]))
  /\ UNCHANGED <<store, heads, lock, work, money, counts>>

FinishImport(t) ==
  /\ at[t] \in {"stored", "refused"}
  /\ IF at[t] = "refused" THEN UNCHANGED heads
     ELSE /\ history' = HistoryWith(Head(todo[t]))
          /\ latest' = Head(todo[t])
  /\ writer' = None
  /\ Answer(t)
  /\ UNCHANGED <<store, readers, work, money, counts>>

ImporterStep(t) == Announce(t) \/ ImportStore(t) \/ FinishImport(t)

(***************************************************************************)
(* zero_getBlockByNumber for a height neither map holds: latest_block is   *)
(* read, and read once more inside current_head_block, before the first    *)
(* read is over.                                                           *)
(***************************************************************************)
AskMissing(t) ==
  /\ at[t] = "idle" /\ MayRead /\ sent < MaxCalls
  /\ sent' = sent + 1
  /\ \E h \in {Number[b] : b \in Blocks} : h \notin DOMAIN history \cup DOMAIN blocks /\ h # HeightOf(latest)
  /\ readers' = readers \cup {t}
  /\ Goto(t, "again")
  /\ UNCHANGED <<store, todo, heads, writer, work, money, clock>>

ReadAgain(t) ==
  /\ at[t] = "again" /\ MayRead
  /\ readers' = readers \ {t}
  /\ Answer(t)
  /\ UNCHANGED <<store, heads, writer, work, money, counts>>

(***************************************************************************)
(* The sync task: single blocks, and chains that replace the cache's tail. *)
(***************************************************************************)
SyncCall(t) ==
  /\ at[t] = "idle" /\ sent < MaxCalls
  /\ sent' = sent + 1
  /\ (\E b \in Blocks : CallStore(t, b)) \/ \E chain \in Chains : CallReplace(t, chain)
  /\ UNCHANGED <<store, heads, lock, work, money, clock>>

FinishSync(t) ==
  /\ at[t] \in {"stored", "refused"}
  /\ Answer(t)
  /\ UNCHANGED <<store, heads, lock, work, money, counts>>

Tick ==
  /\ clock < MaxClock
  /\ clock' = clock + 1
  /\ UNCHANGED <<store, at, todo, heads, lock, work, money, sent>>

Store(t) == StoreStep(t) /\ UNCHANGED <<heads, lock, work, money, counts>>

Next ==
  \/ GetWork \/ Tick
  \/ \E t \in Threads : Store(t)
  \/ \E t \in Miners : Submit(t) \/ MinerStep(t)
  \/ \E t \in Importers : Import(t) \/ ImporterStep(t)
  \/ \E t \in Readers : AskMissing(t) \/ ReadAgain(t)
  \/ \E t \in Syncers : SyncCall(t) \/ FinishSync(t)

\* Threads run; the lock is handed over fairly, so that nobody who can get it for
\* ever and again is passed over for ever.
Fairness ==
  /\ \A t \in Threads : WF_miningVars(Store(t))
  /\ \A t \in Miners : SF_miningVars(MinerStep(t))
  /\ \A t \in Importers : SF_miningVars(ImporterStep(t))
  /\ \A t \in Readers : SF_miningVars(ReadAgain(t))
  /\ \A t \in Syncers : WF_miningVars(FinishSync(t))

MiningSpec == Init /\ [][Next]_miningVars /\ Fairness
-----------------------------------------------------------------------------
(* Whatever miners, imports and the sync task do at once, each block of     *)
(* the cache, of the RPC's history and the head itself has a line of valid  *)
(* blocks behind it down to the root, all of them once in the cache.        *)
Grounded ==
  /\ Range(blocks) \cup Range(history) \cup ({latest} \ {None}) \subseteq ever
  /\ \A b \in ever : b \in Sound /\ Parent[b] \in ever \cup {Root}

(* No share is paid for twice, though work ids repeat within a second and   *)
(* a job may be read by many before one consumes it.                        *)
NoShareTwice == \A i, j \in DOMAIN accepted : accepted[i].share = accepted[j].share => i = j

(* Rewards can be lost (two miners read one balance) but never made up: the *)
(* coinbase holds at most one reward for every share paid, and the block of *)
(* every one of them was in the cache, although the head it was built on    *)
(* may have been replaced between the check of the head and the store.      *)
NoRewardInvented ==
  /\ balance <= Reward * Len(accepted)
  /\ \A i \in DOMAIN accepted : accepted[i].block \in ever

(* Every call of a miner, importer, reader or the sync task gets its        *)
(* answer: no two of them wait for each other on latest_block for ever.     *)
EveryCallAnswered == \A t \in Threads : at[t] # "idle" ~> at[t] = "idle"
=============================================================================
