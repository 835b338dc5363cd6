--------------------------- MODULE ComputeService ---------------------------
(***************************************************************************)
(* The way of a submission from zero_submit_compute_tx (zeroapi rpc)       *)
(* through ComputeExecutionService and InMemoryComputeScheduler (zerocore  *)
(* compute) to its answer.                                                 *)
(*                                                                         *)
(* Each submission is served by a task of its own.  It queues its          *)
(* transaction, sleeps for the batch window, then drains the whole queue,  *)
(* other submissions' transactions too, runs what it drained, and looks    *)
(* for its own outcome among the completed ones.  Nothing keeps two tasks  *)
(* from doing so at once.                                                  *)
(*                                                                         *)
(* An execution is one step here, and a chunk runs in any order; what is   *)
(* inside an execution is MemoryStore's, the order of a chunk              *)
(* BatchRunner's.                                                          *)
(***************************************************************************)
EXTENDS Naturals, FiniteSets, SequencesExt

CONSTANTS
  Submissions,    \* calls of zero_submit_compute_tx
  TxOf,           \* the id of the transaction each one carries
  Takes, Makes,   \* the outputs a transaction consumes and creates
  LaneOf,         \* lane_key() of a transaction
  LaneKeys,       \* the lane keys in their order
  Stored0,        \* outputs stored at the start
  Window,         \* batch_window_ms, in ticks
  Configs,        \* how the node may be set up
  MaxPending,
  MaxCompleted,   \* MAX_COMPLETED_OUTCOMES
  MaxResults,     \* MAX_SUBMITTED_COMPUTE_RESULTS
  MaxCrashes      \* bound on crashes

ASSUME ServiceAssumption ==
  /\ Window \in Nat /\ MaxCrashes \in Nat
  /\ {MaxPending, MaxCompleted, MaxResults} \subseteq Nat \ {0}
  /\ Configs \subseteq [serial : BOOLEAN, durable : BOOLEAN, batchSize : Nat \ {0}]
  /\ LaneKeys \in Seq(ToSet(LaneKeys)) /\ IsInjective(LaneKeys)
  /\ \A s \in Submissions : LaneOf[TxOf[s]] \in ToSet(LaneKeys)

VARIABLES
  config,     \* serial: the fallback is SerialOnFailure, else Disabled; durable: there
              \* is a persistent compute store; batchSize: max_batch_size
  stored, spent,
  lanes,      \* the scheduler's queue: lane -> submissions
  phase,      \* how far a submission's task is
  age,        \* ticks since the submission was queued, Window at most
  rest,       \* what its flush drained and has not planned yet
  hand,       \* what its flush is running
  outcomes,   \* the outcomes of what its flush is running
  completed,  \* the service's completed outcomes, oldest first
  persisted,  \* transactions whose result is on disk
  results,    \* submitted_compute_results, oldest first
  answer,     \* what the caller was told
  ran,        \* history: submissions whose transaction a flush has run
  crashes

store     == <<stored, spent>>
flushVars == <<rest, hand, outcomes>>
answered  == <<persisted, results, answer>>
svcVars   == <<config, store, lanes, phase, age, flushVars, completed, answered, ran, crashes>>

Txs == {TxOf[s] : s \in Submissions}
Phases == {"idle", "queue", "sleep", "flush", "run", "look", "alone", "note", "persist", "cache", "over"}
Answers == {"none", "accepted", "duplicate", "refused", "error"}

ServiceInit ==
  /\ config \in Configs
  /\ stored = Stored0 /\ spent = {}
  /\ lanes = [l \in ToSet(LaneKeys) |-> << >>]
  /\ phase = [s \in Submissions |-> "idle"]
  /\ age = [s \in Submissions |-> 0]
  /\ rest = [s \in Submissions |-> << >>]
  /\ hand = [s \in Submissions |-> {}]
  /\ outcomes = [s \in Submissions |-> << >>]
  /\ completed = << >> /\ persisted = {} /\ results = << >>
  /\ answer = [s \in Submissions |-> "none"]
  /\ ran = {} /\ crashes = 0

GoTo(s, p) == phase' = [phase EXCEPT ![s] = p]
Answer(s, a) == GoTo(s, "over") /\ answer' = [answer EXCEPT ![s] = a]

-----------------------------------------------------------------------------
(* The front: is there a result already? *)

\* Bugs the look-up could have: it asks the memory alone.
KnownInMemory(tx) == tx \in ToSet(results)
Known(tx) == (config.durable /\ tx \in persisted) \/ tx \in ToSet(results)

Receive(s) ==
  /\ phase[s] = "idle"
  /\ \/ Known(TxOf[s]) /\ Answer(s, "duplicate")
     \/ ~Known(TxOf[s]) /\ GoTo(s, "queue") /\ UNCHANGED answer
  /\ UNCHANGED <<config, store, lanes, age, flushVars, completed, persisted, results, ran, crashes>>

-----------------------------------------------------------------------------
(* The scheduler *)

Pending == SumFunction([l \in DOMAIN lanes |-> Len(lanes[l])])

Queue(s) ==
  /\ phase[s] = "queue"
  /\ \/ /\ Pending < MaxPending
        /\ lanes' = [lanes EXCEPT ![LaneOf[TxOf[s]]] = Append(@, s)]
        /\ GoTo(s, "sleep") /\ UNCHANGED answer
     \/ /\ Pending >= MaxPending /\ UNCHANGED lanes
        /\ IF config.serial THEN GoTo(s, "alone") /\ UNCHANGED answer ELSE Answer(s, "error")
  /\ UNCHANGED <<config, store, age, flushVars, completed, persisted, results, ran, crashes>>

Queued == UNION {ToSet(lanes[l]) : l \in DOMAIN lanes}
Waiting(s) == phase[s] = "sleep" \/ s \in Queued

\* Time passes for who sleeps and for what is queued.
Elapse ==
  /\ \E s \in Submissions : Waiting(s) /\ age[s] < Window
  /\ age' = [s \in Submissions |-> IF Waiting(s) /\ age[s] < Window THEN age[s] + 1 ELSE age[s]]
  /\ UNCHANGED <<config, store, lanes, phase, flushVars, completed, answered, ran, crashes>>

\* A bug the drain could have: an item of exactly the window's age stays.
AgedBeyond(s) == age[s] > Window
Aged(s) == age[s] >= Window

\* How many items of a lane are ready, up to the first that is not.
Ripe(q) == CHOOSE n \in 0..Len(q) : /\ \A i \in 1..n : Aged(q[i])
                                    /\ n < Len(q) => ~Aged(q[n + 1])

\* The sleep is over and drain_ready() empties the lanes as far as they are ripe.
Drain(s) ==
  /\ phase[s] = "sleep" /\ age[s] >= Window
  /\ rest' = [rest EXCEPT ![s] =
       FlattenSeq([i \in DOMAIN LaneKeys |-> LET q == lanes[LaneKeys[i]] IN SubSeq(q, 1, Ripe(q))])]
  /\ lanes' = [l \in DOMAIN lanes |-> SubSeq(lanes[l], Ripe(lanes[l]) + 1, Len(lanes[l]))]
  /\ GoTo(s, "flush")
  /\ UNCHANGED <<config, store, age, hand, outcomes, completed, answered, ran, crashes>>

\* The caller hangs up: its task ends at the only await there is, in its sleep.
HangUp(s) ==
  /\ phase[s] = "sleep" /\ Window > 0 /\ GoTo(s, "over")
  /\ UNCHANGED <<config, store, lanes, age, flushVars, completed, answered, ran, crashes>>

-----------------------------------------------------------------------------
(* The flush *)

ChunkLen(q) == IF Len(q) < config.batchSize THEN Len(q) ELSE config.batchSize

\* A bug the chunking could have: a transaction is left out between two chunks.
AfterNextChunk(q) == SubSeq(q, ChunkLen(q) + 2, Len(q))
AfterChunk(q) == SubSeq(q, ChunkLen(q) + 1, Len(q))

\* plan() finds every output it has to look up.
Plannable(items) == \A s \in items : Takes[TxOf[s]] \subseteq stored

TakeChunk(s) ==
  /\ phase[s] = "flush"
  /\ LET chunk == ToSet(SubSeq(rest[s], 1, ChunkLen(rest[s])))
     IN  \/ /\ chunk = {} /\ GoTo(s, "look") /\ UNCHANGED <<rest, hand, answer>>
         \/ /\ chunk # {} /\ (config.serial \/ Plannable(chunk))
            /\ hand' = [hand EXCEPT ![s] = chunk]
            /\ rest' = [rest EXCEPT ![s] = AfterChunk(@)]
            /\ GoTo(s, "run") /\ UNCHANGED answer
         \/ /\ ~config.serial /\ ~Plannable(chunk)   \* what was drained is dropped
            /\ rest' = [rest EXCEPT ![s] = << >>]
            /\ Answer(s, "error") /\ UNCHANGED hand
  /\ UNCHANGED <<config, store, lanes, age, outcomes, completed, persisted, results, ran, crashes>>

Executable(tx) == Takes[tx] \subseteq stored \ spent /\ Makes[tx] \cap stored = {}

Execute(tx) ==
  IF Executable(tx)
  THEN stored' = stored \cup Makes[tx] /\ spent' = spent \cup Takes[tx]
  ELSE UNCHANGED store

Outcome(tx) == [tx |-> tx, accepted |-> Executable(tx)]

RunItem(s, i) ==
  /\ phase[s] = "run" /\ i \in hand[s]
  /\ Execute(TxOf[i])
  /\ outcomes' = [outcomes EXCEPT ![s] = Append(@, Outcome(TxOf[i]))]
  /\ hand' = [hand EXCEPT ![s] = @ \ {i}]
  /\ ran' = ran \cup {i}
  /\ UNCHANGED <<config, lanes, phase, age, rest, completed, answered, crashes>>

\* One outcome per transaction is remembered, and the newest n entries of a list.
Remember(list, o) == Append(RemoveFirstMatch(list, LAMBDA x : x.tx = o.tx), o)
Newest(list, n) == SubSeq(list, IF Len(list) > n THEN Len(list) - n + 1 ELSE 1, Len(list))

\* The completed outcomes after record_outcomes(outs).
Recorded(outs) == Newest(FoldLeft(Remember, completed, outs), MaxCompleted)

RecordChunk(s) ==
  /\ phase[s] = "run" /\ hand[s] = {}
  /\ completed' = Recorded(outcomes[s])
  /\ outcomes' = [outcomes EXCEPT ![s] = << >>]
  /\ GoTo(s, "flush")
  /\ UNCHANGED <<config, store, lanes, age, rest, hand, answered, ran, crashes>>

-----------------------------------------------------------------------------
(* Its own outcome *)

\* A bug the look-up could have: it takes the outcome recorded last.
FoundLast(s) == IF completed = << >> THEN {} ELSE {Last(completed)}
Found(s) == {o \in ToSet(completed) : o.tx = TxOf[s]}

Conclude(s, o) ==
  IF o.accepted THEN GoTo(s, IF config.durable THEN "persist" ELSE "cache") /\ UNCHANGED answer
                ELSE Answer(s, "refused")

\* A bug it could have: it waits for an outcome that is not there.
LookAndWait(s) ==
  /\ phase[s] = "look"
  /\ \E o \in Found(s) : Conclude(s, o)
  /\ UNCHANGED <<config, store, lanes, age, flushVars, completed, persisted, results, ran, crashes>>

Look(s) ==
  /\ phase[s] = "look"
  /\ \/ \E o \in Found(s) : Conclude(s, o)
     \/ /\ Found(s) = {}
        /\ IF config.serial THEN GoTo(s, "alone") /\ UNCHANGED answer ELSE Answer(s, "error")
  /\ UNCHANGED <<config, store, lanes, age, flushVars, completed, persisted, results, ran, crashes>>

\* run_serial() beside the queue, then record_outcomes().
RunAlone(s) ==
  /\ phase[s] = "alone"
  /\ Execute(TxOf[s])
  /\ outcomes' = [outcomes EXCEPT ![s] = <<Outcome(TxOf[s])>>]
  /\ GoTo(s, "note")
  /\ UNCHANGED <<config, lanes, age, rest, hand, completed, answered, ran, crashes>>

NoteAlone(s) ==
  /\ phase[s] = "note"
  /\ completed' = Recorded(outcomes[s])
  /\ outcomes' = [outcomes EXCEPT ![s] = << >>]
  /\ Conclude(s, outcomes[s][1])
  /\ UNCHANGED <<config, store, lanes, age, rest, hand, persisted, results, ran, crashes>>

Persist(s) ==
  /\ phase[s] = "persist"
  /\ persisted' = persisted \cup {TxOf[s]}
  /\ GoTo(s, "cache")
  /\ UNCHANGED <<config, store, lanes, age, flushVars, completed, results, answer, ran, crashes>>

Cache(s) ==
  /\ phase[s] = "cache"
  /\ results' = Newest(Append(RemoveFirst(results, TxOf[s]), TxOf[s]), MaxResults)
  /\ Answer(s, "accepted")
  /\ UNCHANGED <<config, store, lanes, age, flushVars, completed, persisted, ran, crashes>>

-----------------------------------------------------------------------------
UnderWay(s) == phase[s] \notin {"idle", "over"}

\* The node stops and starts again: what was in memory is gone; the objects are in
\* the persistent store, if there is one.
Crash ==
  /\ crashes < MaxCrashes /\ config.durable
  /\ crashes' = crashes + 1
  /\ phase' = [s \in Submissions |-> IF UnderWay(s) THEN "over" ELSE phase[s]]
  /\ lanes' = [l \in DOMAIN lanes |-> << >>]
  /\ rest' = [s \in Submissions |-> << >>]
  /\ hand' = [s \in Submissions |-> {}]
  /\ outcomes' = [s \in Submissions |-> << >>]
  /\ completed' = << >> /\ results' = << >>
  /\ UNCHANGED <<config, store, age, persisted, answer, ran>>

Flush(s) == Drain(s) \/ TakeChunk(s) \/ (\E i \in Submissions : RunItem(s, i)) \/ RecordChunk(s)
Settle(s) == Look(s) \/ RunAlone(s) \/ NoteAlone(s) \/ Persist(s) \/ Cache(s)
Serve(s) == Queue(s) \/ Flush(s) \/ Settle(s)

ServiceNext ==
  \/ \E s \in Submissions : Receive(s) \/ Serve(s) \/ HangUp(s)
  \/ Elapse
  \/ Crash

\* The runtime goes on with every task, and time goes on.
ServiceFairness == (\A s \in Submissions : WF_svcVars(Serve(s))) /\ WF_svcVars(Elapse)
ServiceSpec == ServiceInit /\ [][ServiceNext]_svcVars /\ ServiceFairness

-----------------------------------------------------------------------------
(* Properties *)

ServiceTypeOK ==
  /\ spent \subseteq stored
  /\ phase \in [Submissions -> Phases] /\ answer \in [Submissions -> Answers]
  /\ age \in [Submissions -> 0..Window]
  /\ Pending <= MaxPending
  /\ \A s \in Submissions : ToSet(rest[s]) \cup hand[s] \subseteq Submissions
  /\ Len(completed) <= MaxCompleted /\ Len(results) <= MaxResults
  /\ persisted \subseteq Txs

\* Who looks for its outcome has nothing in the queue any more: its own flush, or
\* another that got there first, has taken it along.
OwnItemTaken ==
  \A s \in Submissions : phase[s] \in {"flush", "run", "look"} => s \notin Queued

\* A queued transaction is in one place: in the queue, with one flush, or run.  Two
\* flushes never drain the same item, and with the serial fallback none loses one.
Hands(s) == {f \in Submissions : s \in ToSet(rest[f]) \cup hand[f]}
HandedOnce ==
  \A s \in Submissions :
    /\ Cardinality(Hands(s)) <= 1
    /\ Hands(s) # {} => s \notin Queued \cup ran
    /\ config.serial /\ crashes = 0 /\ phase[s] \in {"sleep", "flush", "run", "look"}
         => s \in Queued \cup ran \/ Hands(s) # {}

\* Who is told that a transaction was accepted, now or before, can rely on it,
\* although the outcome may be another submission's.
AcceptedIsTrue ==
  \A s \in Submissions : answer[s] \in {"accepted", "duplicate"} => Makes[TxOf[s]] \subseteq stored

\* With a persistent store, an answer once given is given again to whoever sends the
\* transaction again, also after a restart or when the caches have moved on.
StableAnswer ==
  [][\A s \in Submissions :
       /\ config.durable /\ phase[s] = "idle" /\ phase'[s] # "idle"
       /\ \E c \in Submissions : TxOf[c] = TxOf[s] /\ answer[c] \in {"accepted", "duplicate"}
       => answer'[s] = "duplicate"]_svcVars

\* Every submission is answered in the end, unless its caller hung up or the node
\* went down, however many flushes run at once and whatever they took along.
EveryoneIsAnswered == \A s \in Submissions : UnderWay(s) ~> ~UnderWay(s)

=============================================================================
