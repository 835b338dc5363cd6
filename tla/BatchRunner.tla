----------------------------- MODULE BatchRunner -----------------------------
(***************************************************************************)
(* ComputeExecutionService::flush_ready after the queue was drained:       *)
(* chunk by chunk, DefaultComputeBatchPlanner::plan and                    *)
(* ParallelComputeBatchRunner::run_plan (zerocore/src/compute/batch.rs).   *)
(*                                                                         *)
(* A flush plans the items of its chunk one at a time, each against the    *)
(* store as it is then; runs the groups one after another, the runs of a   *)
(* group on threads of their own; then the items it could not plan, one by *)
(* one.  Every run has an executor of its own, hence an empty replay       *)
(* registry.                                                               *)
(***************************************************************************)
EXTENDS MemoryStore, BatchPlanner

CONSTANTS
  Flushes,       \* tasks that call flush_ready()
  Queues,        \* what they can drain: functions from flushes to sequences of runs
  MaxBatchSize   \* max_batch_size

ASSUME BatchAssumption ==
  /\ MaxBatchSize \in Nat \ {0}
  /\ \A q \in Queues : /\ q \in [Flushes -> Seq(Runs)]
                       \* an item is drained once, and a run is the execution of one item
                       /\ \A e, f \in Flushes : \A i \in DOMAIN q[e], j \in DOMAIN q[f] :
                            q[e][i] = q[f][j] => e = f /\ i = j
  /\ \A r, s \in Runs : ExecutorOf[r] = ExecutorOf[s] => r = s

VARIABLES
  drained,   \* what each flush drained from the scheduler
  stage,     \* what each flush is doing: "plan", "run" or "done"
  planned,   \* how many of its items it has planned
  access,    \* the access set of a planned run
  groups, fallback, \* the plan of its current chunk
  turn       \* the group, or after the groups the fallback item, it is at

planVars == <<drained, stage, planned, access, groups, fallback, turn>>
batchVars == <<vars, planVars>>

BatchInit ==
  /\ Init
  /\ drained \in Queues
  /\ stage = [f \in Flushes |-> IF drained[f] = << >> THEN "done" ELSE "plan"]
  /\ planned = [f \in Flushes |-> 0]
  /\ access = << >>
  /\ groups = [f \in Flushes |-> << >>]
  /\ fallback = [f \in Flushes |-> << >>]
  /\ turn = [f \in Flushes |-> 1]

\* The chunk ends with this item.
ChunkFull(f, n) == n = Len(drained[f]) \/ n % MaxBatchSize = 0

\* plan() takes the next item of the chunk.
PlanItem(f) ==
  /\ stage[f] = "plan"
  /\ LET n == planned[f] + 1
         r == drained[f][n]
         known == Put(access, r, AccessSet(TxOf[r], outputs))
     IN  /\ \/ /\ Resolvable(TxOf[r], outputs)
               /\ access' = known
               /\ groups' = [groups EXCEPT ![f] = Place(@, r, known)]
               /\ UNCHANGED fallback
            \/ /\ ~Resolvable(TxOf[r], outputs)
               /\ fallback' = [fallback EXCEPT ![f] = Append(@, r)]
               /\ UNCHANGED <<access, groups>>
         /\ planned' = [planned EXCEPT ![f] = n]
         /\ stage' = [stage EXCEPT ![f] = IF ChunkFull(f, n) THEN "run" ELSE "plan"]
  /\ UNCHANGED <<vars, drained, turn>>

\* The runs a flush is executing now.
Items(seq) == {seq[i] : i \in DOMAIN seq}
Turns(f) == Len(groups[f]) + Len(fallback[f])
Running(f) ==
  IF stage[f] # "run" THEN {}
  ELSE IF turn[f] <= Len(groups[f]) THEN Items(groups[f][turn[f]])
  ELSE {fallback[f][turn[f] - Len(groups[f])]}

Execute(f, r) ==
  /\ r \in Running(f)
  /\ Begin(r) \/ RunStep(r)
  /\ UNCHANGED planVars

\* All threads of the group have joined: the next group, the next fallback item, or
\* the next chunk.
NextTurn(f) ==
  /\ stage[f] = "run"
  /\ \A r \in Running(f) : pc[r] \in Terminal
  /\ \/ /\ turn[f] < Turns(f)
        /\ turn' = [turn EXCEPT ![f] = @ + 1]
        /\ UNCHANGED <<stage, groups, fallback>>
     \/ /\ turn[f] = Turns(f)
        /\ stage' = [stage EXCEPT ![f] = IF planned[f] = Len(drained[f]) THEN "done" ELSE "plan"]
        /\ turn' = [turn EXCEPT ![f] = 1]
        /\ groups' = [groups EXCEPT ![f] = << >>]
        /\ fallback' = [fallback EXCEPT ![f] = << >>]
  /\ UNCHANGED <<vars, drained, planned, access>>

BatchNext == \E f \in Flushes : PlanItem(f) \/ NextTurn(f) \/ \E r \in Runs : Execute(f, r)

\* A flush is a plain function call and its threads are scheduled by the system.
BatchFairness ==
  \A f \in Flushes : /\ WF_batchVars(PlanItem(f) \/ NextTurn(f))
                     /\ \A r \in Runs : WF_batchVars(Execute(f, r))

BatchSpec == BatchInit /\ [][BatchNext]_batchVars /\ BatchFairness

-----------------------------------------------------------------------------
(* Properties *)

\* The runs of one group never touch what another of them writes, although the
\* planner read each access set at another moment.
GroupsConflictFree ==
  \A f \in Flushes : \A g \in DOMAIN groups[f] : \A i, j \in DOMAIN groups[f][g] :
    i # j => ~Conflicts(access[groups[f][g][i]], access[groups[f][g][j]])

\* The ledger the store stands for: what a run in the middle of its commit has done
\* so far does not count.
InFlight == {r \in Runs : pc[r] \in {"spend", "insert"}}
Effective == DOMAIN outputs \ UNION {madeBy[r] : r \in InFlight}
Ledger == INSTANCE AtomicLedger WITH
  outputs <- [o \in Effective |-> outputs[o]],
  spent <- spent \ UNION {spentBy[r] : r \in InFlight},
  done <- [r \in Runs |-> IF pc[r] \in Terminal THEN pc[r] ELSE "open"]

\* A flush executes its transactions as if each took effect at one instant, and
\* gives each an outcome that was right at that instant.
ImplementsLedger == Ledger!LedgerSpec

=============================================================================
