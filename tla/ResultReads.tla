---------------------------- MODULE ResultReads ----------------------------
(***************************************************************************)
(* The results of compute transactions a node can be asked for: those of   *)
(* its own submissions, the latest in memory and all of them on disk, and  *)
(* those that other nodes send with their snapshots.  Submissions pass the *)
(* steps that ComputeService has in full; here what matters is where their *)
(* results are put, and when.                                              *)
(***************************************************************************)
EXTENDS Integers, SequencesExt, FiniteSetsExt, Functions

CONSTANTS
  ResultTxs,
  Submitters,     \* callers, each with a transaction
  Snapshots,      \* the records peers send: sequences of [tx, result]
  MaxSubmitted, MaxSynced,   \* MAX_SUBMITTED_COMPUTE_RESULTS, MAX_GLOBAL_SYNC_TX_INDEX
  Limits,         \* page sizes asked for
  MaxStamp, MaxResultCrashes   \* bounds of the instance

ASSUME ResultAssumption ==
  /\ MaxSubmitted \in Nat /\ MaxSynced \in Nat /\ MaxStamp \in Nat /\ Limits \subseteq Nat \ {0}
  /\ Snapshots \subseteq Seq([tx : ResultTxs, result : [stamp : Nat, of : {"peer"}]])

VARIABLES
  stamp,          \* submitted_at_unix
  own,            \* submitted_compute_results in their order, oldest first
  onDisk,         \* results by transaction, persisted
  synced,         \* the records of GLOBAL_SYNC_COMPUTE_TXS, and their order
  executed,       \* transactions the store refuses to execute again
  submission,     \* of each caller: [step, result]
  answered,       \* history: the results callers were given
  resultCrashes

resultVars == <<stamp, own, onDisk, synced, executed, submission, answered, resultCrashes>>

NoSync == [records |-> << >>, order |-> << >>]
NotSubmitted == [step |-> "none", tx |-> "none", result |-> << >>]
ResultInit ==
  /\ stamp = 0
  /\ own = << >> /\ onDisk = << >> /\ synced = NoSync
  /\ executed = {}
  /\ submission = [s \in Submitters |-> NotSubmitted]
  /\ answered = {}
  /\ resultCrashes = 0

With(f, x, y) == [z \in DOMAIN f \cup {x} |-> IF z = x THEN y ELSE f[z]]
InOwn(tx) == {own[i].result : i \in {j \in DOMAIN own : own[j].tx = tx}}
On(db, tx) == IF tx \in DOMAIN db THEN {db[tx]} ELSE {}
FirstOf(sets) == IF \E i \in DOMAIN sets : sets[i] # {} THEN sets[Min({i \in DOMAIN sets : sets[i] # {}})] ELSE {}
SubmitAt(s, step) == submission[s].step = step
SubmitTo(s, step) == submission' = [submission EXCEPT ![s].step = step]

(* zero_submit_compute_tx *)
Submit(s) ==
  /\ SubmitAt(s, "none")
  /\ \E tx \in ResultTxs :
       LET known == FirstOf(<<On(onDisk, tx), InOwn(tx)>>)
       IN  IF known # {}
           THEN /\ answered' = answered \cup {[tx |-> tx, result |-> r] : r \in known}
                /\ UNCHANGED submission
           ELSE /\ submission' = [submission EXCEPT ![s] = [NotSubmitted EXCEPT !.step = "run", !.tx = tx]]
                /\ UNCHANGED answered
  /\ UNCHANGED <<stamp, own, onDisk, synced, executed, resultCrashes>>

Run(s) ==
  /\ SubmitAt(s, "run")
  /\ IF submission[s].tx \in executed
     THEN submission' = [submission EXCEPT ![s] = NotSubmitted] /\ UNCHANGED executed
     ELSE /\ executed' = executed \cup {submission[s].tx}
          /\ submission' = [submission EXCEPT ![s].step = "persist", ![s].result = [stamp |-> stamp, of |-> "this node"]]
  /\ UNCHANGED <<stamp, own, onDisk, synced, answered, resultCrashes>>

Persist(s) ==
  /\ SubmitAt(s, "persist")
  /\ \/ onDisk' = With(onDisk, submission[s].tx, submission[s].result) /\ SubmitTo(s, "keep")
     \/ UNCHANGED onDisk /\ submission' = [submission EXCEPT ![s] = NotSubmitted]   \* put_tx_result failed
  /\ UNCHANGED <<stamp, own, synced, executed, answered, resultCrashes>>

\* What is at some places of a list, in its order.
Only(list, places) == FlattenSeq([i \in DOMAIN list |-> IF i \in places THEN <<list[i]>> ELSE << >>])
Without(list, tx) == Only(list, {i \in DOMAIN list : list[i].tx # tx})
Latest(seq, n) == SubSeq(seq, Len(seq) - Min({n, Len(seq)}) + 1, Len(seq))

KeepOwn(s) ==
  /\ SubmitAt(s, "keep")
  /\ own' = Latest(Append(Without(own, submission[s].tx),
                          [tx |-> submission[s].tx, result |-> submission[s].result]), MaxSubmitted)
  /\ SubmitTo(s, "record")
  /\ UNCHANGED <<stamp, onDisk, synced, executed, answered, resultCrashes>>

(* global_record_compute_tx *)
Recorded(sync, tx, result) ==
  LET order == Latest(Append(Only(sync.order, {i \in DOMAIN sync.order : sync.order[i] # tx}), tx), MaxSynced)
      all == With(sync.records, tx, result)
  IN  [records |-> [x \in DOMAIN all \cap Range(order) |-> all[x]], order |-> order]

RecordOwn(s) ==
  /\ SubmitAt(s, "record")
  /\ synced' = Recorded(synced, submission[s].tx, submission[s].result)
  /\ answered' = answered \cup {[tx |-> submission[s].tx, result |-> submission[s].result]}
  /\ submission' = [submission EXCEPT ![s] = NotSubmitted]
  /\ UNCHANGED <<stamp, own, onDisk, executed, resultCrashes>>

\* global_replace_compute_txs keeps every record of a snapshot, of two for one transaction the later.
ReplaceSynced ==
  /\ \E snap \in Snapshots :
       synced' = [records |-> FoldLeft(LAMBDA f, e : With(f, e.tx, e.result), << >>, snap),
                  order |-> [i \in DOMAIN snap |-> snap[i].tx]]
  /\ UNCHANGED <<stamp, own, onDisk, executed, submission, answered, resultCrashes>>

NextStamp ==
  /\ stamp < MaxStamp
  /\ stamp' = stamp + 1
  /\ UNCHANGED <<own, onDisk, synced, executed, submission, answered, resultCrashes>>

RestartNode ==
  /\ resultCrashes < MaxResultCrashes
  /\ resultCrashes' = resultCrashes + 1
  /\ own' = << >> /\ synced' = NoSync
  /\ submission' = [s \in Submitters |-> NotSubmitted]
  /\ UNCHANGED <<stamp, onDisk, executed, answered>>

ResultNext ==
  \/ \E s \in Submitters : Submit(s) \/ Run(s) \/ Persist(s) \/ KeepOwn(s) \/ RecordOwn(s)
  \/ ReplaceSynced \/ NextStamp \/ RestartNode

ResultSpec == ResultInit /\ [][ResultNext]_resultVars

(***************************************************************************)
(* The reads.                                                              *)
(***************************************************************************)
SyncedBeforeDisk(tx) == FirstOf(<<InOwn(tx), On(synced.records, tx), On(onDisk, tx)>>)
\* zero_get_compute_tx_result, zero_get_operation_by_hash
GetResult(tx) == FirstOf(<<InOwn(tx), On(onDisk, tx), On(synced.records, tx)>>)

FirstOnes(list) == Only(list, {i \in DOMAIN list : \A j \in 1..(i - 1) : list[j].tx # list[i].tx})
Stamped(list, time) == Only(list, {i \in DOMAIN list : list[i].result.stamp = time})
NewestFirst(list) ==
  FlattenSeq([i \in 1..(MaxStamp + 1) |-> Stamped(list, MaxStamp + 1 - i)])
SyncedList == Reverse([i \in DOMAIN synced.order |-> [tx |-> synced.order[i], result |-> synced.records[synced.order[i]]]])

\* zero_list_compute_tx_results has others' results only when there is none of its own.
ListResults == NewestFirst(FirstOnes(Reverse(own) \o (IF own = << >> THEN SyncedList ELSE << >>)))
\* zero_list_operations
ListOperations == NewestFirst(FirstOnes(Reverse(own) \o SyncedList))

SkipThis(page, limit) == page * limit
Skip(page, limit) == (page - 1) * limit
Page(list, page, limit) ==
  LET items == SubSeq(list, Skip(page, limit) + 1, Min({Skip(page, limit) + limit, Len(list)}))
  IN  [items |-> items, hasMore |-> Skip(page, limit) + Len(items) < Len(list)]
-----------------------------------------------------------------------------
(* A result a caller was given is what the node answers for the transaction *)
(* ever after: through evictions, restarts, snapshots of other nodes that   *)
(* have another result for it, and a second submission.                     *)
AnsweredIsFound == \A a \in answered : GetResult(a.tx) = {a.result}

(* Whatever the page size, the pages up to the first that says there are no *)
(* more are the listing, each transaction once, with all results in memory. *)
PagesTile ==
  \A list \in {ListResults, ListOperations}, limit \in Limits :
    LET last == Min({p \in 1..(Len(list) + 1) : ~Page(list, p, limit).hasMore})
        read == FlattenSeq([p \in 1..last |-> Page(list, p, limit).items])
    IN  /\ {own[i].tx : i \in DOMAIN own} \subseteq {read[i].tx : i \in DOMAIN read}
        /\ \A i, j \in DOMAIN read : i < j => read[i].tx # read[j].tx /\ read[i].result.stamp >= read[j].result.stamp
        /\ Len(read) = Len(list)
=============================================================================
