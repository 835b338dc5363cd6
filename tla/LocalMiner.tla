----------------------------- MODULE LocalMiner -----------------------------
(***************************************************************************)
(* The miner the command line runs beside its node (run_rpc_backed_miner): *)
(* it asks the node for work, hashes for a job, and has a second task wait *)
(* at the node for the head to change.  Each call may be answered late, or *)
(* not at all.                                                             *)
(*                                                                         *)
(* Heads of the node are numbered in the order it has them; what a hash is *)
(* and which target it meets is in module HeaderRules.                     *)
(***************************************************************************)
EXTENDS Integers, SequencesExt

CONSTANTS
  MaxJobAgeSecs,   \* LOCAL_MINER_MAX_JOB_AGE_SECS, also how long the node lets a watch wait
  CallTimeout,     \* of the miner's HTTP client
  MaxHead, MaxMinerTime   \* bounds of the instance

ASSUME MinerAssumption == MaxJobAgeSecs \in Nat /\ CallTimeout \in Nat

VARIABLES
  nodeHead, replacedAt,   \* the node's head; history: when each earlier one was replaced
  minerStep,              \* "idle", "fetch", "hash" or "submit"
  job, jobStarted,        \* the head the miner works on, and since when
  call, watch,            \* calls under way: since when, and the head the node has read
  pushed,                 \* the channel of the watch: heads, or Failed
  newest,                 \* history: the newest head ever worked on
  secs

minerVars == <<nodeHead, replacedAt, minerStep, job, jobStarted, call, watch, pushed, newest, secs>>

Failed == -1
Unread == -2
NoCall == [since |-> 0, read |-> Failed]
Called == [since |-> secs, read |-> Unread]

MinerInit ==
  /\ nodeHead = 0 /\ replacedAt = << >>
  /\ minerStep = "idle" /\ job = 0 /\ jobStarted = 0
  /\ call = NoCall /\ watch = NoCall
  /\ pushed = << >>
  /\ newest = 0 /\ secs = 0

\* Every job has a channel of its own.
OldChannel(rest) == rest
NewChannel(rest) == << >>

\* The next job, with its watch.
Work(h, rest) ==
  /\ job' = h /\ jobStarted' = secs
  /\ newest' = IF h > newest THEN h ELSE newest
  /\ pushed' = NewChannel(rest)
  /\ watch' = Called
  /\ minerStep' = "hash"
  /\ call' = NoCall

\* The job is over and its watch aborted.
JobOver ==
  /\ minerStep' = "idle"
  /\ watch' = NoCall /\ call' = NoCall
  /\ UNCHANGED <<job, jobStarted, newest, pushed>>

Replaced ==
  /\ nodeHead < MaxHead
  /\ nodeHead' = nodeHead + 1
  /\ replacedAt' = Append(replacedAt, secs)   \* replacedAt[h + 1]: when head h was replaced

HeadReplaced ==
  /\ Replaced
  /\ UNCHANGED <<minerStep, job, jobStarted, call, watch, pushed, newest, secs>>

(***************************************************************************)
(* fetch_mining_work, and zero_getWork that answers it.                    *)
(***************************************************************************)
AskWork ==
  /\ minerStep = "idle"
  /\ minerStep' = "fetch" /\ call' = Called
  /\ UNCHANGED <<nodeHead, replacedAt, job, jobStarted, watch, pushed, newest, secs>>

AnswerWork ==
  /\ minerStep = "fetch" /\ call.read = Unread
  /\ call' = [call EXCEPT !.read = nodeHead]
  /\ UNCHANGED <<nodeHead, replacedAt, minerStep, job, jobStarted, watch, pushed, newest, secs>>

WorkArrives ==
  /\ minerStep = "fetch" /\ call.read >= 0
  /\ Work(call.read, pushed)
  /\ UNCHANGED <<nodeHead, replacedAt, secs>>

\* An error, an unusable answer, or none in time.
WorkFails ==
  /\ minerStep = "fetch"
  /\ minerStep' = "idle" /\ call' = NoCall
  /\ UNCHANGED <<nodeHead, replacedAt, job, jobStarted, watch, pushed, newest, secs>>

(***************************************************************************)
(* spawn_work_watch, and wait_for_work_change: the node answers when its   *)
(* head is another one, or when the wait is over.                          *)
(***************************************************************************)
MatchesKnownHead == nodeHead = job

AnswerWatch ==
  /\ watch.read = Unread
  /\ ~MatchesKnownHead \/ secs - watch.since >= MaxJobAgeSecs
  /\ watch' = [watch EXCEPT !.read = nodeHead]
  /\ UNCHANGED <<nodeHead, replacedAt, minerStep, job, jobStarted, call, pushed, newest, secs>>

WatchEnds ==
  /\ watch # NoCall
  /\ \/ watch.read >= 0 /\ pushed' = Append(pushed, watch.read)
     \/ pushed' = Append(pushed, Failed)
  /\ watch' = NoCall
  /\ UNCHANGED <<nodeHead, replacedAt, minerStep, job, jobStarted, call, newest, secs>>

(***************************************************************************)
(* One round of hashing: a share is submitted before the channel is looked *)
(* at, and then the age and the number of nonces.                          *)
(***************************************************************************)
FindShare ==
  /\ minerStep = "hash"
  /\ minerStep' = "submit" /\ call' = Called
  /\ UNCHANGED <<nodeHead, replacedAt, job, jobStarted, watch, pushed, newest, secs>>

\* zero_submitWork takes a share for the head it has; the answer may be lost.
ShareEnds ==
  /\ minerStep = "submit"
  /\ (job = nodeHead /\ Replaced) \/ UNCHANGED <<nodeHead, replacedAt>>
  /\ JobOver
  /\ UNCHANGED secs

Switch ==
  /\ minerStep = "hash" /\ pushed # << >>
  /\ IF Head(pushed) \in {Failed, job}
     THEN /\ watch' = Called
          /\ pushed' = Tail(pushed)
          /\ UNCHANGED <<minerStep, job, jobStarted, call, newest>>
     ELSE Work(Head(pushed), Tail(pushed))
  /\ UNCHANGED <<nodeHead, replacedAt, secs>>

Refresh ==
  /\ minerStep = "hash"
  /\ JobOver
  /\ UNCHANGED <<nodeHead, replacedAt, secs>>

\* Seconds pass; the client's time-out, and a loop that turns many times a second, do not let them
\* pass beyond what they allow.
SecondPasses ==
  /\ secs < MaxMinerTime
  /\ minerStep = "hash" => pushed = << >> /\ secs - jobStarted < MaxJobAgeSecs
  /\ \A c \in {call, watch} \ {NoCall} : secs - c.since < CallTimeout
  /\ secs' = secs + 1
  /\ UNCHANGED <<nodeHead, replacedAt, minerStep, job, jobStarted, call, watch, pushed, newest>>

MinerNext ==
  \/ HeadReplaced \/ AskWork \/ AnswerWork \/ WorkArrives \/ WorkFails
  \/ AnswerWatch \/ WatchEnds \/ FindShare \/ ShareEnds \/ Switch \/ Refresh \/ SecondPasses

MinerSpec == MinerInit /\ [][MinerNext]_minerVars
-----------------------------------------------------------------------------
(* However late answers and pushed heads come, the miner never goes back to *)
(* a head older than one it has worked on, and never hashes for one that    *)
(* the node has given up longer ago than a call and a job may take.         *)
WorkIsFresh ==
  minerStep = "hash" =>
    /\ job = newest
    /\ job = nodeHead \/ secs - replacedAt[job + 1] <= CallTimeout + MaxJobAgeSecs
=============================================================================
