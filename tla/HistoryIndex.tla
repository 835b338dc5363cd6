---------------------------- MODULE HistoryIndex ----------------------------
(***************************************************************************)
(* IndexDB over a key-value database: blocks by height and by hash,        *)
(* operations by hash, each with a cache that lookups fill, written by     *)
(* several threads and lost with the process.  index_block is two puts and *)
(* two updates of caches; batch_index_operations fills the cache entry by  *)
(* entry and writes the batch last.  A lookup caches what it has read some *)
(* time after it has read it.  The database may refuse any write.          *)
(*                                                                         *)
(* And the archive beside it: a segment is written to a temporary file and *)
(* renamed.                                                                *)
(***************************************************************************)
EXTENDS KeyValue, Functions

CONSTANTS
  Indexers,      \* threads
  IndexedBlocks, \* block hash -> height
  Operations,    \* operation hash -> the index entries it may get
  Segments,      \* finished ranges of heights: <<from, to>>
  MaxIndexCalls, MaxIndexCrashes   \* bounds of the instance

ASSUME IndexAssumption == IsFiniteSet(DOMAIN Operations)

VARIABLES
  index,         \* the database
  blockCache, opCache, latestIndexed,
  indexing,      \* of each thread: its step, what it is about and has left to cache
  found,         \* history: <<kind, key, value>> that a finished call has written
  archive,       \* file -> "whole" or "torn"
  indexCalls, indexCrashes

indexVars == <<index, blockCache, opCache, latestIndexed, indexing, found, archive, indexCalls, indexCrashes>>
caches == <<blockCache, opCache, latestIndexed>>

HashKey(n) == <<"h", n>>
NumberKey(b) == <<"n", b>>
OpKey(o) == <<"t", o>>

IndexIdle == [step |-> "idle", ops |-> << >>, left |-> << >>]
IndexInit ==
  /\ index = Empty
  /\ blockCache = Empty /\ opCache = Empty /\ latestIndexed = 0
  /\ indexing = [t \in Indexers |-> IndexIdle]
  /\ found = {}
  /\ archive = Empty
  /\ indexCalls = 0 /\ indexCrashes = 0

CallIndex(t, step, ops) ==
  /\ indexing[t] = IndexIdle /\ indexCalls < MaxIndexCalls
  /\ indexCalls' = indexCalls + 1
  /\ indexing' = [indexing EXCEPT ![t] = [step |-> step, ops |-> ops, left |-> ops]]
IndexStep(t, step) == indexing' = [indexing EXCEPT ![t].step = step]
EndCall(t) == indexing' = [indexing EXCEPT ![t] = IndexIdle]
IndexAt(t, step) == indexing[t].step = step
Subject(t) == indexing[t].ops[1]
Batched(t) == {indexing[t].ops[i] : i \in DOMAIN indexing[t].ops}

(* index_block *)
IndexBlock(t) ==
  /\ \E b \in DOMAIN IndexedBlocks : CallIndex(t, "hash", <<b>>)
  /\ UNCHANGED <<index, caches, found, archive, indexCrashes>>

PutHash(t) ==
  /\ IndexAt(t, "hash")
  /\ index' = PutEntry(index, HashKey(IndexedBlocks[Subject(t)]), Subject(t))
  /\ IndexStep(t, "number")
  /\ UNCHANGED <<caches, found, archive, indexCalls, indexCrashes>>

PutNumber(t) ==
  /\ IndexAt(t, "number")
  /\ index' = PutEntry(index, NumberKey(Subject(t)), IndexedBlocks[Subject(t)])
  /\ IndexStep(t, "cache")
  /\ UNCHANGED <<caches, found, archive, indexCalls, indexCrashes>>

CacheBlock(t) ==
  /\ IndexAt(t, "cache")
  /\ blockCache' = PutEntry(blockCache, IndexedBlocks[Subject(t)], Subject(t))
  /\ IndexStep(t, "latest")
  /\ UNCHANGED <<index, opCache, latestIndexed, found, archive, indexCalls, indexCrashes>>

SetLatestIndexed(t) ==
  /\ IndexAt(t, "latest")
  /\ latestIndexed' = IndexedBlocks[Subject(t)]
  /\ found' = found \cup {<<"block", Subject(t), IndexedBlocks[Subject(t)]>>}
  /\ EndCall(t)
  /\ UNCHANGED <<index, blockCache, opCache, archive, indexCalls, indexCrashes>>

(* index_operation *)
IndexOperation(t) ==
  /\ \E o \in DOMAIN Operations : \E e \in Operations[o] : CallIndex(t, "operation", <<<<o, e>>>>)
  /\ UNCHANGED <<index, caches, found, archive, indexCrashes>>

PutOperation(t) ==
  /\ IndexAt(t, "operation")
  /\ index' = PutEntry(index, OpKey(Subject(t)[1]), Subject(t)[2])
  /\ IndexStep(t, "cache operation")
  /\ UNCHANGED <<caches, found, archive, indexCalls, indexCrashes>>

CacheOperation(t) ==
  /\ IndexAt(t, "cache operation")
  /\ opCache' = PutEntry(opCache, Subject(t)[1], Subject(t)[2])
  /\ found' = found \cup {<<"operation", Subject(t)[1], 0>>}
  /\ EndCall(t)
  /\ UNCHANGED <<index, blockCache, latestIndexed, archive, indexCalls, indexCrashes>>

(* batch_index_operations: the caches first, the database last. *)
IndexBatch(t) ==
  /\ \E ops \in [DOMAIN Operations -> UNION {Operations[o] : o \in DOMAIN Operations}] :
       /\ \A o \in DOMAIN Operations : ops[o] \in Operations[o]
       /\ CallIndex(t, "batch", SetToSeq({<<o, ops[o]>> : o \in DOMAIN ops}))
  /\ UNCHANGED <<index, caches, found, archive, indexCrashes>>

CacheBatch(t) ==
  /\ IndexAt(t, "batch") /\ indexing[t].left # << >>
  /\ LET op == Head(indexing[t].left) IN opCache' = PutEntry(opCache, op[1], op[2])
  /\ indexing' = [indexing EXCEPT ![t].left = Tail(@)]
  /\ UNCHANGED <<index, blockCache, latestIndexed, found, archive, indexCalls, indexCrashes>>

PutBatch(t) ==
  /\ IndexAt(t, "batch") /\ indexing[t].left = << >>
  /\ index' = WriteBatch(index, [i \in DOMAIN indexing[t].ops |->
                                   BatchPut(OpKey(indexing[t].ops[i][1]), indexing[t].ops[i][2])])
  /\ found' = found \cup {<<"operation", op[1], 0>> : op \in Batched(t)}
  /\ EndCall(t)
  /\ UNCHANGED <<caches, archive, indexCalls, indexCrashes>>

\* get_block_hash and get_operation: the cache, else the database, which fills it.
GetBlockHash(n) == IF n \in DOMAIN blockCache THEN Entry(blockCache, n) ELSE Entry(index, HashKey(n))
GetOperation(o) == IF o \in DOMAIN opCache THEN Entry(opCache, o) ELSE Entry(index, OpKey(o))
GetBlockNumber(b) == Entry(index, NumberKey(b))

\* A lookup that misses the cache has read x under key k.
ReadEntry(t, step, k, x) ==
  /\ indexing[t] = IndexIdle
  /\ indexing' = [indexing EXCEPT ![t] = [step |-> step, ops |-> <<k, x>>, left |-> << >>]]
  /\ UNCHANGED <<index, caches, found, archive, indexCalls, indexCrashes>>

ReadHash(t) ==
  \E n \in Range(IndexedBlocks) \ DOMAIN blockCache : \E b \in GetBlockHash(n) : ReadEntry(t, "keep hash", n, b)
ReadOperation(t) ==
  \E o \in DOMAIN Operations \ DOMAIN opCache : \E e \in GetOperation(o) : ReadEntry(t, "keep operation", o, e)

KeepHash(t) ==
  /\ IndexAt(t, "keep hash")
  /\ blockCache' = PutEntry(blockCache, indexing[t].ops[1], indexing[t].ops[2])
  /\ EndCall(t)
  /\ UNCHANGED <<index, opCache, latestIndexed, found, archive, indexCalls, indexCrashes>>

KeepOperation(t) ==
  /\ IndexAt(t, "keep operation")
  /\ opCache' = PutEntry(opCache, indexing[t].ops[1], indexing[t].ops[2])
  /\ EndCall(t)
  /\ UNCHANGED <<index, blockCache, latestIndexed, found, archive, indexCalls, indexCrashes>>

(* ArchiveSegmentWriter::write_segment, by the one command that calls it.  A *)
(* segment that does not validate is refused before.                        *)
SegmentFile(s) == <<s, "zst">>
TemporaryFile(s) == <<s, "zst.tmp">>

WriteSegment(t) ==
  /\ \A u \in Indexers : ~IndexAt(u, "segment")
  /\ \E s \in Segments : CallIndex(t, "segment", <<s>>) /\ archive' = PutEntry(archive, TemporaryFile(s), "torn")
  /\ UNCHANGED <<index, caches, found, indexCrashes>>

RenameSegment(t) ==
  /\ IndexAt(t, "segment")
  /\ archive' = PutEntry(DeleteEntry(archive, TemporaryFile(Subject(t))), SegmentFile(Subject(t)), "whole")
  /\ found' = found \cup {<<"segment", Subject(t), 0>>}
  /\ EndCall(t)
  /\ UNCHANGED <<index, caches, indexCalls, indexCrashes>>

\* A write fails: the caller is told, what was written or cached before stays.
IndexFails(t) ==
  /\ \/ indexing[t].step \in {"hash", "number", "operation", "segment"}
     \/ IndexAt(t, "batch") /\ indexing[t].left = << >>
  /\ EndCall(t)
  /\ UNCHANGED <<index, caches, found, archive, indexCalls, indexCrashes>>

KillIndex ==
  /\ indexCrashes < MaxIndexCrashes
  /\ indexCrashes' = indexCrashes + 1
  /\ blockCache' = Empty /\ opCache' = Empty /\ latestIndexed' = 0
  /\ indexing' = [t \in Indexers |-> IndexIdle]
  /\ UNCHANGED <<index, found, archive, indexCalls>>

IndexNext ==
  \/ \E t \in Indexers :
       \/ IndexBlock(t) \/ PutHash(t) \/ PutNumber(t) \/ CacheBlock(t) \/ SetLatestIndexed(t)
       \/ IndexOperation(t) \/ PutOperation(t) \/ CacheOperation(t)
       \/ IndexBatch(t) \/ CacheBatch(t) \/ PutBatch(t)
       \/ ReadHash(t) \/ ReadOperation(t) \/ KeepHash(t) \/ KeepOperation(t)
       \/ WriteSegment(t) \/ RenameSegment(t) \/ IndexFails(t)
  \/ KillIndex

IndexSpec == IndexInit /\ [][IndexNext]_indexVars
-----------------------------------------------------------------------------
(* What a call has answered Ok for is found ever after, through other       *)
(* threads' calls, caches and restarts: an operation by its hash, a block's *)
(* height by its hash, by that height a block of that height, and a whole   *)
(* archived segment under its name.                                         *)
FoundIsFound ==
  \A f \in found :
    \/ f[1] = "operation" /\ GetOperation(f[2]) # {}
    \/ f[1] = "segment" /\ Entry(archive, SegmentFile(f[2])) = {"whole"}
    \/ /\ f[1] = "block" /\ GetBlockNumber(f[2]) = {f[3]}
       /\ \E b \in GetBlockHash(f[3]) : IndexedBlocks[b] = f[3]
=============================================================================
