------------------------------ MODULE KeyValue ------------------------------
(***************************************************************************)
(* The key-value databases of zerostore/src/db (RocksDB, redb, a map), by  *)
(* their contents: a function from the keys they hold.  Each operation is  *)
(* one transaction, a batch too.                                           *)
(***************************************************************************)
EXTENDS Integers, SequencesExt, FiniteSetsExt

Empty == << >>
PutEntry(db, k, v) == [x \in DOMAIN db \cup {k} |-> IF x = k THEN v ELSE db[x]]
DeleteEntry(db, k) == [x \in DOMAIN db \ {k} |-> db[x]]
Entry(db, k) == IF k \in DOMAIN db THEN {db[k]} ELSE {}

\* A batch applies its operations in order: of two on one key the later one counts.
BatchPut(k, v) == [key |-> k, put |-> TRUE, value |-> v]
BatchDelete(k) == [key |-> k, put |-> FALSE, value |-> k]
ApplyOp(db, op) == IF op.put THEN PutEntry(db, op.key, op.value) ELSE DeleteEntry(db, op.key)
ApplyFirstOp(db, ops) == IF ops = << >> THEN db ELSE ApplyOp(db, ops[1])
WriteBatch(db, ops) == FoldLeft(ApplyOp, db, ops)
=============================================================================
