# Verification of the ZERO chain node

TLA+ models of the node in this repository, the TLC configurations that check
them on small instances, and theorems about them proved with TLAPS.

Modelled are the compute layer (how a transaction on objects is validated,
executed, batched, stored and answered), the block layer (cache, journal, header
sync, mining, import), the network layer (connections, frames, discovery) and
what the node and its command-line tools keep on disk. What is left out is
listed at the end.

## The system

### Compute layer

| Component | State it keeps | What is hard | What makes it correct |
|---|---|---|---|
| Transaction validation (`zerocore/compute/{tx,policy,object,domain,execution}.rs`) | none; reads the store and the domains | the store changes between its reads | a valid transaction's outputs succeed its inputs, its owners consent, no asset is made from nothing |
| Executor and in-memory store (`execution.rs`) | outputs, spent flags, latest pointer per object; replay nonces per executor | executions interleave; each store call locks, the commit does not; a commit fails half way | no double spend, immutable outputs, lineage, no inflation, a nonce once per window |
| Batch planner and runner (`batch.rs`) | none beyond a flush | groups run in parallel on what the planner read | groups conflict-free, each transaction run once, the result that of a serial order |
| Execution service, scheduler (`batch.rs`, `scheduler.rs`) | lanes of queued transactions, bounded completed outcomes | every submitter flushes everybody's items; queue full, outcome missing or evicted, caller gone | nothing drained twice or lost, every caller answered, answers true |
| Compute RPC (`zeroapi/rpc`) | results in memory, on disk, and from peers | duplicates that race, restarts, evictions, paging | an answer once given is given again; pages join to the listing |
| Durable store (`zerostore/compute`, `zerostore/db`) | the same outputs and pointers in a key-value database | get and put are separate; a crash between two puts; pruning; offline rebuild | accepted outputs survive, nothing comes back to life, pointers resolve, a rebuild loses nothing |

Calls go RPC -> service -> scheduler, planner, runner -> executor -> store. All
are shared by the tasks and threads that serve requests; there is no message
passing inside the layer, only locks held for one call each.

### Block and mining layer

| Component | State it keeps | What is hard | What makes it correct |
|---|---|---|---|
| Block cache and journal (`zeronet/src/lib.rs`) | blocks by height, bounded and process-wide; an append-only file | validation, journal and insertion under different locks; a replacement drops the tail first; torn records; start-ups that are refused | every block has valid blocks behind it; what was acknowledged is there after a restart |
| Header sync (`zeronet/src/sync.rs`) | round, look-back, scores, the accounts held | answers that are late, wrong, missing or for another request; probing for the fork; accounts installed before blocks | a round ends on the peer's chain with accounts of it; the node ends up on the honest chain |
| Mining and import RPC (`zeroapi/rpc`) | jobs, seen shares, latest block and history, balances | the head changes under a share; the job is consumed before the block is stored; a lock taken twice by one reader | one payment per share, no invented reward, every call answered |
| Rules of headers (`block`, `sync.rs`, `rpc`) | none | three places check a header, each by its own rules, for two versions of the proof of work | what mining and import let through is stored |
| Local miner (`zerocli/commands/run.rs`) | its job and a watch | pushed heads and answers arrive late | never back to an older head |

Sync and RPC meet in the block cache, which both write, and in the account
state; the miner talks to the RPC over HTTP like any other.

### Network layer, storage and tools

| Component | State it keeps | What is hard | What makes it correct |
|---|---|---|---|
| Peer manager and connections (`zeronet/src/{lib,peer}.rs`) | registered peers, entries per peer, bans, windows | check and insertion are apart; dial and accept of one peer at once; a monitor removes whoever has its id | nothing registered without a monitor, nobody unregistered stays connected |
| Frames (`zeronet/src/lib.rs`, `protocol.rs`) | what was read of a frame | `select!` gives up a read half way | frames in their order |
| Discovery (`zeronet/src/discovery.rs`) | buckets and a map of nodes | two structures, several callers | they agree and are bounded |
| RPC admission (`zeroapi/rpc`) | a queue of times per client | the clock is read before the lock | no more than the limit in a minute |
| Accounts, words, state database (`zerocore/account`, `state`) | balances, nonces, storage | arithmetic digit by digit, losses as unsigned words | books add up |
| Trie (`zerostore/trie`) | nodes by hash, dirty and cached | splitting and merging of paths, flushes beside writes | finds what was put in |
| Indexes and archive (`zerostore/index`, `archive.rs`) | keys and caches | put and cache apart, restarts | what was acknowledged is found |
| Wallet files (`zerocli/commands/wallet.rs`) | wallet, session and lock files | commands at once, killed half way | no key lost, signatures by the right key |

Cryptography, sockets, HTTP routing and option parsing are outside the models;
where a model needs a verdict of theirs (a signature is valid, a digest is so
large), it is part of the input.

## The modules

| Module | Models | State and actions |
|---|---|---|
| `ComputeTx` | every check of validation, as operators on a transaction record and the bodies it resolved | `Admissible` (before any read), `InputOk`, `ReadOk` (per read), `ValidResolved` (after the reads), `ReplayKeys` |
| `ComputeExecutor` | one execution attempt (a *run*): one store read per step, then the nonce | `pc`, `pos`, `snap` are a run's local variables, `registry` the executors' nonces, `now` and `stamp` the clock and what a run read of it |
| `MemoryStore` | the commit on `InMemoryObjectStore` | `MarkSpent`, `InsertOutput`: one step each, as each holds the write lock from check to write |
| `DurableStore` | the commit on `ComputeStore` | `SpendGet`/`SpendPut`, `InsertHas`/`InsertPut`/`InsertLatest`: one step per database access; `Crash`, `Prune` |
| `BatchPlanner` | conflict policy and first-fit placement, as operators | `AccessSet`, `Conflicts`, `Takes`, `Place` |
| `BatchRunner` | one `flush_ready`, from the drained queue on | plans item by item, runs the groups in turn, each group's runs interleaved, falls back to serial runs |
| `AtomicLedger` | what execution promises: every transaction takes effect at one instant or is refused | `BatchRunner` implements it |
| `ComputeService` | submission to answer: duplicate check, lanes, windows, concurrent flushes, outcomes, fallbacks, restart | one `phase` per submission's task; `Drain`, `TakeChunk`, `RunItem`, `RecordChunk` are the flush, an execution is one step |
| `ResultReads` | where results are put, and the reads of one result and of pages of them | `own`, `onDisk`, `synced`; `Persist`, `KeepOwn`, `RecordOwn`, `ReplaceSynced`, `RestartNode`; `GetResult`, `ListResults`, `Page` |
| `BlockCache` | `global_store_block`, `global_replace_block_chain`, eviction, the journal's file | `at[t]`, `todo[t]`: where a thread is and the blocks it still stores; one lock or one write per step; `Loaded` is what a start reads |
| `BlockJournal` | the cache of a node that only syncs, killed and started again | `CrashNode`, `RestartFromJournal` between any two steps, also inside a record |
| `HeaderSync` | the sync task on `BlockCache`, with peers | `Tick`, `TakeHeaders`, `TakeBodies`, `TakeSnapshot`, the store's steps; `Timeout`; `Answer`, `Lie`, `Leave`, `Grow` of peers |
| `MiningRpc` | mining, import and block questions on `BlockCache` | one action per lock taken; `writer`, `readers` are parking_lot's lock |
| `HeaderRules` | difficulty, targets of both versions and the rules of store, import, sync, as operators | `AdjustMiningDifficulty`, `PowTarget`, `ShareAccepted`, `ValidateImportedHeader` and the arithmetic below them |
| `HeaderChain` | a chain that grows by headers of all three kinds while the clock moves | |
| `LocalMiner` | the miner's loop, its calls and its watch | `AskWork`, `AnswerWork`, `WorkArrives`, `Switch`, `Refresh`, `FindShare` |
| `PeerNetwork` | listeners, dialers, monitors, broadcasts and the peer manager's maps | one map and its lock per step: `Count`, `CheckBans`, `CheckTwice`, `Insert`, `Record`; `Unregister`, `Unrecord`; `Write` and `Written` are a branch of the monitor's select that writes, for as long as the peer takes |
| `PeerWire` | the two monitors of one connection, chunk by chunk, every line in chunks | `ReadChunk`, `WriteChunk`, `TakeFrame`, and what cuts a read short; `FrameFails` is a line that is no frame, and ends the loop |
| `Discovery`, `RateLimiter` | the table of nodes; token and limit of a request | |
| `U256`, `AccountLedger` | digit-wise words; both account stores under several callers | |
| `TrieStore` | lookup, insertion, removal, flush of the trie, and two threads on it | `Calls` are the recursive calls on the way to a key; `Lookup`, `Inserted`, `Removed` hand the answer of the last one back up. `TakeDirty`, `WriteNode`, `WriteFails` are a flush, node by node |
| `KeyValue`, `ComputeMaintenance`, `HistoryIndex` | a database by its contents; rebuild and prune beside a node; index and archive | |
| `Wallet` | each command a process on the three files | |
| `...Proofs` | theorems: `ExecutionProofs` about `MemoryStore` and `BatchRunner`; `DurableStoreProofs` also about `ComputeMaintenance` and `HistoryIndex`; `ComputeServiceProofs`; `MiningRpcProofs` also about `LocalMiner` and `RateLimiter`; `HeaderSyncProofs`; `PeerNetworkProofs` also about `PeerWire` and `Discovery`; `StorageProofs` about `BlockJournal`, `ResultReads`, `Wallet`, `HeaderChain`, `TrieStore` and `AccountLedger` with `U256` | |
| `FoldFacts` | lemmas: what the folds of the community modules and recursive functions over numbers compute, cuts of sequences, least and greatest numbers | |
| `MC...` | instances. `MCParts` holds twelve parts that share nothing: a behaviour is one of a single part | |

`MemoryStore`, `DurableStore` and `BatchRunner` build on `ComputeExecutor`: the
same validation, over different stores and schedulers. `BlockJournal`,
`HeaderSync` and `MiningRpc` build on `BlockCache`: the same cache under
restarts, under peers, and under several threads. `ComputeService` abstracts an
execution to one step on sets of outputs; the models below it justify that for
runs that one plan keeps apart, and `durable_race` shows where it is not
justified. `BlockCache` takes a set of sound blocks where `HeaderRules` says
which headers are.

History variables (`spentBy`, `madeBy`, `claimed`, `ever`, `acked`, `accepted`,
...) record who did what; no guard reads them. Definitions that nothing in the
specifications uses (`SpendableWithoutFlag`, `FlagLost`, `FirstOnly`, ...) are
each the mutant with which `PROJECT.json` shows that a property can fail.

Some modelling decisions that a reader of the code may ask about:

* A proposal's body and a stored output are one record; hashes, the witness's
  bytes and metadata layout are verdicts (`idOk`, `form`, `metadataOk`).
* `register_replay_nonce` reads the clock before it locks the registry, so the
  two are separate steps, and a later reading may register first. The rate
  limiter does the same.
* The batch runner makes an executor for every transaction; in `BatchRunner` and
  `DurableStore` a run therefore has a registry of its own.
* Pruning and rebuilding are commands for a stopped node (the database is opened
  by one process), hence the guard `Lockable`. A batch is atomic.
* In `ComputeService` the items of a chunk run in any order, which includes the
  planner's; ages stop at the window, because older makes no difference.
* A writer that waits for `latest_block` stops new readers, also one that reads
  already: this is how parking_lot avoids starving writers.
* A block is an identity, as its hash covers its parent and number.
* In `MiningRpc` sync and RPC run at once; in `HeaderSync` and `BlockJournal`
  the node does not mine, as without a configured coinbase and token.
* Words have three digits of two bits instead of 32 of eight, difficulties and
  digests are scaled down: the code's loops over digits, carries and borrows
  are kept, with constants for their number and size.
* What remains of a frame on TCP is one garbled frame, or ends the connection.
* A peer may not read: whether and when a write of its monitor ends is open, and a
  monitor in a write sees neither its channel nor its peer (`Write`, `Written`).
* A crash is a kill of the process: what was written is there when it starts again. The
  journal and the wallet's files are synced to the disk, the archive's segments
  (`write_segment`) are not, so a failure of the machine may lose one that was told done.
* A state root covers the balances in any order (`Listings`), as the code iterates over a
  `HashMap`.

## The runs

| Run | Question | Bounds, and why they are enough |
|---|---|---|
| `mem` | Do the guarantees of the store hold however executions interleave and fail, and is a nonce let through once per window? | six runs over two outputs: every pair of writes conflicts somewhere, one run names an input twice, one fails half way, versions are inserted in both orders. Or three runs of one executor with the clock to beyond the window; two would not let a third prune between them (the constraint `Apart` keeps the two groups in separate behaviours) |
| `batch` | Does a flush implement the atomic ledger? | six transactions in 360 queue orders, chunks of four: conflicts inside a chunk, across chunks, and an unplannable chunk |
| `durable` | What survives crashes and pruning? | transfers, a conflicting one, a mint, two of them sent again; one crash between any two database accesses, prunings before and after. One crash suffices for a torn commit and its retry |
| `service` | Are items run once and callers answered, truthfully? | three submissions, two of one transaction; queue of two (so it is full), one remembered outcome (so it is evicted), four settings that cover fallback, disk and batch size pairwise |
| `mining` | Do blocks stay grounded, and payments right, while miners, an import, a reader and sync interleave? | two miners, two nonces, chains of two blocks, a cache of two, three calls at once and jobs that expire at a second: a share loses its head, its job, or the race for its height |
| `sync` | Does the node end up on the honest chain, and what does a round leave behind? | local chain of three, honest chain of four that forks at the root, headers two at a time, so that the probe has to double its look-back and no round reaches from the fork to the old head; forged lists that chain wrongly or start another chain; one late answer, one leave, channel of one; scores end at -60 (1000 in the code), lower than the honest peer can fall here: two peers that both are at the end tie, and the first in the order of the map is asked every time |
| `net` | Is what is registered watched, and what is not, closed? | three connections of two peers, one of them twice, all from one address; bans, one broadcast or one stop, the peer manager cleared; any handshake may fail, any peer may stop reading |
| `parts` | Does each part keep what it is given, and is what comes in and goes out consistent? | accounts: three calls of two threads, with the arithmetic of all pairs of 6-bit words; trie: three calls of two threads on three keys of three nibbles, two of which share a path, one value (the theorem has any), a write that fails or a cache that is cleared once; rebuild: two rebuilds, two writes, a kill anywhere; index: two writers, three calls, two operations, one restart; wallet: four commands of two processes on two names, one with a session of the old format, one kill; journal: five calls, two crashes; headers: chains of two over every digest, label, time and size of a small set, clock also set back; limit: two clients, four requests, time beyond the window; results: three transactions, two submitters, listings of two; discovery: six nodes, buckets of two; wire: frames of two chunks each way, sockets with room for two; miner: three changes of head in five seconds, calls up to two seconds |
| `durable_race` | Is the durable store free of double spends without a planner? No: finding | as `durable`, no crash |
| `deep_fork_stalls` | Does the node reach the honest chain from any fork? No: finding | local chain of five that forks after the first block, one header a request where it probes, so that the look-back that reaches the fork overshoots it by more than a request (512 in the code) |
| `head_lock` | Is every block question answered? No: finding | one miner, one import, one reader |
| `journal_torn` | Is an acknowledged block there after restarts when a record was cut short? No: finding | two crashes, inside a record and after the next |

The findings in `PROJECT.json` quote the sentence that each violated property
states. In `parts` the journal's part lets the process die between records
only; `journal_torn` is the same model with kills inside one.

`CHECK_DEADLOCK FALSE` is set where the model stops because every run, call or
connection of the instance is over, or because a caller hung up or a crash ended it.

What the passing runs show, in short:

* The two-phase shape of an execution (validate on a snapshot, commit call by
  call) is safe in memory because `mark_spent` tests again under its lock:
  `NoDoubleSpend`, `Lineage`, `NoInflation`, `AcceptedTookEffect` hold although
  every read of validation may be stale when it is used.
* A commit that stops half way can lose value, never make any (`NoInflation`,
  `NothingFromCrashes`): inputs are marked before outputs are inserted.
* First-fit grouping by access sets makes a parallel flush equivalent to some
  serial one (`ImplementsLedger`), for transactions without duplicate inputs
  and with fresh output ids; not to the one in queue order.
* A submitter's item has left the queue when its own flush is over, whichever
  task took it (`OwnItemTaken`): the sleep begins after the item is queued and
  the drain compares with `>=`. That is why nobody waits forever
  (`EveryoneIsAnswered`), and also why an outcome can be missing.
* The block cache can be written by several threads at once because each insert
  is validated again under the lock it is made under (`Grounded`), although the
  check before it, the journal and the head a share was mined on may be stale.
* Rewards may be lost in a race, never made up (`NoRewardInvented`).
* Sync reaches the honest chain from a fork below its first look-back
  (`Converges`), under the assumption that nobody announces a height above the
  honest peer's; a false announcement makes the honest peer lose score at every
  round. A round that ends well with an honest peer leaves the node on that
  peer's chain down to the first block (`OnPeersChain`), although blocks are
  dropped before the new ones come and the headers may be a late answer.
* Accounts are installed before the blocks, but what is checked of the headers
  before is all that the store checks later (`AccountsHaveBlock`).
* Every gap between a check and an insertion in the peer manager lets two
  connections of one id through, and yet nothing is left behind: whoever ends
  removes the id, and the other sees its channel closed (`NoGhostPeer`,
  `OrphansEnd`), unless it writes for ever to a peer that does not read.
* A rebuild loses no entry at any kill (`NothingLost`), though a kill between
  its renames leaves the configured path empty.

### Known behaviours

The properties are stated so that they hold of the code as it is. These are the
places where a reader might expect more; the models have each of them.

* A commit is not atomic: one that fails half way (`execution.rs:533`) leaves
  its first writes, and a transaction that names an input twice is refused with
  that input spent. `docs/UTXO-Compute-Yellowpaper-v1.1.md:36` asks for all or
  nothing. One transaction may give one object two live successors
  (`execution.rs:221`, Yellowpaper :255).
* With an executor per transaction (`batch.rs:391`) replay nonces are never
  remembered from one transaction to the next (Yellowpaper :396).
* The planner lets a transaction overtake one it conflicts with
  (`batch.rs:329`, Yellowpaper :303).
* Two submissions of one transaction in one batch may both be told that it was
  refused though it took effect (`batch.rs:593`, `docs/GO_NO_GO_CHECKLIST.md:46`).
* After a prune a mint may be sent again. Pruning frees the ids of what it
  removes, ids are chosen by who makes a transaction, and nothing remembers them:
  another transaction may make an output under the id of one long spent.
* Two threads that append to the journal at once may mix their lines. A kill in
  the middle of a replacement by a shorter suffix leaves records of the old one
  above it, and the next start is refused until the chain is as high again.
* The RPC's own head and history are not told of a reorganisation by sync; it
  may go on with an orphan that is higher. Two miners may be paid for blocks of
  one height.
* The import RPC is stricter than store and sync (shorter extra data, strictly
  later time).
* A sync round may shorten the chain, with an honest peer too: the headers of a
  round are at most 512, or a late answer, and what was above them goes. The
  next rounds make up for it. The snapshot a round takes carries the peer's
  accounts of now, whatever block it vouches for.
* A peer that answers with headers that never fit makes the probe go back to the
  whole local height and holds it there, until its score has fallen.
* On forks of 770 to 1025 blocks sync ends its rounds well and stays where it is
  (`deep_fork_stalls`).
* When the cache has dropped its oldest blocks, a chain that starts below what is
  left is refused at its first block, with its accounts installed already
  (hence `NothingEvicted` in `OnPeersChain` and `AccountsHaveBlock`).
* More than `max_peers` may be registered, by the number of tasks that set up
  connections. A monitor that ends removes a newer connection of its id. Stopping
  the service does not abort monitors. The writes of a monitor have no timeout, so a
  peer that does not read keeps its monitor and its socket, also when a broadcast has
  dropped it because its channel was full.
* A submission locks the results and then their order (`rpc/mod.rs:868`), the listings
  lock the order and then the results (:950, :1078): one of each may wait for the other
  for ever. `ResultReads` makes either one step and does not show it.
* On TCP a `select!` that gives up a read loses what was read of the frame. Two
  monitors that both write long lines into full sockets wait for ever.
* Balances wrap where a loss exceeds them; a loss is an unsigned word with a
  correct low half only. Division is wrong for divisors above 128, and
  `overflowing_mul` panics.
* The trie removes a neighbour when a key that is absent is removed, does not
  collapse, loses one of two concurrent insertions, and cannot read nodes back
  once its cache is cleared, or a node it could not write (`spoiled` and `lost` in `TrieStore`).
* `apply_changes` of both account stores keeps the changes before one that
  fails; a state root is computed before it is written and may be stale then.
* A node started between a rebuild's renames creates an empty database; an
  operator who removes the backup then loses what it held. `interrupted` marks
  these behaviours.
* A `delete` of an account beside an `unlock` or `sign`, or killed between its
  two files, leaves a session that signs with the old key when the name is given
  again. A killed wallet command leaves its lock file.
* Cache and disk of the index may disagree when two threads index one height.

### Fairness

`BatchRunner` assumes weak fairness of the flush: a plain function whose threads
are joined by `std::thread::scope` before it returns. `ComputeService` assumes
weak fairness of each submission's task, which the runtime schedules and which
never waits for another (locks are held for a few statements), and of the
passing of time. `MiningRpc` assumes that threads run, and strong fairness of
their steps, because a lock is handed over fairly in the end; `head_lock` is a
violation under it. `HeaderSync` assumes that the task runs, deadlines pass,
honest peers answer, grow and announce, that others' answers end (`MaxLies`)
and that the bootnode reconnector brings peers back. `PeerNetwork` assumes
that a monitor that has begun to leave goes on, and strong fairness of seeing the end
of its channel: `select!` begins at a random branch, so a monitor that comes back to it
for ever does not pass over a closed channel for ever. No write is assumed to end;
`OrphansEnd` is about monitors that are not in one for ever. Callers hanging up, crashes, prunings, broadcasts, timeouts before an answer
and new submissions are never assumed to happen. The other specifications have
safety properties only and no fairness.

## The proofs

Everything here holds for every value of the constants that the named
assumptions allow: any transactions, runs, queues, chains, peers, tasks, cache
sizes and limits. TLC checks the assumptions and each invariant on the runs.

| Module | Theorems | Under |
|---|---|---|
| `ExecutionProofs` (store) | `NoDoubleSpend`, `AcceptedTookEffect`, `OutputsImmutable`, `Lineage`, `LatestIsNewest`, `ReplayNonceOnce`, `InsertsPaid`, `NoInflation`, types | `RunAssumption`, `GenesisAssumption` (a start without history), `TimeAssumption`; for `NoInflation` also `ResourceAssumption` and `FiniteAssumption` |
| `ExecutionProofs` (batches) | `GroupsConflictFree`; `BatchSpec` implements `AtomicLedger` but for its fairness | `BatchAssumption` (a run is one item's execution); for the second `LedgerAssumption` |
| `DurableStoreProofs` | `AcceptedSurvives`, `LatestResolves`, `NoDoubleSpend`, `NothingFromCrashes` | `DurableAssumption`; for all but the first `ConflictsApart`; for `NoDoubleSpend` also `IdsNotReused`, for the last also `ResourceAssumption` and `FiniteAssumption` |
| | `NothingLost`; `FoundIsFound` | `MaintenanceAssumption`; `IndexAssumption` |
| `ComputeServiceProofs` | `OwnItemTaken`, `HandedOnce`, `AcceptedIsTrue`, `StableAnswer` | `ServiceAssumption` |
| `MiningRpcProofs` | `Grounded`, `NoRewardInvented`, `NoShareTwice` while `sent <= MaxSeen` | `MiningAssumption`, `CacheAssumption` |
| | `WorkIsFresh`; `LimitHolds` | `MinerAssumption`; `RateAssumption` |
| `HeaderSyncProofs` | `OnPeersChain`, `AccountsHaveBlock` | `SyncAssumption`, `CacheAssumption` |
| `PeerNetworkProofs` | `NoGhostPeer` | `NetworkAssumption` |
| | `InOrder`; `KnownIsBucketed` | `WireAssumption`; `DiscoveryAssumption` |
| `StorageProofs` | `JournalKeeps` | `JournalAssumption`, `CacheAssumption`, `Persistence`, `~TornWrites` |
| | `TrieHolds` | `TrieAssumption` (keys are of one length) |
| | `AnsweredIsFound`, `PagesTile` | `ResultAssumption` |
| | `KeysKept`, `SignsWithOwnKey` | `WalletAssumption` (a v1 wallet names each account once and has a key for each) |
| | `PassedIsStored` | `RulesAssumption` (import allows no more extra data than the cache), `ChainAssumption` (what is handed in are numbers) |
| | `BooksAreExact` | `WordAssumption` (a digit and a word have some size), `LedgerNumbers` (balances at the start are words, what is added are numbers) |

No property among them is inductive. What each inductive invariant adds is what
a task in the middle of its steps knows, and what of that stays true although
others go on.

**Memory store.** `IInv`: where a run is in its lists (`PosInv`); what it read is
still what is stored, but for the spent flag (`SnapInv`); every flag was set by
one run, and a run past its inputs set all of its own (`SpendInv`), so two
accepted runs with a common input would both have set it; the proposals a run has
passed are stored as proposed (`MadeInv`); a nonce that was let through is in the
registry with the time its run read, until the window has passed (`NonceInv`).
`Lineage` and `LatestIsNewest` are inductive relative to it.

**No inflation.** A run that inserts anything marked each of its inputs itself,
and has passed each of them (`PaidInv`, proved as `InsertsPaid`): a commit that
fails half way never gets to its inserts. The flags of two runs are apart, so what
runs have spent is the sum of what each spent. For one run that is no mint,
`CheckResources` compares inputs with proposals per resource, an asset being of
one kind on both sides (`ResourceAssumption`), so what it made is at most what it
spent. What is live is what was stored less what was spent; the two sums give the
bound. `FiniteAssumption` says that there are finitely many runs and objects at the
start, without which there is nothing to sum.

**Plan.** An item is planned once and its access set is that of its transaction
(`PlanInv`), whatever the store looked like when it was computed. `Takes` tests
an item against every member of a group, which is why it stays conflict-free.

**Refinement.** Each run maps to the ledger's transaction: waiting until its
commit begins, then done at one instant. The argument: the store seen by a
run, less what runs in the middle of their commits have done, is the ledger's
state; the runs that are under way are of one group (`TurnInv`), therefore touch
nothing of each other's (from `GroupsConflictFree`); so what a run saw of its
inputs and reads is what the ledger has (`SeenInv`), a commit that has begun
cannot fail half way, and a run that is refused is one the ledger refuses.
`LedgerAssumption` says under which conditions the code is atomic: one flush has
the store for itself, a transaction names an id once, and a proposed id is new
or that of a conflicting transaction. Without the first a flush beside a direct
execution is not (finding `durable_race` shows it on the durable store), without
the second a commit fails half way ("Known behaviours").

**Durable store.** `AcceptedSurvives` needs no assumption on who runs beside
whom: it is about records, which only the same run's puts and a prune of spent
ones change. `LatestResolves` and `NoDoubleSpend` are false of races (that is the
finding), and proved for runs that a plan keeps apart: what a run looked up is
still so when it puts (`LookInv`). `IdsNotReused` is needed because pruning frees
ids and nothing keeps a client from proposing one of them again.
`NothingFromCrashes` needs a balance that also holds between two puts and when a
crash has ended a run there. `BalanceInv`: what is live of an asset, plus what every
run has marked so far, is at most what there was at the start plus what every run
has inserted so far. A run under way sees its inputs as they are stored
(`ReadInv`), so a mark moves exactly its amount from what is live to what is
marked; an insert adds to both sides; pruning takes only what is spent. A run that has
inserted anything has marked all of its inputs (`PaidInv`), so that each run but a
mint has inserted at most what it marked.

**Service.** A lane is sorted by age, so what is ripe is its front (`LaneInv`); an
item is in its lane, in one flush's rest, in one flush's hand, or elsewhere, never
in two (`HandInv`). Hence an item is handed once, and gone from its lane when its
submitter looks. An outcome is only ever told, cached or remembered after the
outputs are stored (`TruthInv`), and with a disk after the result is on it
(`DiskInv`), which is what makes answers agree after a restart.

**Mining.** A block that was checked has its parent among the blocks that ever were
in the cache, even when the cache has dropped it meanwhile (`GroundInv`); a
balance read is covered by the shares paid so far (`MoneyInv`); a share that is
under way is remembered by one miner alone (`ShareInv`). The registry of seen
shares forgets beyond `MaxSeen`, so the last is proved up to that number.

**Sync.** `SyncInv`: the cache is one chain from the root, also after its tail was
dropped (`CacheInv`); headers from an honest peer are of its chain whichever
request they answer (`WireInv`); a round's headers are linked and the first fits
the cache, until they are stored (`RoundInv`); the headers not yet stored are the
last ones, all before them are in the cache, and from the first step of the store
on the cache has no other block at their heights (`StoreInv`). So each block to
store follows the cache: the store refuses none, and the accounts installed
before have their block. A cache that ends in a block of a peer's chain is that
chain, because two chains from the root that meet are the same below. All of it
while nothing was evicted (`NothingEvicted`); the invariant is false afterwards,
and so is `AccountsHaveBlock`.

**Network.** A registration may lose its monitor in one way only, when the monitor
ends while its connection is registered. `NetworkInv` says who still has to do
something about a connection: one task that sets it up, or its monitor, which
unregisters the id before it forgets the records.

**Miner.** What the node read for a call that is under way was its head since the call
was made, and is no older than any head worked on (`CallInv`); what waits in the
channel, and the job, were its head at most a call before (`PushedInv`, `JobInv`);
a call ends with its timeout and a job with its age, which together are the bound.

**Limit.** Who was let in within the last minute, less a stall, still has a place in
the queue of its client, each one of its own, with a time as late as the one it
asked at (`QueueInv`): what a decision drops is the front of the queue, in the
order of pushes and not of times, and it stops at the first time that is not
over a minute old for the clock the decision read, which is no later than now.
So the queue a decision counts is at least as long as the set the property counts.

**Wire.** The chunks in the socket and with the writer are what is left of the lines
begun less those taken (`Left`: a line for each chunk, in order, each line to its
last chunk); what a read under way has is of the first of them (`HalfInv`), and over
a websocket is its beginning.

**Discovery.** `InsertNodeRecord` takes a table and a map that agree (`Tables`) to such a
table and map, and so does every sequence of records folded into them; both are
written under the lock of the buckets. A node in the map is in the one bucket of its
distance, so no other bucket can have it too; what was removed from the map stays in
its bucket.

**Journal.** All lines but the last are records, and the last is what the step has
written so far (`LinesInv`), which torn writes make false. The latest record of each
height, without gaps from the first block on, is what a start reads, and every
acknowledged block is among them (`RecordsInv`). The cache is an interval of what the
journal tells (`CacheInv`): a replacement drops the tail of the cache before it
writes, hence the journal may tell more than the cache until it is through, and a
block that is being written still fits the cache when it is inserted.

**Database.** Which databases may exist at a step of a rebuild (`PlacesInv`), and what
the one at the source, the copy or the backup holds (`CopyInv`): until it is set
aside the source has everything, while it is aside the backup has, and from the
installation on the new one has, in today's format. What a kill leaves between the
renames is still in some database (`HeldInv`).

**Index.** A call is at a step at which what it has put is in the database
(`CallsInv`); what the database and the cache say of a hash or a height is of that
hash or height (`RightInv`, `BlockCacheInv`); what was told done has its keys
(`FoundInv`), and no step takes a key away: `OnlyPut` says so of a whole batch.

**Trie.** `Shaped` tries are those in a set of pairs of a trie and the length of the keys
below it, where each node's children are in the set with what is left of that length; so
no definition is recursive. The answer of a call is what its node makes of the answer of the
call below (`Descends`). By induction on the length of the keys, an insertion finds its value
under its key and every other key as before, in a trie that is shaped again (`InsertedFound`),
and so does a removal of a key that is there (`RemovedGone`). `TrieInv`: the root, and each root
a thread is about to publish, is such a trie and has what its thread means it to have (`KeptInv`);
its nodes are in the cache, dirty, or in the hands of a flush (`NodesInv`), until some are lost.

**Results.** What is kept in memory, and what was answered, is on disk (`OwnInv`,
`AnsweredInv`), and the disk is asked before the records of other nodes. Of the
submissions of one transaction one executes, and its result is the first on disk
(`SubmissionInv`), so an answer once given is never overwritten.
Pages: the lists a listing is made of are lists of results with a time (`SyncedInv`
says so of what other nodes sent); the first ones of each transaction are one per
transaction and leave none out, sorting by time keeps all of them; and each page
begins where the one before it ended, so that the pages read one after the other are
a front of the list (`PagesAreList`), and all of it at the first that says so.

**Headers.** The target is a long division of the largest digest, digit by digit. At
each digit the quotient so far times the divisor, plus the remainder, is the digest
read so far (`TargetIsQuotient`: two folds side by side), and no digit is cut
off, as the remainder is below the divisor. So a digest under the target, times the
difficulty, is no more than the largest (`TargetIsWork`). The rules of
import are those of the cache or stricter (`ImportedIsSound`), and a share's header
is made from the head so that the cache takes it unless the clock is behind
the head's. Of the state the proof needs only that the head is a header
with a number, a time and a difficulty in the code's range (`ChainInv`).

**Accounts.** The first digits of a sum of words, however many, are the sum of the first
digits of both, plus the carry that comes into the last of them, less the overflow
(`WordsAdded`; `WordsSubtracted` for borrows); for all digits that is the sum of the
numbers. The first digit that differs decides the order of the numbers too
(`LessIsLess`), hence no number has two words (`OnlyWord`). In the ledger a change
below zero becomes the number it is modulo the low half, with zeros before
(`SignedWord`): it is never negative to `update_balance` and is added, so the low half
stays right whichever thread applies it and although the word may wrap, because the
modulus is a multiple of that of the low half (`BalanceChanged`). The invariant
(`LedgerInv`) says besides that what a caller still has to do of a batch is a part of
that batch.

A quotient by at most half a digit is made bit by bit: what is left stays below the
divisor, hence in the last digit even when it is doubled (`BitDivided`), and so it does
not matter that the code shifts the digits of the remainder the wrong way. After each bit
the quotient so far, as often as the divisor says, and what is left make up the bits read
so far (`Reached`, `NextReached`). Leading zeros are those of the number because the
first digit that is not zero and its highest bit bound the word from both sides
(`ZerosAreExact`). Fees follow from sums (`FeeIsExact`).

**Wallet.** One command at work may change the wallet, since it holds the lock file;
therefore what it has read is still the wallet when it saves (`LockInv`). For
signatures: a pair of name and key is *current* if an account has it, or a delete
that is between its two files has had it. As long as no delete met a session command or
ended half way, every session, on file or read, and every account a session command
has read, is current, and no name is in two current pairs (`SessionInv`). So the
session that a token opens for a name has the key of the account of that name.

`FoldFacts` has induction. The library's induction theorems take an operator,
which the provers cannot instantiate; here a predicate is a set, and induction is
that a nonempty set of subsets of a finite set has a minimal member
(`MinimalSubset`). From it come induction over numbers (`AllNumbers`), over what a
fold has folded (`FoldStays`, `FoldExists`), that a recursive function over numbers
has a value and the one its definition gives (`CountedUp`, `CountedIn`), sums over finite sets (`FoldIsSum`,
`SumSplit`, `SumBounds`, `SumInjected`; `Total` and its lemmas say the same of
`MapThenSumSet`), and what `FlattenSeq` and `RemoveFirst` of
the community modules return.

Only model-checked is

* liveness (`EveryoneIsAnswered`, `Converges`, `OrphansEnd`) and the fairness of the
  refinement: the prover has no rule for them, nor for ENABLED.

## Not modelled

* `consensus/miner.rs`, `miner_full.rs`, `blockchain/`, `rlp/`,
  `zeronet/transport.rs` and `zeroapi/http_server.rs` are reached by no `mod`
  declaration; `ws/` only simulates its subscriptions; `PowConsensus`, the agent
  scheduler, account permissions and `transition_state`, `get_closest_nodes`, the
  address index and trie proofs have no caller in the program.
* Hashes, signatures, key derivation, codecs, HTTP, TLS, DNS and discv5 are
  libraries or formats; models take their verdicts.
* Parsing of requests, the reads of one object or domain, simulation, metrics,
  options and printing change no state.
* Start and stop of the RPC server and of the network service (a start that
  fails half way leaves its listeners running; the next start or stop does not
  see them), the file of bans, sync's auto-advance knob, the halving of rewards,
  and the choice among several coinbases.

## Plan

What would come next:

1. `Grounded` for the cache after restarts from the journal.
2. `ResultReads` with its two locks taken one after the other, for the listings that
   take them in the other order than a submission.
