SPECIFICATION BatchSpec
CONSTANTS
  Domains = {1, 2}
  PublicDomains = {1, 2}
  NativeAsset = 0
  NoOutput = "none"
  MaxAmount = 15
  MaxVersion = 7
  OutputIds <- MCOutputIds
  Objects = {"A", "B", "C", "D"}
  Bodies <- MCBodies
  Runs <- MCRuns
  TxOf <- MCTxOf
  Executors <- MCRuns
  ExecutorOf <- MCExecutorOf
  Genesis <- MCGenesis
  ReplayWindow = 1
  MaxTime = 0
  Flushes = {"flush"}
  Queues <- MCQueues
  MaxBatchSize = 4
INVARIANTS
  GroupsConflictFree
PROPERTY ImplementsLedger
\* The flush returns.
CHECK_DEADLOCK FALSE
