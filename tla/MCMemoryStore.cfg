SPECIFICATION Spec
CONSTANTS
  Domains = {1, 2}
  PublicDomains = {1}
  NativeAsset = 0
  NoOutput = "none"
  MaxAmount = 15
  MaxVersion = 7
  OutputIds <- MCOutputIds
  Objects = {"A", "B", "C", "D"}
  Bodies <- MCBodies
  Runs <- MCRuns
  TxOf <- MCTxOf
  Executors <- MCExecutors
  ExecutorOf <- MCExecutorOf
  Genesis <- MCGenesis
  ReplayWindow = 1
  MaxTime = 3
INVARIANTS
  NoDoubleSpend
  Lineage
  LatestIsNewest
  NoInflation
  AcceptedTookEffect
  ReplayNonceOnce
CONSTRAINT Apart
PROPERTY OutputsImmutable
\* Every run ends and nothing starts another one.
CHECK_DEADLOCK FALSE
