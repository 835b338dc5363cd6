SPECIFICATION DurableSpec
CONSTANTS
  both1 = both1
  both2 = both2
  move = move
  other = other
  coin1 = coin1
  coin2 = coin2
  Domains = {1, 2}
  PublicDomains = {1}
  NativeAsset = 0
  NoOutput = "none"
  MaxAmount = 15
  MaxVersion = 7
  OutputIds <- MCOutputIds
  Objects = {"A", "B", "C"}
  Bodies <- MCBodies
  Runs <- MCRuns
  TxOf <- MCTxOf
  Executors <- MCRuns
  ExecutorOf <- MCExecutorOf
  Genesis <- MCGenesis
  ReplayWindow = 1
  MaxTime = 0
  Apart = {}
  RetentionWindow = 1
  MaxCrashes = 0
SYMMETRY Retries
INVARIANT NoDoubleSpend
CHECK_DEADLOCK FALSE
