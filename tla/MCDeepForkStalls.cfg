SPECIFICATION SyncSpec
CONSTANTS
  good = good
  bad = bad
  None = None
  Root = "root"
  Blocks <- MCBlocks
  Parent <- MCParent
  Number <- MCNumber
  Sound <- MCSound
  Threads = {sync}
  Sync = sync
  Peers = {good, bad}
  Honest = {good}
  ChainOf <- MCDeepChainOf
  FirstTip <- MCDeepFirstTip
  LocalChain <- MCDeepLocalChain
  Forged <- MCForged
  BatchLimit = 2
  ReorgLimit = 1
  LookBack = 1
  MaxInbound = 1
  MaxScore = 60
  MaxSlow = 1
  MaxLies = 1
  MaxLeaves = 0
  MaxBlocks = 5
  Persistence = FALSE
PROPERTY Converges
CHECK_DEADLOCK FALSE
