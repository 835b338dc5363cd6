SPECIFICATION SyncSpec
CONSTANTS
  good = good
  bad = bad
  None = None
  Root = "root"
  Blocks <- MCBlocks
  Parent <- MCParent
  Number <- MCNumber
  Sound <- MCSound
  Threads = {sync}
  Sync = sync
  Peers = {good, bad}
  Honest = {good}
  ChainOf <- MCChainOf
  FirstTip <- MCFirstTip
  LocalChain <- MCLocalChain
  Forged <- MCForged
  BatchLimit = 2
  ReorgLimit = 2
  LookBack = 1
  MaxInbound = 1
  MaxScore = 60
  MaxSlow = 1
  MaxLies = 3
  MaxLeaves = 1
  MaxBlocks = 4
  Persistence = FALSE
INVARIANTS
  OnPeersChain
  AccountsHaveBlock
PROPERTY Converges
CHECK_DEADLOCK FALSE
