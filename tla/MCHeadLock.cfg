SPECIFICATION MiningSpec
CONSTANTS
  m1 = m1
  m2 = m2
  imp = imp
  get = get
  syn = syn
  n1 = n1
  n2 = n2
  None = None
  Root <- MCRoot
  Nonces = {n1, n2}
  Blocks <- MCBlocks
  Parent <- MCParent
  Number <- MCNumber
  Sound <- MCBlocks
  Mined <- MCMined
  Threads = {m1, imp, get}
  Miners = {m1}
  Importers = {imp}
  Readers = {get}
  Syncers = {}
  Chains <- MCChains
  MaxBlocks = 2
  Persistence = FALSE
  MaxJobs = 2
  MaxJobAge = 0
  MaxSeen = 3
  MaxHistory = 2
  Reward = 1
  MaxClock = 0
  MaxCalls = 2
PROPERTY EveryCallAnswered
CHECK_DEADLOCK FALSE
