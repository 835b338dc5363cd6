SPECIFICATION MiningSpec
CONSTANTS
  m1 = m1
  m2 = m2
  imp = imp
  get = get
  syn = syn
  n1 = n1
  n2 = n2
  None = None
  Root <- MCRoot
  Nonces = {n1, n2}
  Blocks <- MCBlocks
  Parent <- MCParent
  Number <- MCNumber
  Sound <- MCBlocks
  Mined <- MCMined
  Threads = {m1, m2, imp, syn}
  Miners = {m1, m2}
  Importers = {imp}
  Readers = {imp}
  Syncers = {syn}
  Chains <- MCChains
  MaxBlocks = 2
  Persistence = FALSE
  MaxJobs = 2
  MaxJobAge = 0
  MaxSeen = 3
  MaxHistory = 2
  Reward = 1
  MaxClock = 1
  MaxCalls = 3
INVARIANTS
  Grounded
  NoShareTwice
  NoRewardInvented

SYMMETRY Alike
CHECK_DEADLOCK FALSE
