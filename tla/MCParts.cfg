INIT PartsInit
NEXT PartsNext
CONSTANTS
  \* words and accounts
  Bits = 2
  Width = 3
  Addresses = {"alice", "bob"}
  Callers = {t1, t2}
  Genesis <- MCGenesis
  Batches <- MCBatches
  MaxLedgerCalls = 3
  Nothing = Nothing
  \* trie
  KeyLength = 3
  TrieKeys <- MCTrieKeys
  Nibbles = {0, 1}
  TrieValues = {1}
  Writers = {w1, w2}
  MaxTrieCalls = 3
  \* compute database
  DbKeys = {"a", "b", "old"}
  Outdated = {"old"}
  LegacyDb <- MCLegacyDb
  MaxRebuilds = 2
  MaxWrites = 2
  \* index
  Indexers = {i1, i2}
  IndexedBlocks <- MCIndexedBlocks
  Operations <- MCOperations
  Segments = {"s"}
  MaxIndexCalls = 3
  MaxIndexCrashes = 1
  \* wallet
  Processes = {p1, p2}
  AccountNames = {1, 2}
  Phrases = {"a"}
  LegacyAccounts <- MCLegacyAccounts
  MaxWalletCalls = 4
  MaxWalletKills = 1
  \* journal
  Root = "root"
  Blocks <- MCBlocks
  Parent <- MCParent
  Number <- MCNumber
  Sound <- MCSound
  Threads = {sync}
  Sync = sync
  MaxBlocks = 2
  Persistence = TRUE
  Chains <- MCChains
  TornWrites = FALSE
  MaxCalls = 5
  MaxCrashes = 2
  \* rules
  MinDifficulty = 10
  BaseDifficulty = 40
  MaxDifficulty = 60
  GenesisDifficulty = 80
  TargetInterval = 2
  MaxExtra = 64
  MaxImportExtra = 32
  Radix = 4
  DigestDigits = 4
  DivisorLimit = 200
  LegacyLow = 44
  LegacyHigh = 56
  Digests <- MCDigests
  ExtraSizes <- MCExtraSizes
  Versions = {1, 2}
  MaxClock = 4
  MaxHeight = 2
  \* limit
  Clients = {"c", "d"}
  Limit = 2
  Minute = 3
  TokenSet = TRUE
  MaxStall = 1
  MaxRequests = 4
  MaxRpcTime = 4
  \* results
  ResultTxs = {"a", "b", "c"}
  Submitters = {"s", "u"}
  Snapshots <- MCSnapshots
  MaxSubmitted = 2
  MaxSynced = 2
  Limits = {1, 2}
  MaxStamp = 1
  MaxResultCrashes = 1
  \* discovery
  IdBits = 3
  BucketSize = 2
  LocalId = 0
  PeerIds = {1, 2, 4, 5, 6, 7}
  Hosts = {"h", "k"}
  Bootnodes <- MCBootnodes
  MaxTableSteps = 5
  \* wire
  Scripts <- MCScripts
  Chunks = 2
  SocketRoom = 2
  MaxSilent = 1
  MaxTicks <- MCTicks
  \* miner
  MaxJobAgeSecs = 1
  CallTimeout = 2
  MaxHead = 3
  MaxMinerTime = 5
INVARIANTS
  BooksAreExact
  TrieHolds
  NothingLost
  FoundIsFound
  KeysKept
  SignsWithOwnKey
  JournalKeeps
  PassedIsStored
  LimitHolds
  AnsweredIsFound
  PagesTile
  KnownIsBucketed
  InOrder
  WorkIsFresh
CHECK_DEADLOCK FALSE
