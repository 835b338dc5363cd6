SPECIFICATION JournalSpec
CONSTANTS
  Root = "root"
  Blocks <- MCBlocks
  Parent <- MCParent
  Number <- MCNumber
  Sound <- MCSound
  Threads = {sync}
  Sync = sync
  MaxBlocks = 2
  Persistence = TRUE
  Chains <- MCChains
  TornWrites = TRUE
  MaxCalls = 5
  MaxCrashes = 2
INVARIANT AckedSurvives
CHECK_DEADLOCK FALSE
