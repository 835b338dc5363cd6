SPECIFICATION ServiceSpec
CONSTANTS
  Submissions = {1, 2, 3}
  TxOf <- MCTxOf
  Takes <- MCTakes
  Makes <- MCMakes
  LaneOf <- MCLaneOf
  LaneKeys <- MCLaneKeys
  Stored0 = {"a1"}
  Window = 1
  Configs <- MCConfigs
  MaxPending = 2
  MaxCompleted = 1
  MaxResults = 1
  MaxCrashes = 1
INVARIANTS
  OwnItemTaken
  HandedOnce
  AcceptedIsTrue
PROPERTIES
  StableAnswer
  EveryoneIsAnswered
CHECK_DEADLOCK FALSE
