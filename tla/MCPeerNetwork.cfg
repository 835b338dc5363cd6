SPECIFICATION NetworkSpec
CONSTANTS
  Conns = {"in_p", "out_p", "in_q"}
  Peer <- MCPeer
  Ip <- MCIp
  Inbound = {"in_p", "in_q"}
  Listeners = {"tcp"}
  Dialers = {"dial"}
  Broadcaster = "rpc"
  Hashes <- MCHashes
  MaxPeers = 2
  MaxPerIp = 1
  MaxPerMinute = 1
  MaxGossip = 1
  Minute = 0
  BanTime = 1
  DedupTime = 0
  MaxDedup = 1
  MaxClock = 1
  MaxDrops = 1
  None = "none"
INVARIANTS
  NoGhostPeer
PROPERTY OrphansEnd
CHECK_DEADLOCK FALSE
