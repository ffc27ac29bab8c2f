SPECIFICATION FairPoolSpec
CONSTANTS
  p1 = p1
  p2 = p2
  NoPeer = NoPeer
  Peers = {p1, p2}
  Seeds = {p2}
  LastBlock <- Heights
  MaxConnect = 2
  MaxFailures = 2
  MaxHeight = 1
  MaxCalls = 2
  Jobs = {1, 2}
CHECK_DEADLOCK FALSE
INVARIANTS PoolTypeOK DownloadIsConnected NoDeadSync
PROPERTY SyncEnds
