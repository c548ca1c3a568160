SPECIFICATION FairSpec
CONSTANTS
  Net = {home, dead}
  Reachable = {home}
  STA_CONNECT_TRIES = 2
  STA_BACKOFF_MIN = 1
  STA_BACKOFF_MAX = 3
  INT_RANGE = 16
  MaxRetry = 2
  MaxConnect = 1
  MaxPost = 1
  MaxDrop = 1
INVARIANTS StatusFollowsLink LinkMatchesConfig
PROPERTY Reconnects
CHECK_DEADLOCK FALSE
