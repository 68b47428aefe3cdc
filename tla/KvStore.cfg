SPECIFICATION FairSpec
CONSTANTS
  Nodes = {n1, n2}
  Keys = {x}
  IntModulus = 2
  TTL = 1
  SendBuf = 2
  MaxOps = 3
  MaxTime = 1
  MaxRestarts = 1
  MaxConns = 2
  BLOB = BLOB
  ABSENT = ABSENT
  NEVER = NEVER
  NONE = NONE
INVARIANTS
  TypeOK
  WatchedMeansPushed
  CacheCoherent
PROPERTIES
  NoEarlyExpiry
  ExpiryReachesCaches
CHECK_DEADLOCK FALSE
