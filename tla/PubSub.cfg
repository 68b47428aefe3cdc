SPECIFICATION FairSpec
CONSTANTS
  MaxClients = 3
  Names <- MCNames
  Fds = {3, 4, 5}
  MaxFrames = 3
  MaxFaults = 2
  Budgets <- MCBudgets
  NONE = NONE
INVARIANTS
  TypeOK
  NoMisdelivery
  StreamNeverDesynced
  SubscriptionsMirrored
  EveryoneServed
  PublishedInOrderToOthers
PROPERTY ServerStops
CHECK_DEADLOCK FALSE
