SPECIFICATION Spec
CONSTANTS
  MaxClients = 3
  Names <- MCNames
  Fds = {3, 4, 5}
  MaxFrames = 3
  MaxFaults = 2
  Budgets <- MCBudgets
  NONE = NONE
INVARIANT RetainedConverges
CHECK_DEADLOCK FALSE
