SPECIFICATION FairSpec
CONSTANTS
  Names = {n1, n2}
  Callers = {r1}
  MaxCalls = 3
  MaxConns = 3
  MaxBreaks = 2
INVARIANTS
  TypeOK
  NoStrandedRequest
  HandlersRouted
PROPERTY CallsReturn
CHECK_DEADLOCK FALSE
