SPECIFICATION Spec
CONSTANTS
  Names = {n1, n2}
  Callers = {r1}
  MaxCalls = 3
  MaxConns = 2
  MaxBreaks = 1
INVARIANT UnsubscribedStaysOff
CHECK_DEADLOCK FALSE
