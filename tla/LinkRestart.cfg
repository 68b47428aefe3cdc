SPECIFICATION Spec
CONSTANTS
  a = a  b = b  t = t
  Devices = {a, b}
  Topics = {t}
  Values = {v1, v2}
  KEY = KEY
  Setups <- MCRestart
  Cap = 2
  NONE = NONE
  DEL = DEL
INVARIANT OwnerAlwaysConverges
CHECK_DEADLOCK FALSE
