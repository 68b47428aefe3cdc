SPECIFICATION Spec
CONSTANTS
  a = a  b = b  t = t
  Devices = {a, b}
  Topics = {t}
  Values = {v1}
  KEY = KEY
  Setups <- MCReturn
  Cap = 2
  NONE = NONE
  DEL = DEL
INVARIANT NeverReturned
CHECK_DEADLOCK FALSE
