SPECIFICATION FairSpec
CONSTANTS
  a = a  b = b  t = t
  Devices = {a, b}
  Topics = {t}
  Values = {v1}
  KEY = KEY
  Setups <- MCSetups
  Cap = 2
  NONE = NONE
  DEL = DEL
INVARIANTS
  TypeOK
  NoLeftoverEcho
  OwnerConverges
  OnlyAgreed
PROPERTY Settles
CHECK_DEADLOCK FALSE
