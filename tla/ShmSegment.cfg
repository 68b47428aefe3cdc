SPECIFICATION FairSpec
CONSTANTS
  Producers = {p1, p2}
  Consumers = {c1}
  Inodes = {i1, i2, i3}
  RefModulus = 8
  MaxFrames = 1
  MaxFailures = 1
  NONE = NONE
INVARIANTS
  TypeOK
  OneOwnerPerSegment
  MagicGatesInit
PROPERTY TopicRecovers
CHECK_DEADLOCK FALSE
