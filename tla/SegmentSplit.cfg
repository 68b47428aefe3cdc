SPECIFICATION Spec
CONSTANTS
  Producers = {p1, p2}
  Consumers = {c1}
  Inodes = {i1, i2, i3}
  RefModulus = 8
  MaxFrames = 1
  MaxFailures = 0
  NONE = NONE
INVARIANT OneOwnerPerTopic
CHECK_DEADLOCK FALSE
