SPECIFICATION Spec
CONSTANTS
  Producers = {p1, p2}
  Consumers = {c1}
  Inodes = {i1, i2, i3}
  RefModulus = 8
  MaxFrames = 1
  MaxFailures = 1
  NONE = NONE
INVARIANT AttachSeesOneRing
CHECK_DEADLOCK FALSE
