SPECIFICATION ServedSpec
CONSTANTS
  Producers = {p1}
  Consumers = {c1}
  Inodes = {i1, i2}
  RefModulus = 8
  MaxFrames = 2
  MaxFailures = 0
  NONE = NONE
PROPERTY RestartReaches
CHECK_DEADLOCK FALSE
