SPECIFICATION FairSpec
CONSTANTS
  Senders = {s1, s2}
  Frames <- MCFrames
  Base = 3
  MaxFrameBytes = 3
  FirstSize = 2
  SockBuf = 6
  MaxSends = 3
INVARIANTS
  TypeOK
  FramesIntact
PROPERTY AllArrive
CHECK_DEADLOCK FALSE
