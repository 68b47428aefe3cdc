SPECIFICATION FairSpec
CONSTANTS
  NumSlots = 3
  Consumers = {c1, c2}
  RetainTries = 2
  MaxLoad = 5
  Mortal = {c2}
  LAST_NONE = LAST_NONE
INVARIANTS
  TypeOK
  RetainedFrameIntact
  RefcountExact
  RetainMissNeedsChurn
  StarvedOnlyWhenFull
PROPERTIES
  ImplementsLatestFrame
  StarvedProducerProceeds
CHECK_DEADLOCK FALSE
