SPECIFICATION FairSpec
CONSTANTS
  Workers = {w1, w2}
  Enqueuers = {e1, e2}
  Drainers = {d1}
  Tasks = {t1, t2, t3}
  NONE = NONE
INVARIANTS
  TypeOK
  DrainCovers
  DestructorRunsAll
PROPERTIES
  DrainReturns
  DestructorReturns
CHECK_DEADLOCK FALSE
