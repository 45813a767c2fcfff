SPECIFICATION FairSpec
CONSTANTS
  Section = 2
  MaxBound = 10
  HitSets <- MCHitSets
  nThreads = 2
  Spurious = TRUE
INVARIANTS
  ZeroMeansMerged
  NoneOutlivesSearch
PROPERTIES
  WaitingIsWoken
  ActionsEnd
CHECK_DEADLOCK FALSE
