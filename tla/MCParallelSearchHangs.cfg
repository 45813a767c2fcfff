SPECIFICATION FairSpec
CONSTANTS
  Section = 2
  MaxBound = 10
  HitSets <- MCHitSets
  nThreads = 2
  Spurious = FALSE
PROPERTY SearchReturns
CHECK_DEADLOCK FALSE
