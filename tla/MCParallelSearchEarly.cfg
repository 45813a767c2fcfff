SPECIFICATION Spec
CONSTANTS
  Section = 2
  MaxBound = 10
  HitSets <- MCHitSets
  nThreads = 2
  Spurious = FALSE
INVARIANT WaitsUntilFinished
CHECK_DEADLOCK FALSE
