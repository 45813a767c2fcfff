CONSTANTS
  Half = 8
  DocIds = {1, 2, 3, 4, 5, 6}
  Weights = {1, 2}
  Differ <- ByRange
  Parts = {1, 2, 3}
  Section <- MCSection
  nLimit = 2
SPECIFICATION FairSpec
INVARIANTS
  TypeOK
  MergedBest
  QuotesFollow
  CountsAll
PROPERTIES
  EveryPartMerged
  ImplementsTopK
CHECK_DEADLOCK FALSE
