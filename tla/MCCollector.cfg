CONSTANTS
  Half = 8
  DocIds = {1, 2, 3, 4, 5}
  Weights = {1, 2}
  Differ <- ByRange
  nFirst = 2
  ncount = 2
  MaxTerms = 2
  MaxSets = 2
  MaxPositions = 3
  Sources <- MCSources
SPECIFICATION Spec
INVARIANTS
  BestKept
  WorstIsCurrent
  QuotesFollow
  StoreNeverOverflows
  ReportIsPage
  CopiesAreBest
PROPERTY ImplementsTopK
CHECK_DEADLOCK FALSE
