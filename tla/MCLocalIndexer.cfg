SPECIFICATION FairSpec
CONSTANTS
  Parsers = {p1, p2}
  Indexers = {i1}
  main = main
  p1 = p1
  p2 = p2
  i1 = i1
  Texts <- MCTexts
  Archives <- MCArchives
  ArchivesLimit = 1
  TextsLimit = 1
INVARIANTS
  TextsOnce
  AllIndexedUnlessLate
PROPERTIES
  EndsUnlessLate
CHECK_DEADLOCK FALSE
