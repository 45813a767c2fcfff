SPECIFICATION Spec
CONSTANTS
  t1 = t1
  t2 = t2
  d1 = d1
  d2 = d2
  m1 = m1
  a = a
  b = b
  Threads = {t1, t2}
  Docs = {d1, d2}
  Metas = {m1}
  Tags = {a, b}
  Ids <- MCIds
  Configs <- MCConfigs
  MaxStarts = 2
SYMMETRY Symmetry
CONSTRAINT OneAtATime
INVARIANTS
  ReadAsStored
  MappedAtExit
  AnsweredIsDurable
PROPERTIES
  NumbersAreForEver
CHECK_DEADLOCK FALSE
