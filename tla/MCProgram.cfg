SPECIFICATION FairSpec
CONSTANTS
  Workers = {w1, w2}
  Signals = {s1, s2}
  GrpcEnabled = TRUE
  w1 = w1
  w2 = w2
  s1 = s1
  s2 = s2
INVARIANTS
  LastCommitIsLast
  HangsOnlyIfMissed
PROPERTIES
  SignalEnds
CHECK_DEADLOCK FALSE
