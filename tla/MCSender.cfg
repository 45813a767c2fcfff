SPECIFICATION Spec
CONSTANTS
  a1 = a1
  a2 = a2
  a3 = a3
  a4 = a4
  r1 = r1
  r2 = r2
  Archives = {a1, a2, a3, a4}
  Readers = {r1, r2}
  ListLimit = 1
  Lowest = 1
  First = 2
  Highest = 2
  Elapsed = {"none", "short", "long"}
INVARIANTS
  WithinLimit
  StuckOnlyIfMissed
PROPERTIES
  AllSentThenIdle
CHECK_DEADLOCK FALSE
