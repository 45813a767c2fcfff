SPECIFICATION WatchSpec
CONSTANTS
  Names = {"a", "b"}
  MaxDepth = 2
  Ignored <- MCIgnored
  Moves = TRUE
  Trees <- MCTrees
  Kinds = {"create", "delete"}
  QueueLimit = 2
  MaxChanges = 3
INVARIANTS
  SettledIsWatched
  ReportsAreTrue
  OneThread
  CreatedIsReported
CHECK_DEADLOCK FALSE
