SPECIFICATION WatchSpec
CONSTANTS
  Names = {"a", "b"}
  MaxDepth = 2
  Ignored <- MCNone
  Moves = FALSE
  Trees <- MCTrees
  Kinds = {"create"}
  QueueLimit = 3
  MaxChanges = 3
INVARIANT CreationReported
CHECK_DEADLOCK FALSE
