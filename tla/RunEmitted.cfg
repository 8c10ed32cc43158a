CONSTANTS
  Functions <- AllFunctions
  Cores = 3
  OtherPartitions = {}
  Empty = Empty
  ArgValues = {0, 2}
SPECIFICATION FewSpec
INVARIANTS CommonOrder Paired OperandsLocal PeersLaunched Equivalent SamePath Drained
PROPERTIES Joins
CHECK_DEADLOCK FALSE
