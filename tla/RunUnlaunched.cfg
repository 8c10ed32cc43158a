CONSTANTS
  Functions <- LoopOnly
  Cores = 3
  OtherPartitions = {2}
  Empty = Empty
  ArgValues = {0}
SPECIFICATION Spec
PROPERTIES Joins
CHECK_DEADLOCK FALSE
