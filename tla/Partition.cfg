CONSTANTS
  Functions <- MCFunctions
  Configs <- MCConfigs
  MaxTime = 6
SPECIFICATION Spec
INVARIANTS MemoryOnZero Exclusive Respected
PROPERTIES IsGoalSearch AllPlaced
CHECK_DEADLOCK FALSE
