CONSTANTS
  Functions <- PointerFunctions
  Configs <- DefaultConfigs
  MaxTime = 6
SPECIFICATION Spec
INVARIANT PointersLocal
CHECK_DEADLOCK FALSE
