CONSTANTS
  Files <- MCFiles
  Remains <- MCRemains
  MaxTime = 6
  Skeletons <- MCSkeletons
  CommandLines <- MCCommandLines
  Width = 24
SPECIFICATION Spec
INVARIANTS Exclusive OperandsInTime AliasesTogether CriticalBound AllPlaced ClonedOnce ArgumentsKept NumbersRead
PROPERTIES IsGoalSearch Finishes
CHECK_DEADLOCK FALSE
