CONSTANTS
  Files <- MCFiles
  Remains <- MCRemains
  MaxTime = 6
  Skeletons <- MCSkeletons
  CommandLines <- MCCommandLines
  Width = 24
SPECIFICATION Spec
INVARIANT EarlierOperands
CHECK_DEADLOCK FALSE
