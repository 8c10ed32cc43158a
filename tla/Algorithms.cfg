CONSTANTS
  MaxTime = 9
  NumBlocks = 4
  Terminators <- UpToTwo
SPECIFICATION AlgorithmsSpec
INVARIANTS Exact NearlyExact QueryBound DominatorsFirst NothingDropped
PROPERTIES Ends
CHECK_DEADLOCK FALSE
