CONSTANTS
  Size = 2
  Word = 4
  Byte = {0, 1}
  NumSends = 4
  Empty = Empty
  None = None
  Tiles = 3
  Layouts <- DistinctLayouts
  Calls = 2
  Sends = 2
SPECIFICATION RunSpec
INVARIANTS Returned StuckNotWrong
PROPERTIES ImplementsSlotSafety Completes
CHECK_DEADLOCK FALSE
