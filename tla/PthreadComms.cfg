CONSTANTS
  Size = 2
  Byte = {0, 1}
  NumSends = 3
  Empty = Empty
SPECIFICATION Spec
INVARIANTS Delivered
PROPERTIES NoOverwrite ImplementsSlot
CHECK_DEADLOCK FALSE
