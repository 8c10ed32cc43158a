CONSTANTS
  Host = "host"
  Cores = {"A", "B"}
  Addr = {"x", "y"}
  Schedules <- CalledTwice
SPECIFICATION Spec
INVARIANTS Matched
CHECK_DEADLOCK FALSE
