CONSTANTS
  Host = "host"
  Cores = {"A", "B"}
  Addr = {"x", "y"}
  Schedules <- MCSchedules
SPECIFICATION WellFormedSpec
INVARIANTS Matched NoStuck JoinComplete
PROPERTIES Terminates
CHECK_DEADLOCK FALSE
