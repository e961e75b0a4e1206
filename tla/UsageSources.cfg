SPECIFICATION Spec
CONSTANTS
  Dbs = {"inner", "outer"}
  Walks <- MCWalks
  Ids = {"a"}
  Agents = {"crush", "opencode"}
  Seconds = TRUE
  Hides = TRUE
  MaxClock = 2
  MaxWrites = 3
INVARIANT ReadingComplete
PROPERTY ImplementsMeter
CHECK_DEADLOCK FALSE
