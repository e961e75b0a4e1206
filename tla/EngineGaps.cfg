SPECIFICATION Spec
CONSTANTS
  Kind <- MCOther
  Gauge <- MCNoGauge
  HistoryLen = 2
  Buffer = 1
  MaxClock = 3
  MaxTokens = 2
  MaxRestarts = 1
  MaxPosts = 1
INVARIANT RatesAreDeltas
CHECK_DEADLOCK FALSE
