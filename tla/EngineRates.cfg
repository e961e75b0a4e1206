SPECIFICATION Spec
CONSTANTS
  Kind <- MCVllm
  Gauge <- MCVllmGauge
  HistoryLen = 2
  Buffer = 1
  MaxClock = 3
  MaxTokens = 1
  MaxRestarts = 1
  MaxPosts = 1
INVARIANTS CreditExact RingInOrder
PROPERTY NeverStalls
CHECK_DEADLOCK FALSE
