SPECIFICATION ClientSpec
CONSTANTS
  Ports = {1}
  MaxOutages = 1
INVARIANTS LossIsExplained CloseComplete
PROPERTY NothingHangs
CHECK_DEADLOCK FALSE
