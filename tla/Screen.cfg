CONSTANTS
  Buffer = 1
  MarkerLife = 1
  Wanted = 2
  MaxTime = 2
  MaxFrames = 3
SPECIFICATION Spec
PROPERTIES ShownInOrder NeverStale
CHECK_DEADLOCK FALSE
