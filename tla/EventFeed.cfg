SPECIFICATION Spec
CONSTANTS
  Senders = {1, 2}
  Lines = 2
  Key <- MCKey
  Own <- MCOwn
  Resuming = {2}
  Claimed <- MCClaimed
  Cap = 3
  Skew = 1
  Lifetime = 2
  MaxClock = 1
  MaxTries = 3
  MaxReports = 1
INVARIANTS FeedSound RetriedOnce ToldIsRecorded
PROPERTIES AlwaysEnds ImplementsLog
CHECK_DEADLOCK FALSE
