CONSTANTS
  Files = {f1}
  NoFile = NoFile
  Adapters <- AllAdapters
  TailFrames = 1
  OwnerScanLines = 2
  MaxHistory = 2
  MaxLines = 2
  MaxRewrites = 1
  MaxFaults = 1
SPECIFICATION FairSpec
INVARIANTS CreditSound NeverInvents SkipHidesNothing SampleCurrent
PROPERTIES ImplementsMeter EventuallyCounted
CHECK_DEADLOCK FALSE
