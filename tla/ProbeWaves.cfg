CONSTANTS
  Backends = {1}
  Models = {1, 2}
  NoModel = NoModel
  Callers = {c1, c2}
  Gap = 2
  Retries = {1,2}
  ProbeHistoryLen = 1
  MaxTime = 2
SPECIFICATION FairSpec
INVARIANTS OneGeneration BackoffRespected Spaced RetainsNewest
PROPERTY EventuallyFree
