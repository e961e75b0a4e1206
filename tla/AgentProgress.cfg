CONSTANTS
  Pids = {p1, p2}
  NoProcess = NoProcess
  Keys = {k1}
  Readable = {k1}
  Linkable = {}
  Stamping = {TRUE}
  MaxStarts = 2
  MaxSpend = 1
SPECIFICATION FairSpec
PROPERTIES EventuallyReported EventuallyFollowed
CHECK_DEADLOCK FALSE
