CONSTANTS
  Pids = {p1, p2}
  NoProcess = NoProcess
  Keys = {k1, k2}
  Readable = {k1}
  Linkable = {p1, p2}
  Stamping = {TRUE, FALSE}
  MaxStarts = 2
  MaxSpend = 2
SPECIFICATION Spec
SYMMETRY PidSymmetry
INVARIANTS NoOrphan ReuseCountsOnce NothingLost LabelsSettled
CHECK_DEADLOCK FALSE
