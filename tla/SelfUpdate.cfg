SPECIFICATION Spec
CONSTANTS
  Systems = {"unix", "windows"}
  Updaters = {u1, u2}
  MaxReleases = 2
  MaxStarts = 4
INVARIANTS NeverBare
PROPERTY LandsInSession
CHECK_DEADLOCK FALSE
