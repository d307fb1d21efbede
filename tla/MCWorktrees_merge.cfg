SPECIFICATION WorktreesFairSpec
CONSTANTS
  Agents = {a1, a2}
  Main = main
  Paths = {p, q}
  Tracked = {p}
  absent = absent
  x = x
  Contents = {absent, x, y}
  Absent = absent
  LastCommit <- Committed
  MaxEdits = 3
  MaxFaults = 1
INVARIANT NoWorkLost
PROPERTIES MergesKeep MergesEnd
CHECK_DEADLOCK FALSE
