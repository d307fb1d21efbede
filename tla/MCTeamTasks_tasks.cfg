SPECIFICATION FairSpec
CONSTANTS
  Mates = {m1, m2}
  Files = {"f"}
  MaxTasks = 2
  Mortal = {m1}
  Slow = {}
INVARIANTS MutualExclusion ClaimedOnce NoOverlap
PROPERTIES IsBoard NeverWedged
CHECK_DEADLOCK FALSE
