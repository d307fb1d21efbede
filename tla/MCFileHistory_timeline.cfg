SPECIFICATION Spec
CONSTANTS
  Paths = {"p", "q"}
  Texts = {"one", "two"}
  MaxTurns = 2
  HooksRewrite = FALSE
  OtherWriters = FALSE
  Notes = FALSE
  Clears = FALSE
  CommandsMidRun = FALSE
  MaxPrompts = 3
  MaxEvents = 8
PROPERTIES IsTimeline RewindRestores RewindExact
CHECK_DEADLOCK FALSE
