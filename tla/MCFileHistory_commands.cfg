SPECIFICATION Spec
CONSTANTS
  Paths = {"p"}
  Texts = {"one"}
  MaxTurns = 2
  HooksRewrite = TRUE
  OtherWriters = TRUE
  Notes = TRUE
  Clears = TRUE
  CommandsMidRun = TRUE
  MaxPrompts = 2
  MaxEvents = 4
PROPERTY RedoInvertsRewind
CHECK_DEADLOCK FALSE
