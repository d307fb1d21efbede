SPECIFICATION CompactionSpec
CONSTANTS
  Weights = {1, 20}
  Threshold = 30
  MaxItems = 10
INVARIANT Recallable
CHECK_DEADLOCK FALSE
