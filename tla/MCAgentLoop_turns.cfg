SPECIFICATION FairSpec
CONSTANTS
  MaxTurns = 2
  MaxContinuations = 1
  MaxStops = 1
  Retries = 1
  MaxParallel = 2
  WrapUp = TRUE
  GateMayThrow = TRUE
  EndMidRun = FALSE
  TornWrites = TRUE
  CommandsMidRun = FALSE
  Optional = {"reminder", "advisor_note"}
  MaxCalls = 3
  MaxPrompts = 1
  MaxBoots = 2
INVARIANTS
  RequestsValid
  SerialBarrier
  BoundedBatch
PROPERTIES
  RunEnds
CHECK_DEADLOCK FALSE
