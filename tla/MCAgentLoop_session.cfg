SPECIFICATION Spec
CONSTANTS
  MaxTurns = 2
  MaxContinuations = 0
  MaxStops = 0
  Retries = 0
  MaxParallel = 2
  WrapUp = FALSE
  GateMayThrow = FALSE
  EndMidRun = FALSE
  TornWrites = FALSE
  CommandsMidRun = FALSE
  Optional = {"compaction", "mode_change"}
  MaxCalls = 2
  MaxPrompts = 2
  MaxBoots = 2
INVARIANTS
  RequestsValid
  ResumeValid
PROPERTIES
  AbortStops
CHECK_DEADLOCK FALSE
