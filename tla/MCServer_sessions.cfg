SPECIFICATION FairSpec
CONSTANTS
  Sessions = {"s"}
  Clients = {c1, c2}
  MaxRecords = 2
  MaxTurns = 2
  MaxQuestions = 1
INVARIANTS OneSend NothingLost
PROPERTY RunsEnd
CHECK_DEADLOCK FALSE
