SPECIFICATION FairSpec
CONSTANTS
  Files = {f1}
  Calls = {k1, k2}
  Texts = 2
  MaxClients = 2
  Faulty = {1}
INVARIANTS AskedFresh NoStray
PROPERTY CallsReturn
CHECK_DEADLOCK FALSE
