SPECIFICATION FairSpec
CONSTANTS
  Host = host
  Guests = {g1, g2}
  RateLimit = 1
  MaxSent = 3
INVARIANTS OnceInOrder LeftIsOut
PROPERTIES RolesHold EndReaches
CHECK_DEADLOCK FALSE
