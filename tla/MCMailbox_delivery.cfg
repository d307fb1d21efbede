SPECIFICATION ExclusiveSpec
CONSTANTS
  Recipients = {"ann", "bob", "cy"}
  Killable = {"bob"}
  MaxMessages = 3
INVARIANTS InOrderOnce
CHECK_DEADLOCK FALSE
