SPECIFICATION FairSpec
CONSTANTS
  Accounts = {a1, a2}
  Identities = {i1, i2}
  Nobody = nobody
  Codes = {c1}
  Voice = TRUE
  SendsFail = TRUE
  MaxFailures = 1
  MaxTotal = 2
  MaxMessages = 3
INVARIANTS OneTurn AccountsAgree CodeOnce NoneForgotten
PROPERTY AllAnswered
CHECK_DEADLOCK FALSE
