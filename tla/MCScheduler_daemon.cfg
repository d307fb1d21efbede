SPECIFICATION FairSpec
CONSTANTS
  Crons = {c}
  Onces = {o}
  Services = {w}
  Triggers = {t}
  Fires = {2, 3}
  Moment = 2
  Horizon = 3
  MaxKills = 1
  MaxEdits = 1
INVARIANT OneRun
PROPERTIES Paced DueRuns
CHECK_DEADLOCK FALSE
