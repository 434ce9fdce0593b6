SPECIFICATION Spec
CONSTANTS
  Rounds = {r1, r2}
  Accounts = {a1, a2}
  Faults = FALSE
  Crashes = FALSE
PROPERTIES
  SavesRecordTheRound
CHECK_DEADLOCK FALSE
