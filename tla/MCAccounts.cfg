SPECIFICATION AccountsSpec
CONSTANTS
  Threads = {t1, t2}
  Families = {f1, f2}
  Names = {n1}
  Faults = TRUE
  MaxPairs = 3
INVARIANTS
  OneLiveRefresh
  AnswersAreCommitted
  SessionIsStored
  OnlyStrayedAreReused
PROPERTIES
  ImplementsSessions
  LockIsReleased
CHECK_DEADLOCK FALSE
