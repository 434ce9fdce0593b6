SPECIFICATION FlowSpec
CONSTANTS
  Capacity = 2
  Preferred = 2
  RoundSpan = 8
  Servers = {1, 2}
  Listings <- Found
  FirstRound = 6
  MaxRounds = 1
  MaxMail = 1
  MaxLosses = 1
INVARIANTS
  OfflineIsOffline
CHECK_DEADLOCK FALSE
