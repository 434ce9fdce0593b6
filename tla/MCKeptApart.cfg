SPECIFICATION StorageSpec
CONSTANTS
  Rounds = {r1, r2}
  Accounts = {a1, a2}
  Faults = TRUE
  Crashes = TRUE
  Sessions = {s1}
  Limit = 1
  Window = 2
  MaxMessages = 2
  MaxBytes = 3
  MessageRetention = 2
  FlushInterval = 2
  Sizes = {1, 2}
  ChatFaults = {TRUE, FALSE}
  SeqSpan = 100
  ChatTime = 5
  MaxEvents = 3
  MaxAccepted = 3
  Lobbies = {l1, l2}
  CachedMessages = 2
  MaxContexts = 2
  CacheRetention = 0
  Skew = 0
  CacheTime = 1
  MaxSaid = 3
  MaxMail = 2
  MaxZoom = 1
  MaxRest = 2
  Debounce = 1
  RetryFirst = 1
  RetryMost = 2
  MaxFaults = 2
INVARIANTS
  ContextsStayApart
CHECK_DEADLOCK FALSE
