SPECIFICATION Spec
CONSTANTS
  Servers = {1, 2}
  Slots = 2
  EntryTtl = 5
  Heartbeat = 2
  Reconnect = 1
  Delay = 1
  TurnLength = 1
  MaxCrashes = 1
INVARIANTS
  LiveServersListed
PROPERTIES
  Relisted
CHECK_DEADLOCK FALSE
