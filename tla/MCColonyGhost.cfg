SPECIFICATION Spec
CONSTANTS
  a = a
  b = b
  z = z
  NoOne = NoOne
  People = {a, b}
  Bots = {}
  Capacity = 3
  MaxPieces = 3
  SplitMass = 2
  MaxMass = 3
  Protection = 2
  SplitProtection = 1
  MergeDelay = 1
  Lives = 2
  MaxMeets = 2
  MaxDeaths = 1
SYMMETRY PlayersAlike
INVARIANTS
  NoGhosts
