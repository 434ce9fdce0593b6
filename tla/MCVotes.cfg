SPECIFICATION VotesSpec
CONSTANTS
  PlayerIds = {1, 2, 3}
  MaxParticipants = 3
  MaxRounds = 2
  MaxSessions = 2
  Accounts = {}
  NoAccount = NoAccount
  ResultsTicks = 2
  ServerRounds = 2
  ClientVotes = {"play_again", "return_to_lobby", "spectate", "none", "out_of_range"}
  Environments = {"orderly"}
INVARIANTS
  TalliesMatchBallots
  EarlyEndIsUnanimousTurnout
PROPERTIES
  VoteIsFrozen
  ImplementsBallot
  IntermissionsEnd
CHECK_DEADLOCK FALSE
