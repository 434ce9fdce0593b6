SPECIFICATION LobbiesSpec
CONSTANTS
  PlayerIds = {1, 2}
  MaxSessions = 2
  Accounts = {a1}
  NoAccount = NoAccount
  MaxLobbies = 1
  DefaultLobbies = 1
  MaxParticipants = 2
  BotFloor = 0
  BotTarget = 0
  BotWeight = 1
  ResultsTicks = 1
  MaxLobbyId = 1
  MaxRounds = 2
  ClientVotes = {"play_again", "return_to_lobby", "spectate"}
  Environments = {"orderly", "rough"}
INVARIANTS
  
  RowsFollowRounds
  SeatsInLiveLobbies
  VotersArePresent
PROPERTIES
  OnlyVotersContinue
CHECK_DEADLOCK FALSE
