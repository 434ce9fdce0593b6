------------------------------- MODULE MCLobbies ------------------------------
(***************************************************************************)
(* Two instances of the match server, of which part is the one that moves. *)
(* records: one lobby with a registered player, in any environment, and    *)
(* what it writes of its rounds.  places: two lobbies, one of them made    *)
(* and dropped again, with bots, and where the players are.                *)
(***************************************************************************)
EXTENDS LobbyServer, TLC

VARIABLES
  part,
  seats, voices, lobbies, saved, players, made, played, on, weather

placed == <<seats, voices, lobbies, saved, players, made, played, on, weather>>

Places == INSTANCE LobbyServer WITH
  session <- seats, voice <- voices, lobby <- lobbies, rows <- saved, next_player_id <- players,
  next_lobby_id <- made, rounds <- played, up <- on, environment <- weather,
  PlayerIds <- {1, 2}, MaxSessions <- 2, Accounts <- {}, MaxLobbies <- 2, DefaultLobbies <- 1,
  MaxParticipants <- 2, BotFloor <- 1, BotTarget <- 2, BotWeight <- 1, ResultsTicks <- 1, MaxLobbyId <- 3,
  MaxRounds <- 3, ClientVotes <- {}, Environments <- {"orderly"}

LobbiesInit ==
  /\ part \in {"records", "places"} /\ Init /\ Places!Init
  /\ part = "places" => environment = "orderly"

(* In the rough environment one client connects at a time.                 *)
OneWhenRough ==
  environment = "rough" => Cardinality({s \in Sessions : session'[s].peer /= "none"}) <= 1

RecordsMove == part = "records" /\ Next /\ OneWhenRough /\ UNCHANGED <<part, placed>>
PlacesMove == part = "places" /\ Places!Next /\ UNCHANGED <<part, vars>>
LobbiesNext == RecordsMove \/ PlacesMove

LobbiesSpec == LobbiesInit /\ [][LobbiesNext]_<<part, vars, placed>>

-----------------------------------------------------------------------------
(* The properties of the second instance, stated in LobbyServer.           *)
SeatsInLiveLobbies == Places!SessionsInLiveLobbies /\ Places!CapacityRespected

=============================================================================
