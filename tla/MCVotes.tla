------------------------------- MODULE MCVotes -------------------------------
(***************************************************************************)
(* The vote on a rematch, as a record that any id may vote in and leave,   *)
(* and as the match server drives it with its sessions and ticks.  Each    *)
(* has the state of its own module; part is the one that moves.            *)
(***************************************************************************)
EXTENDS Intermission

CONSTANTS
  MaxSessions, Accounts, NoAccount, ResultsTicks, ServerRounds, ClientVotes, Environments

VARIABLES
  part,
  session, voice, lobby, rows, next_player_id, next_lobby_id, rounds, up, environment

served == <<session, voice, lobby, rows, next_player_id, next_lobby_id, rounds, up, environment>>

Server == INSTANCE LobbyServer WITH
  MaxLobbies <- 1, DefaultLobbies <- 1, MaxLobbyId <- 1, MaxRounds <- ServerRounds, MaxParticipants <- 2,
  BotFloor <- 0, BotTarget <- 0, BotWeight <- 1

ASSUME VotesParameters == Server!ServerParameters

VotesInit == part \in {"record", "server"} /\ Init /\ Server!Init

RecordMoves == part = "record" /\ Next /\ UNCHANGED <<part, served>>
ServerMoves == part = "server" /\ Server!Next /\ UNCHANGED <<part, vars>>

VotesNext == RecordMoves \/ ServerMoves

(* Every turn of the main loop ticks every lobby, while the server is the  *)
(* part that moves.                                                        *)
TicksGoOn == \A l \in Server!Slots : WF_served(part = "server" /\ Server!Tick(l))

VotesSpec == VotesInit /\ [][VotesNext]_<<part, vars, served>> /\ TicksGoOn

-----------------------------------------------------------------------------
(* The property of the server that is checked here, stated in LobbyServer. *)
IntermissionsEnd == Server!IntermissionsEnd

=============================================================================
