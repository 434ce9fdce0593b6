------------------------------- MODULE MCTraffic ------------------------------
(***************************************************************************)
(* A match that runs: the world of its lobby, and what travels between a   *)
(* client and the server, inputs up, colonies and collectibles down, voice *)
(* in both directions.  The parts do not touch each other's state; part is *)
(* the one that moves.                                                     *)
(* The inputs of an honest client: a burst of three inputs, one more token *)
(* in each slot of two time units; those of any origin have sequence       *)
(* numbers that wrap at eight.                                             *)
(***************************************************************************)
EXTENDS Traffic, TLC

ASSUME AStallFits == StallFitsBurst

VARIABLES
  part,
  arena, phase, owner, inMatch,
  lobbies, session, viewer, packets, acks, control

arenaVars == <<arena, phase, owner, inMatch>>
colonies == <<lobbies, session, viewer, packets, acks, control>>

(* A player and a bot, whose colonies have at most two pieces.             *)
Arena == INSTANCE Colony WITH
  world <- arena, entered <- inMatch,
  People <- {"a"}, Bots <- {"z"}, NoOne <- "none", Capacity <- 3, MaxPieces <- 2, SplitMass <- 2, MaxMass <- 3,
  Protection <- 2, SplitProtection <- 1, MergeDelay <- 1, Lives <- 2, MaxMeets <- 2, MaxDeaths <- 1

ASSUME ColonyParameters == Arena!ColonyParameters

(* Two records, one of them moving, leaving for the edge, or replaced.     *)
entity(relation, place, body, site) ==
  [relation |-> relation, place |-> place, body |-> body, site |-> site]
Populations ==
  {(1 :> entity("own", "near", 1, 1)) @@ (2 :> entity("other", "near", 1, 1)),
   (1 :> entity("own", "near", 1, 2)) @@ (2 :> entity("other", "edge", 1, 1)),
   (1 :> entity("own", "near", 1, 1)) @@ (3 :> entity("threat", "edge", 2, 1))}

Colonies == INSTANCE SnapshotReplication WITH
  client <- viewer, wire <- packets, Components <- {"body", "site"}, Worlds <- Populations, Lobbies <- {1, 2},
  Start <- <<0, 10>>, MaxPlayers <- 3, HistorySize <- 2, ChunkRecords <- 1, KeyframeTicks <- 4, TickRate <- 3,
  SnapshotRate <- 2, MaxTicks <- 4

Parts == {"arena", "gate", "pipeline", "colonies", "collectibles", "relay", "streams", "playback"}

TrafficInit ==
  /\ part \in Parts
  /\ Init /\ Arena!Init /\ Gate!Init /\ Colonies!Init /\ Relay!Init /\ Streams!Init /\ Playback!Init
  /\ Collectibles!Init /\ (part /= "collectibles" => world = [slot \in WorldSlots |-> [value |-> 1, shown |-> FALSE]])

ArenaMoves == part = "arena" /\ Arena!Next
  /\ UNCHANGED <<part, vars, gate, colonies, collectibles, relay, streams, playback>>
GateMoves == part = "gate" /\ Gate!Next
  /\ UNCHANGED <<part, arenaVars, vars, colonies, collectibles, relay, streams, playback>>
PipelineMoves == part = "pipeline" /\ Next
  /\ UNCHANGED <<part, arenaVars, gate, colonies, collectibles, relay, streams, playback>>
ColoniesMove == part = "colonies" /\ Colonies!Next
  /\ UNCHANGED <<part, arenaVars, vars, gate, collectibles, relay, streams, playback>>
CollectiblesMove == part = "collectibles" /\ Collectibles!Next
  /\ UNCHANGED <<part, arenaVars, vars, gate, colonies, relay, streams, playback>>
RelayMoves == part = "relay" /\ Relay!Next
  /\ UNCHANGED <<part, arenaVars, vars, gate, colonies, collectibles, streams, playback>>
StreamsMove == part = "streams" /\ Streams!Next
  /\ UNCHANGED <<part, arenaVars, vars, gate, colonies, collectibles, relay, playback>>
PlaybackMoves == part = "playback" /\ Playback!Next
  /\ UNCHANGED <<part, arenaVars, vars, gate, colonies, collectibles, relay, streams>>

TrafficNext ==
  \/ ArenaMoves \/ GateMoves \/ PipelineMoves \/ ColoniesMove \/ CollectiblesMove \/ RelayMoves \/ StreamsMove \/ PlaybackMoves

TrafficSpec ==
  TrafficInit /\ [][TrafficNext]_<<part, vars, arenaVars, gate, colonies, collectibles, relay,
                                  streams, playback>>

-----------------------------------------------------------------------------
(* The properties of these parts, each stated in the module of its part.   *)
PointersAreRight == Arena!PointersAreRight
OneLife == Arena!OneLife
DeathsAreLives == Arena!DeathsAreLives
ShownIsSent == Colonies!ShownIsSent

=============================================================================
