---------------------------- MODULE LobbyServer ------------------------------
(***************************************************************************)
(* The match server of src/server/main.c: one thread that, in each turn of *)
(* its loop, handles the ENet events that have arrived (connections,       *)
(* packets, disconnections) and then ticks every lobby.  An event or the   *)
(* tick of one lobby is one action; packets of different clients arrive in *)
(* any order, and any number of them between two ticks.                    *)
(*                                                                         *)
(* Session slots keep what main.c keeps in ServerSession; a session's      *)
(* colony in the world is known by its player id.  Bots are a number:      *)
(* their ids come from the counter that numbers the players, and only      *)
(* their being fresh matters.  The database is the function rows from      *)
(* round uuids to rows of the sessions table (MatchPersistence details the *)
(* transaction behind it).                                                 *)
(***************************************************************************)
EXTENDS RematchVote, Sequences

CONSTANTS
  MaxSessions,       \* SHROOM_SERVER_MAX_CLIENTS: session slots
  Accounts,          \* registered users
  NoAccount,         \* a session without an account
  MaxLobbies,        \* SHROOM_MAX_LOBBIES: lobby slots
  DefaultLobbies,    \* SHROOM_LOBBY_DEFAULT_COUNT: lobbies created at boot
  MaxParticipants,   \* SHROOM_MAX_PARTICIPANTS, also SHROOM_MAX_PLAYABLE_PARTICIPANTS
  BotFloor,          \* SHROOM_BOT_FLOOR
  BotTarget,         \* SHROOM_BOT_TARGET_TOTAL
  BotWeight,         \* SHROOM_BOT_REAL_PLAYER_WEIGHT
  ResultsTicks,      \* bound: ticks of a results phase
  MaxLobbyId,        \* bound: lobbies ever created
  MaxRounds,         \* bound: rounds ever begun
  ClientVotes,       \* bound: the votes that clients send
  Environments       \* subset of {"orderly", "rough"}: where the server runs

ASSUME ServerParameters ==
  /\ MaxSessions \in Nat \ {0} /\ MaxLobbies \in Nat \ {0}
  /\ DefaultLobbies \in 1..MaxLobbies /\ MaxLobbyId \in Nat /\ DefaultLobbies <= MaxLobbyId
  /\ MaxParticipants \in Nat \ {0} /\ BotFloor \in Nat /\ BotTarget \in Nat /\ BotWeight \in Nat
  /\ ResultsTicks \in Nat \ {0} /\ MaxRounds \in Nat /\ DefaultLobbies <= MaxRounds
  /\ ClientVotes \subseteq WireVotes /\ Environments \subseteq {"orderly", "rough"}
  /\ NoAccount \notin Accounts
  /\ 0 \notin PlayerIds /\ PlayerIds \subseteq Nat

Sessions == 1..MaxSessions
Slots == 1..MaxLobbies

VARIABLES
  session,         \* sessions[], with the state of the ENet peer that owns the slot
  voice,           \* voice_relay.peers[]: connected, lobby_id, player_id
  lobby,           \* lobbies[]
  rows,            \* the sessions table: round uuid -> row
  next_player_id, next_lobby_id,
  rounds,          \* round uuids generated so far
  up,              \* FALSE once the main loop has ended
  environment      \* where this execution takes place

vars == <<session, voice, lobby, rows, next_player_id, next_lobby_id, rounds, up, environment>>

(* In an orderly environment no database call fails and clients say HELLO  *)
(* first and keep to one live session per account.                         *)
Orderly == environment = "orderly"
DatabaseOutcomes == IF Orderly THEN {TRUE} ELSE BOOLEAN

-----------------------------------------------------------------------------
(* Sessions, lobbies and who is where *)

(* Bound: every vote under way can still begin the round that follows it.  *)
RoundsLeft == rounds + Cardinality({l \in Slots : lobby[l].active /\ lobby[l].phase = "results"}) < MaxRounds

(* A zeroed ServerSession.  peer is the state of the ENet peer whose data  *)
(* points at the slot, "none" when no peer does.                           *)
NoSession ==
  [ peer |-> "none", active |-> FALSE, account |-> NoAccount, spectating |-> FALSE,
    is_ready |-> FALSE, entered_match |-> FALSE, lobby_id |-> 0, player_id |-> 0,
    player |-> FALSE ]

(* A zeroed ShroomLobby.  colonies are the player ids with pieces in the   *)
(* world, stats those with a round_stats slot; the participants are keyed  *)
(* by account, since a second entry of an account reuses the first.        *)
NoLobby ==
  [ active |-> FALSE, is_dynamic |-> FALSE, lobby_id |-> 0, phase |-> "running",
    results_left |-> 0, colonies |-> {}, stats |-> {}, bots |-> 0, empty |-> FALSE,
    intermission |-> NoIntermission, next_round_id |-> 0, round |-> 0,
    participants |-> [a \in {} |-> NoAccount] ]

(* host->peers[i].data is s, active, with the lobby's id *)
Here(s, lob) ==
  session[s].peer # "none" /\ session[s].active /\ session[s].lobby_id = lob.lobby_id

RealPlayers(lob) == {s \in Sessions : Here(s, lob) /\ ~session[s].spectating}
(* Slip: only the spectators that watch the match count as present. *)
SpectatorsWatching(lob) ==
  {s \in Sessions : Here(s, lob) /\ session[s].spectating /\ session[s].entered_match}

Spectators(lob) == {s \in Sessions : Here(s, lob) /\ session[s].spectating}

(* FindLobbyById: the slots (at most one) whose lobby has this id *)
Find(id) == {l \in Slots : id # 0 /\ lobby[l].active /\ lobby[l].lobby_id = id}

(* GetLobbyBotTarget *)
BotTargetFor(real) ==
  LET weighted == real * BotWeight
      room == IF real >= MaxParticipants THEN 0 ELSE MaxParticipants - real
      wanted == IF weighted >= BotTarget THEN BotFloor ELSE BotTarget - weighted
      floored == IF wanted < BotFloor /\ room >= BotFloor THEN BotFloor ELSE wanted
  IN IF floored > room THEN room ELSE floored

(* ShroomLobbyPlanAdmission: the bots that make room for one more player,  *)
(* and whether the lobby takes it.                                         *)
BotsToRemove(real, bots) ==
  IF real + bots < MaxParticipants THEN 0 ELSE real + bots - MaxParticipants + 1

Admits(real, bots) == real < MaxParticipants /\ BotsToRemove(real, bots) <= bots

-----------------------------------------------------------------------------
(* The participants of a round and the database *)

(* RegisterPersistenceParticipant on the participants ps of a lobby.       *)
(* lives is a history variable: the player ids of the account that have    *)
(* been through a tick of this round.                                      *)
Register(ps, s) ==
  IF s.spectating \/ s.player_id = 0 \/ s.account = NoAccount
     \/ (\E a \in DOMAIN ps : ps[a].runtime = s.player_id)
  THEN ps
  ELSE IF s.account \in DOMAIN ps
  THEN [ps EXCEPT ![s.account].runtime = s.player_id, ![s.account].disconnected = FALSE]
  ELSE IF Cardinality(DOMAIN ps) >= MaxParticipants THEN ps
  ELSE [ a \in DOMAIN ps \cup {s.account} |->
           IF a \in DOMAIN ps THEN ps[a]
           ELSE [ runtime |-> s.player_id, disconnected |-> FALSE, counted |-> <<>>,
                  lives |-> {} ] ]

(* CapturePersistenceParticipant: the participant with this player id gets *)
(* the statistics the world holds for it, if it still holds any.           *)
Capture(lob, id, disconnected) ==
  [ a \in DOMAIN lob.participants |->
      LET p == lob.participants[a] IN
      IF p.runtime # id THEN p
      ELSE [ p EXCEPT !.disconnected = @ \/ disconnected,
                      !.counted = IF id \in lob.stats THEN Append(@, id) ELSE @ ] ]

(* PersistLobbyRound, first half: the participants that did not leave.     *)
CaptureRemaining(lob) ==
  [ a \in DOMAIN lob.participants |->
      IF lob.participants[a].disconnected THEN lob.participants[a]
      ELSE Capture(lob, lob.participants[a].runtime, FALSE)[a] ]

(* PersistLobbyRound, second half: ShroomMatchPersistenceSave.  A row that *)
(* is no longer active is left alone (ALREADY_SAVED); a missing one is     *)
(* inserted; a failure is only logged.                                     *)
SaveRow(table, lob, participants, interrupted, ok) ==
  IF ~ok \/ (lob.round \in DOMAIN table /\ table[lob.round].status # "active") THEN table
  ELSE [ u \in DOMAIN table \cup {lob.round} |->
           IF u # lob.round THEN table[u]
           ELSE [ lobby_id |-> lob.lobby_id,
                  round_id |-> IF u \in DOMAIN table THEN table[u].round_id
                               ELSE lob.next_round_id + 1,
                  status |-> IF interrupted THEN "aborted" ELSE "completed",
                  participants |-> participants ] ]

(* BeginLobbyPersistenceRound: a fresh uuid, no participants, and a row of *)
(* status active unless the INSERT fails.                                  *)
BeginRow(table, uuid, lob, ok) ==
  IF ~ok THEN table
  ELSE [ u \in DOMAIN table \cup {uuid} |->
           IF u # uuid THEN table[u]
           ELSE [ lobby_id |-> lob.lobby_id, round_id |-> lob.next_round_id + 1,
                  status |-> "active", participants |-> NoLobby.participants ] ]

BeginRound(lob, uuid) == [lob EXCEPT !.round = uuid, !.participants = NoLobby.participants]

-----------------------------------------------------------------------------
(* Start *)

(* CreateLobby in a free slot, with its bots. *)
CreatedLobby(id, dynamic, uuid) ==
  [ NoLobby EXCEPT !.active = TRUE, !.lobby_id = id, !.is_dynamic = dynamic, !.round = uuid,
                   !.bots = BotTargetFor(0) ]

(* main: DefaultLobbies lobbies, each with the row of its first round. *)
Init ==
  /\ session = [s \in Sessions |-> NoSession]
  /\ voice = [s \in Sessions |-> [connected |-> FALSE, lobby_id |-> 0, player_id |-> 0]]
  /\ lobby = [l \in Slots |-> IF l <= DefaultLobbies THEN CreatedLobby(l, FALSE, l) ELSE NoLobby]
  /\ rows = [u \in 1..DefaultLobbies |->
               [ lobby_id |-> u, round_id |-> 1, status |-> "active",
                 participants |-> NoLobby.participants ]]
  /\ next_player_id = 1
  /\ next_lobby_id = DefaultLobbies + 1
  /\ rounds = DefaultLobbies
  /\ up = TRUE
  /\ environment \in Environments

-----------------------------------------------------------------------------
(* Connections *)

Connected(s) == up /\ session[s].peer = "connected"

(* ShroomVoiceRelaySetPeer(voice_relay, s, TRUE, id, player_id) *)
SetVoice(s, id, player_id) ==
  voice' = [voice EXCEPT ![s] = [connected |-> TRUE, lobby_id |-> id, player_id |-> player_id]]

(* ENET_EVENT_TYPE_CONNECT: the slot is taken over as it is. *)
Connect(s) ==
  /\ up /\ session[s].peer = "none"
  /\ session' = [session EXCEPT ![s].peer = "connected"]
  /\ SetVoice(s, 0, 0)
  /\ UNCHANGED <<lobby, rows, next_player_id, next_lobby_id, rounds, up, environment>>

(* enet_peer_disconnect by the server, after a HELLO of another protocol   *)
(* version or a third invalid input: no packet of the peer is handled any  *)
(* more, but its session stays until the DISCONNECT event.                 *)
DropPeer(s) ==
  /\ Connected(s)
  /\ session' = [session EXCEPT ![s].peer = "disconnecting"]
  /\ UNCHANGED <<voice, lobby, rows, next_player_id, next_lobby_id, rounds, up, environment>>

(* What a departing session leaves in its lobby: no vote, its statistics   *)
(* captured while the world still has them, no colony.                     *)
(* Slip: the statistics are read after the colony is gone. *)
DepartThenCapture(lob, s) ==
  LET gone == [ lob EXCEPT !.intermission = RemoveVoter(@, s.player_id),
                           !.colonies = @ \ {s.player_id}, !.stats = @ \ {s.player_id} ]
  IN IF s.entered_match THEN [gone EXCEPT !.participants = Capture(gone, s.player_id, TRUE)]
     ELSE gone

(* Slip: the vote of a player that left stays in the ballot. *)
DepartKeepingVote(lob, s) ==
  [ lob EXCEPT !.participants = IF s.entered_match THEN Capture(lob, s.player_id, TRUE) ELSE @,
               !.colonies = @ \ {s.player_id}, !.stats = @ \ {s.player_id} ]

Depart(lob, s) ==
  [ lob EXCEPT !.intermission = RemoveVoter(@, s.player_id),
               !.participants = IF s.entered_match THEN Capture(lob, s.player_id, TRUE) ELSE @,
               !.colonies = @ \ {s.player_id}, !.stats = @ \ {s.player_id} ]

(* ENET_EVENT_TYPE_DISCONNECT: DisconnectSession clears an active session  *)
(* and does nothing to one that never said HELLO.                          *)
Disconnect(s) ==
  /\ up /\ session[s].peer # "none"
  /\ lobby' = [l \in Slots |-> IF l \in Find(session[s].lobby_id) THEN Depart(lobby[l], session[s])
                               ELSE lobby[l]]
  /\ session' = [session EXCEPT ![s] = IF @.active THEN NoSession ELSE [@ EXCEPT !.peer = "none"]]
  /\ voice' = [voice EXCEPT ![s] = [connected |-> FALSE, lobby_id |-> 0, player_id |-> 0]]
  /\ UNCHANGED <<rows, next_player_id, next_lobby_id, rounds, up, environment>>

-----------------------------------------------------------------------------
(* Packets.  HandlePacket dispatches them for connected peers only. *)

(* HandleHelloPacket *)
HandleHello(s) ==
  /\ Connected(s) /\ ~session[s].active
  /\ session' = [session EXCEPT ![s].active = TRUE]
  /\ UNCHANGED <<voice, lobby, rows, next_player_id, next_lobby_id, rounds, up, environment>>

(* HandleAuthRequestPacket, when a login or registration succeeds.  It     *)
(* asks for no HELLO; courteous clients send one first.                    *)
HandleAuthRequest(s, account) ==
  /\ Connected(s) /\ session[s].account = NoAccount
  /\ Orderly => session[s].active /\ \A t \in Sessions : session[t].account # account
  /\ session' = [session EXCEPT ![s].account = account]
  /\ UNCHANGED <<voice, lobby, rows, next_player_id, next_lobby_id, rounds, up, environment>>

(* HandleLobbyCreate and CreateLobby: without a free slot the id is spent  *)
(* and nothing else happens.                                               *)
HandleLobbyCreate(s, ok) ==
  /\ Connected(s) /\ session[s].active /\ next_lobby_id <= MaxLobbyId /\ RoundsLeft
  /\ next_lobby_id' = next_lobby_id + 1
  /\ LET free == {l \in Slots : ~lobby[l].active}
         l == CHOOSE i \in free : \A j \in free : i <= j
         created == CreatedLobby(next_lobby_id, TRUE, rounds + 1)
     IN IF free = {} THEN UNCHANGED <<lobby, rows, rounds>>
        ELSE /\ lobby' = [lobby EXCEPT ![l] = created]
             /\ rows' = BeginRow(rows, rounds + 1, created, ok)
             /\ rounds' = rounds + 1
  /\ UNCHANGED <<session, voice, next_player_id, up, environment>>

(* HandleLobbyJoin of a player, then of a spectator. *)
JoinAsPlayer(s, l) ==
  LET lob == lobby[l]
      real == Cardinality(RealPlayers(lob))
  IN /\ Connected(s) /\ session[s].active /\ session[s].lobby_id = 0
     /\ lob.active /\ Admits(real, lob.bots) /\ next_player_id \in PlayerIds
     /\ lobby' = [ lobby EXCEPT ![l].bots = @ - BotsToRemove(real, @),
                                ![l].colonies = @ \cup {next_player_id},
                                ![l].stats = @ \cup {next_player_id} ]
     /\ session' = [ session EXCEPT ![s] =
          [@ EXCEPT !.lobby_id = lob.lobby_id, !.player_id = next_player_id, !.player = TRUE,
                    !.spectating = FALSE, !.is_ready = FALSE, !.entered_match = FALSE] ]
     /\ next_player_id' = next_player_id + 1
     /\ SetVoice(s, lob.lobby_id, next_player_id)
     /\ UNCHANGED <<rows, next_lobby_id, rounds, up, environment>>

(* The world has no slot left for a piece: the bots and the id are spent. *)
JoinFails(s, l) ==
  LET lob == lobby[l]
      real == Cardinality(RealPlayers(lob))
  IN /\ Connected(s) /\ session[s].active /\ session[s].lobby_id = 0
     /\ lob.active /\ Admits(real, lob.bots) /\ next_player_id \in PlayerIds
     /\ lobby' = [lobby EXCEPT ![l].bots = @ - BotsToRemove(real, @)]
     /\ session' = [ session EXCEPT ![s].spectating = FALSE, ![s].is_ready = FALSE,
                                    ![s].entered_match = FALSE ]
     /\ next_player_id' = next_player_id + 1
     /\ UNCHANGED <<voice, rows, next_lobby_id, rounds, up, environment>>

JoinAsSpectator(s, l) ==
  /\ Connected(s) /\ session[s].active /\ session[s].lobby_id = 0 /\ lobby[l].active
  /\ session' = [ session EXCEPT ![s] =
       [@ EXCEPT !.lobby_id = lobby[l].lobby_id, !.spectating = TRUE, !.is_ready = FALSE,
                 !.entered_match = FALSE] ]
  /\ SetVoice(s, lobby[l].lobby_id, session[s].player_id)
  /\ UNCHANGED <<lobby, rows, next_player_id, next_lobby_id, rounds, up, environment>>

(* HandleLobbyLeave, in a lobby or not. *)
HandleLobbyLeave(s) ==
  /\ Connected(s)
  /\ lobby' = [l \in Slots |-> IF l \in Find(session[s].lobby_id) THEN Depart(lobby[l], session[s])
                               ELSE lobby[l]]
  /\ session' = [ session EXCEPT ![s] =
       [@ EXCEPT !.lobby_id = 0, !.player_id = 0, !.player = FALSE, !.spectating = FALSE,
                 !.is_ready = FALSE, !.entered_match = FALSE] ]
  /\ SetVoice(s, 0, 0)
  /\ UNCHANGED <<rows, next_player_id, next_lobby_id, rounds, up, environment>>

(* HandleReadyStatePacket *)
HandleReadyState(s, ready) ==
  /\ Connected(s) /\ session[s].active /\ session[s].player /\ session[s].lobby_id # 0
  /\ session' = [session EXCEPT ![s].is_ready = ready]
  /\ UNCHANGED <<voice, lobby, rows, next_player_id, next_lobby_id, rounds, up, environment>>

(* HandleEnterMatchPacket *)
HandleEnterMatch(s) ==
  /\ Connected(s) /\ session[s].active /\ session[s].lobby_id # 0 /\ ~session[s].entered_match
  /\ session[s].spectating \/ (session[s].player /\ session[s].is_ready)
  /\ session' = [session EXCEPT ![s].entered_match = TRUE]
  /\ lobby' = [ l \in Slots |->
       IF l \in Find(session[s].lobby_id)
       THEN [lobby[l] EXCEPT !.participants = Register(@, session[s])] ELSE lobby[l] ]
  /\ UNCHANGED <<voice, rows, next_player_id, next_lobby_id, rounds, up, environment>>

(* DispatchRematchVote *)
DispatchRematchVote(s, l, round_id, vote) ==
  /\ Connected(s) /\ l \in Find(session[s].lobby_id)
  /\ session[s].active /\ ~session[s].spectating
  /\ lobby[l].phase = "results" /\ round_id = lobby[l].intermission.round_id
  /\ CanCastVote(lobby[l].intermission, session[s].player_id, vote)
  /\ lobby' = [lobby EXCEPT ![l].intermission = CastVote(@, session[s].player_id, vote)]
  /\ UNCHANGED <<session, voice, rows, next_player_id, next_lobby_id, rounds, up, environment>>

(* HandleVoiceFramePacket refreshes the relay before it routes the frame. *)
HandleVoiceFrame(s) ==
  /\ Connected(s) /\ session[s].active
  /\ SetVoice(s, session[s].lobby_id, session[s].player_id)
  /\ UNCHANGED <<session, lobby, rows, next_player_id, next_lobby_id, rounds, up, environment>>

-----------------------------------------------------------------------------
(* The tick of one lobby *)

(* A lobby nobody plays or watches is not simulated; a dynamic one is      *)
(* noted as empty and, when the timeout has passed, freed.                 *)
TickEmpty(l) ==
  /\ up /\ lobby[l].active /\ RealPlayers(lobby[l]) \cup Spectators(lobby[l]) = {}
  /\ lobby[l].is_dynamic
  /\ lobby' = IF ~lobby[l].empty THEN [lobby EXCEPT ![l].empty = TRUE]
              ELSE [lobby EXCEPT ![l].active = FALSE]
  /\ UNCHANGED <<session, voice, rows, next_player_id, next_lobby_id, rounds, up, environment>>

Occupied(l) == up /\ lobby[l].active /\ RealPlayers(lobby[l]) \cup Spectators(lobby[l]) # {}

(* AdjustLobbyBots: at most one bot towards the target, and none while the *)
(* interval since the last one has not passed or the world has no room.    *)
AdjustedBots(lob) ==
  LET target == BotTargetFor(Cardinality(RealPlayers(lob)))
  IN {lob.bots} \cup (IF lob.bots < target THEN {lob.bots + 1}
                      ELSE IF lob.bots > target THEN {lob.bots - 1} ELSE {})

(* What every tick of an occupied lobby starts with. *)
Ticked(lob, bots) == [lob EXCEPT !.empty = FALSE, !.bots = bots]

(* A running tick: the step gives every colony its round_stats slot. *)
Simulated(lob, bots) ==
  [ Ticked(lob, bots) EXCEPT
      !.stats = lob.colonies,
      !.participants = [ a \in DOMAIN lob.participants |->
        LET p == lob.participants[a] IN [p EXCEPT !.lives = p.lives \cup ({p.runtime} \cap lob.colonies)] ] ]

TickRunning(l, bots) ==
  /\ Occupied(l) /\ lobby[l].phase = "running"
  /\ lobby' = [lobby EXCEPT ![l] = Simulated(@, bots)]
  /\ UNCHANGED <<session, voice, rows, next_player_id, next_lobby_id, rounds, up, environment>>

(* BeginIntermission: the electorate.  Its cap of MaxParticipants is never *)
(* reached, since no lobby admits more players (CapacityRespected).        *)
Electorate(lob) ==
  {session[s].player_id : s \in {t \in Sessions :
     /\ session[t].peer = "connected" /\ session[t].active /\ ~session[t].spectating
     /\ session[t].entered_match /\ session[t].player_id # 0
     /\ session[t].lobby_id = lob.lobby_id}}

(* The tick in which the match clock runs out or the objective is reached: *)
(* the round is saved, and then numbered for its intermission.             *)
(* Slip: the intermission gets the number of the previous round. *)
EndedPostIncrement(lob) ==
  [ lob EXCEPT !.phase = "results", !.results_left = ResultsTicks,
               !.participants = CaptureRemaining(lob), !.next_round_id = @ + 1,
               !.intermission = Begin(Electorate(lob), lob.next_round_id) ]

Ended(lob) ==
  [ lob EXCEPT !.phase = "results", !.results_left = ResultsTicks,
               !.participants = CaptureRemaining(lob), !.next_round_id = @ + 1,
               !.intermission = Begin(Electorate(lob), lob.next_round_id + 1) ]

TickMatchEnds(l, bots, ok) ==
  /\ Occupied(l) /\ lobby[l].phase = "running" /\ RoundsLeft
  /\ LET lob == Simulated(lobby[l], bots)
     IN /\ rows' = SaveRow(rows, lob, CaptureRemaining(lob), FALSE, ok)
        /\ lobby' = [lobby EXCEPT ![l] = Ended(lob)]
  /\ UNCHANGED <<session, voice, next_player_id, next_lobby_id, rounds, up, environment>>

(* Slip: the results timer does not run. *)
TickResultsFrozen(l, bots) ==
  /\ Occupied(l) /\ lobby[l].phase = "results" /\ lobby[l].results_left > 1
  /\ ~AllEligibleVoted(lobby[l].intermission)
  /\ lobby' = [lobby EXCEPT ![l] = Ticked(@, bots)]
  /\ UNCHANGED <<session, voice, rows, next_player_id, next_lobby_id, rounds, up, environment>>

TickResults(l, bots) ==
  /\ Occupied(l) /\ lobby[l].phase = "results" /\ lobby[l].results_left > 1
  /\ ~AllEligibleVoted(lobby[l].intermission)
  /\ lobby' = [lobby EXCEPT ![l] = [Ticked(lobby[l], bots) EXCEPT !.results_left = @ - 1]]
  /\ UNCHANGED <<session, voice, rows, next_player_id, next_lobby_id, rounds, up, environment>>

(* ResolveIntermission on the session of slot s, once the vote st is       *)
(* resolved: only frozen voters of a lobby that plays again stay in the    *)
(* match; when the lobby spectates, players lose their colony.             *)
(* Slip: whoever is in the match when it plays again stays in it. *)
AfterVoteEveryoneStays(se, st) ==
  IF ~se.spectating /\ st.decision = "play_again"
  THEN [se EXCEPT !.is_ready = FALSE]
  ELSE IF ~se.spectating /\ st.decision = "spectate"
  THEN [ se EXCEPT !.is_ready = FALSE, !.entered_match = FALSE, !.spectating = TRUE,
                   !.player = FALSE ]
  ELSE [se EXCEPT !.is_ready = FALSE, !.entered_match = FALSE]

AfterVote(se, st) ==
  IF ~se.spectating /\ ContinuesMatch(st, se.player_id)
  THEN [se EXCEPT !.is_ready = FALSE, !.entered_match = TRUE]
  ELSE IF ~se.spectating /\ st.decision = "spectate"
  THEN [ se EXCEPT !.is_ready = FALSE, !.entered_match = FALSE, !.spectating = TRUE,
                   !.player = FALSE ]
  ELSE [se EXCEPT !.is_ready = FALSE, !.entered_match = FALSE]

(* The colonies that the spectate decision takes out of the world. *)
Retired(lob, st) ==
  IF st.decision = "spectate" THEN {session[s].player_id : s \in RealPlayers(lob)} ELSE {}

(* The sessions of the new round, registered in slot order: a later one of *)
(* an account takes over its entry.  The cap of MaxParticipants is not     *)
(* reached (CapacityRespected).                                            *)
RegisterEntered(lob, after) ==
  LET stay == {s \in Sessions : /\ Here(s, lob) /\ after[s].peer = "connected" /\ after[s].entered_match
                                /\ ~after[s].spectating /\ after[s].player_id # 0
                                /\ after[s].account # NoAccount}
      last(a) == CHOOSE s \in stay : /\ after[s].account = a
                                     /\ \A t \in stay : after[t].account = a => t <= s
  IN [ a \in {after[s].account : s \in stay} |->
         [ runtime |-> after[last(a)].player_id, disconnected |-> FALSE, counted |-> <<>>, lives |-> {} ] ]

(* The tick that ends the intermission, because everybody voted or because *)
(* the results timer ran out: the world is reset and a new round begins.   *)
TickResolves(l, bots, ok) ==
  /\ Occupied(l) /\ lobby[l].phase = "results"
  /\ lobby[l].results_left = 1 \/ AllEligibleVoted(lobby[l].intermission)
  /\ LET lob == Ticked(lobby[l], bots)
         st == Resolve(lob.intermission)
         after == [s \in Sessions |-> IF Here(s, lob) THEN AfterVote(session[s], st) ELSE session[s]]
         reset == [ BeginRound(lob, rounds + 1) EXCEPT
                      !.intermission = st, !.colonies = @ \ Retired(lob, st), !.stats = {},
                      !.phase = "running", !.results_left = 0 ]
     IN /\ session' = after
        /\ lobby' = [lobby EXCEPT ![l] = [reset EXCEPT !.participants = RegisterEntered(lob, after)]]
        /\ rows' = BeginRow(rows, rounds + 1, reset, ok)
        /\ rounds' = rounds + 1
  /\ UNCHANGED <<voice, next_player_id, next_lobby_id, up, environment>>

-----------------------------------------------------------------------------

(* The end of the main loop: rounds under way with participants are saved  *)
(* as interrupted, then every session is cleared.  Each row is that of one *)
(* lobby (RowsFollowRounds), so their order says nothing.                  *)
DueAtShutdown ==
  {l \in Slots : lobby[l].active /\ lobby[l].phase = "running" /\ DOMAIN lobby[l].participants # {}}

SavedAtShutdown(oks) ==
  LET saved == {l \in DueAtShutdown : oks[l]}
      of(u) == CHOOSE l \in saved : lobby[l].round = u
  IN [ u \in DOMAIN rows \cup {lobby[l].round : l \in saved} |->
         IF \E l \in saved : lobby[l].round = u
         THEN SaveRow(rows, lobby[of(u)], CaptureRemaining(lobby[of(u)]), TRUE, TRUE)[u]
         ELSE rows[u] ]

Shutdown(oks) ==
  /\ up
  /\ up' = FALSE
  /\ rows' = SavedAtShutdown(oks)
  /\ session' = [ s \in Sessions |-> IF session[s].peer # "none" /\ session[s].active THEN NoSession
                                     ELSE [session[s] EXCEPT !.peer = "none"] ]
  /\ voice' = [s \in Sessions |-> [connected |-> FALSE, lobby_id |-> 0, player_id |-> 0]]
  /\ UNCHANGED <<lobby, next_player_id, next_lobby_id, rounds, environment>>

-----------------------------------------------------------------------------
Event(s) ==
  \/ Connect(s)
  \/ DropPeer(s)
  \/ Disconnect(s)
  \/ HandleHello(s)
  \/ \E account \in Accounts : HandleAuthRequest(s, account)
  \/ \E ok \in DatabaseOutcomes : HandleLobbyCreate(s, ok)
  \/ \E l \in Slots : JoinAsPlayer(s, l)
  \/ \E l \in Slots : JoinFails(s, l)
  \/ \E l \in Slots : JoinAsSpectator(s, l)
  \/ HandleLobbyLeave(s)
  \/ \E ready \in BOOLEAN : HandleReadyState(s, ready)
  \/ HandleEnterMatch(s)
  \/ \E l \in Slots, round_id \in 0..MaxRounds, vote \in ClientVotes :
       DispatchRematchVote(s, l, round_id, vote)
  \/ HandleVoiceFrame(s)

Tick(l) ==
  \/ TickEmpty(l)
  \/ \E bots \in AdjustedBots(lobby[l]) : TickRunning(l, bots)
  \/ \E bots \in AdjustedBots(lobby[l]), ok \in DatabaseOutcomes : TickMatchEnds(l, bots, ok)
  \/ \E bots \in AdjustedBots(lobby[l]) : TickResults(l, bots)
  \/ \E bots \in AdjustedBots(lobby[l]), ok \in DatabaseOutcomes : TickResolves(l, bots, ok)

Next ==
  \/ \E s \in Sessions : Event(s)
  \/ \E l \in Slots : Tick(l)
  \/ \E oks \in [Slots -> DatabaseOutcomes] : Shutdown(oks)

Spec == Init /\ [][Next]_vars

-----------------------------------------------------------------------------
(* Properties *)

SessionRecords ==
  [ peer : {"none", "connected", "disconnecting"}, active : BOOLEAN,
    account : Accounts \cup {NoAccount}, spectating : BOOLEAN, is_ready : BOOLEAN,
    entered_match : BOOLEAN, lobby_id : Nat, player_id : PlayerIds \cup {0}, player : BOOLEAN ]

ParticipantRecords ==
  [ runtime : PlayerIds, disconnected : BOOLEAN, counted : Seq(PlayerIds),
    lives : SUBSET PlayerIds ]
ParticipantTable(ps) == DOMAIN ps \subseteq Accounts /\ ps \in [DOMAIN ps -> ParticipantRecords]

LobbyOK(lob) ==
  /\ lob \in [ active : BOOLEAN, is_dynamic : BOOLEAN, lobby_id : Nat, phase : {"running", "results"},
               results_left : 0..ResultsTicks, colonies : SUBSET PlayerIds, stats : SUBSET PlayerIds,
               bots : Nat, empty : BOOLEAN, intermission : IntermissionStates, next_round_id : Nat,
               round : Nat, participants : {lob.participants} ]
  /\ ParticipantTable(lob.participants)

RowOK(row) ==
  /\ row \in [ lobby_id : Nat, round_id : Nat, status : {"active", "completed", "aborted"},
               participants : {row.participants} ]
  /\ ParticipantTable(row.participants)

TypeOK ==
  /\ session \in [Sessions -> SessionRecords]
  /\ voice \in [Sessions -> [ connected : BOOLEAN, lobby_id : Nat, player_id : PlayerIds \cup {0} ]]
  /\ DOMAIN lobby = Slots /\ \A l \in Slots : LobbyOK(lobby[l])
  /\ DOMAIN rows \subseteq Nat /\ \A u \in DOMAIN rows : RowOK(rows[u])
  /\ next_player_id \in Nat \ {0} /\ next_lobby_id \in Nat \ {0} /\ rounds \in Nat /\ up \in BOOLEAN
  /\ environment \in Environments

(* A session never points into a lobby that was freed, also not while its  *)
(* peer is being disconnected (the expiry at main.c:2911-2923 against the  *)
(* joins at 2095), and no two lobbies answer to one id.                    *)
SessionsInLiveLobbies ==
  up => /\ \A s \in Sessions : session[s].lobby_id # 0 => Find(session[s].lobby_id) # {}
        /\ \A l, m \in Slots :
             lobby[l].active /\ lobby[m].active /\ lobby[l].lobby_id = lobby[m].lobby_id => l = m

(* Players joining while bots are being added never overfill a lobby       *)
(* (main.c:814, 1986, 2113; lobby_capacity.c).                             *)
CapacityRespected ==
  \A l \in Slots : lobby[l].active =>
    Cardinality(RealPlayers(lobby[l])) + lobby[l].bots <= MaxParticipants

(* While a vote is open, whoever may still vote is in the lobby and in the *)
(* match: nobody waits for a vote that cannot come (main.c:1250-1256,      *)
(* 2167, 2843).                                                            *)
VotersArePresent ==
  up => \A l \in Slots : lobby[l].active /\ lobby[l].phase = "results" =>
    \A id \in lobby[l].intermission.eligible :
      \E s \in Sessions : /\ Here(s, lobby[l]) /\ session[s].player_id = id
                          /\ session[s].entered_match /\ ~session[s].spectating

(* After an intermission, the match holds exactly the frozen voters still  *)
(* present if it plays again and nobody otherwise, whoever joined, readied *)
(* or entered during the vote (main.c:1268-1283).                          *)
OnlyVotersContinue ==
  [][ \A l \in Slots :
        lobby[l].active /\ lobby[l].phase = "results" /\ lobby'[l].phase = "running" =>
          \A s \in Sessions : Here(s, lobby[l]) =>
            /\ session'[s].entered_match <=>
                 /\ lobby'[l].intermission.decision = "play_again"
                 /\ session[s].player_id \in lobby[l].intermission.eligible
            /\ ~session'[s].is_ready
            /\ session'[s].spectating => session[s].player_id \notin lobby'[l].colonies ]_vars

(* The row a lobby writes is the row of the round it plays: numbered as    *)
(* the vote that follows the match, active during it and not after a       *)
(* successful save, never shared with another lobby (main.c:892, 1033,     *)
(* 1258).                                                                  *)
RowsFollowRounds ==
  \A l \in Slots : lobby[l].active =>
    /\ lobby[l].round \in DOMAIN rows =>
         LET row == rows[lobby[l].round]
         IN /\ row.lobby_id = lobby[l].lobby_id
            /\ row.round_id = IF lobby[l].phase = "results" THEN lobby[l].intermission.round_id
                              ELSE lobby[l].next_round_id + 1
            /\ up /\ lobby[l].phase = "running" => row.status = "active"
    /\ \A m \in Slots \ {l} : lobby[m].active => lobby[m].round # lobby[l].round

(* A saved round holds, for every account, the statistics of each of its   *)
(* lives in the round exactly once: those captured when it left, and those *)
(* captured at the end if it is still there (main.c:903-975, 1017-1026), as *)
(* long as no account is in the match through two sessions at once.        *)
StatsCountedOnce ==
  Orderly => \A u \in DOMAIN rows : \A a \in DOMAIN rows[u].participants :
    LET p == rows[u].participants[a]
    IN /\ p.lives \subseteq {p.counted[i] : i \in DOMAIN p.counted}
       /\ \A i, j \in DOMAIN p.counted : p.counted[i] = p.counted[j] => i = j

(* An intermission comes to an end unless everybody leaves the lobby: the  *)
(* results timer runs while somebody is there, whatever the votes.         *)
IntermissionsEnd ==
  \A l \in Slots :
    lobby[l].phase = "results" ~> (lobby[l].phase = "running" \/ ~Occupied(l))

=============================================================================
