--------------------------- MODULE SnapshotReplication ------------------------
(***************************************************************************)
(* The colonies a client sees: the selection of players by interest, the   *)
(* deltas against the frame the client acknowledged last, the chunks and   *)
(* their assembly (src/shared/snapshot_replication.c), SendSnapshot and    *)
(* the acknowledgements of the server (src/server/main.c), HandleSnapshot  *)
(* of the client (src/client/net.c) and the snapshot cadence               *)
(* (src/shared/snapshot_scheduler.c), for one session that changes lobby.  *)
(*                                                                         *)
(* ENet is external: snapshots are unsequenced, they get lost or overtake  *)
(* each other; acknowledgements get lost but keep their order; requests    *)
(* and answers about lobbies arrive in order.  A frame is a function from  *)
(* entity ids to what is known of them; contents are members of Contents.  *)
(***************************************************************************)
EXTENDS Integers, Sequences, FiniteSets, SequencesExt, Functions

CONSTANTS
  Components,      \* the component groups of a record
  Worlds,          \* the populations a lobby may have at a tick
  Lobbies,         \* the lobbies, in the order the client visits them
  Start,           \* the tick of each lobby when the session joins it
  MaxPlayers,      \* SHROOM_MAX_SNAPSHOT_PLAYERS
  HistorySize,     \* SHROOM_SNAPSHOT_HISTORY_SIZE
  ChunkRecords,    \* records that fit in SHROOM_SNAPSHOT_PAYLOAD_SIZE
  KeyframeTicks,   \* SHROOM_SNAPSHOT_KEYFRAME_TICKS
  TickRate,        \* SHROOM_SERVER_TICK_RATE
  SnapshotRate,    \* snapshots in TickRate ticks
  MaxTicks         \* bound on the ticks of a lobby

VARIABLES
  lobbies,   \* world.tick, players and the snapshot_scheduler of each lobby
  session,   \* lobby, interest, snapshot_history and acknowledged_snapshot_tick
  client,    \* lobby, assembly, history and the players of ClientNetState
  wire,      \* snapshot packets under way
  acks,      \* acknowledgements under way, oldest first
  control    \* lobby requests and answers under way

vars == <<lobbies, session, client, wire, acks, control>>

Nothing == <<>>
NoLobby == 0
NoAssembly == [active |-> FALSE]

-----------------------------------------------------------------------------
(* Selection.  An entity of a world has the components, its relation to    *)
(* the viewer and its distance class: within the interest radius, within   *)
(* the hysteresis beyond it, or farther away.                              *)

Priority(entity) ==
  CASE entity.relation = "own" -> 0 [] entity.relation = "objective" -> 1
    [] entity.relation = "threat" /\ entity.place /= "far" -> 2 [] OTHER -> 3

(* ShroomSnapshotSelectPlayers. *)
SelectPlayers(known, world) ==
  {id \in DOMAIN world :
     \/ Priority(world[id]) < 3
     \/ world[id].place = "near"
     \/ id \in known /\ world[id].place = "edge"}

(* The order of CompareCandidate. *)
PlaceRank == [near |-> 0, edge |-> 1, far |-> 2]
Before(world, a, b) ==
  LET key(id) == <<Priority(world[id]), PlaceRank[world[id].place], id>>
      first == CHOOSE i \in 1..4 : (i = 4 \/ key(a)[i] /= key(b)[i]) /\ \A j \in 1..(i - 1) : key(a)[j] = key(b)[j]
  IN  first < 4 /\ key(a)[first] < key(b)[first]

-----------------------------------------------------------------------------
(* Frames, records and chunks. *)

HistoryFind(history, tick) == {frame \in Range(history) : tick > 0 /\ frame.tick = tick}

(* ShroomSnapshotHistoryStore: a ring of HistorySize frames. *)
HistoryStore(history, frame) ==
  IF Len(history) = HistorySize THEN Append(Tail(history), frame) ELSE Append(history, frame)

(* ComponentMask. *)
ComponentMask(current, baseline) == {c \in Components : current[c] /= baseline[c]}

(* The records of ShroomSnapshotEncodeFrame: what spawned or changed, in   *)
(* the order of the selection, then what is gone.                          *)
EncodeRecords(ordered, players, baseline) ==
  LET spawn(id) == [op |-> "spawn", id |-> id, data |-> players[id]]
      update(id) == [op |-> "update", id |-> id,
                     data |-> Restrict(players[id], ComponentMask(players[id], baseline[id]))]
      record(id) == IF id \in DOMAIN baseline THEN update(id) ELSE spawn(id)
      changed == SelectSeq(ordered, LAMBDA id : id \in DOMAIN baseline =>
                                       ComponentMask(players[id], baseline[id]) /= {})
      gone == SetToSortSeq(DOMAIN baseline \ DOMAIN players, <)
  IN  [i \in DOMAIN changed |-> record(changed[i])]
        \o [i \in DOMAIN gone |-> [op |-> "despawn", id |-> gone[i]]]

(* AppendRecord and InitPacket: records go into chunks in order; a frame   *)
(* without records is one empty chunk.  truth is not on the wire.          *)
EncodeFrame(header, records, truth) ==
  LET count == IF records = <<>> THEN 1 ELSE (Len(records) + ChunkRecords - 1) \div ChunkRecords
      chunk(i) == SubSeq(records, (i - 1) * ChunkRecords + 1,
                         IF i = count THEN Len(records) ELSE i * ChunkRecords)
  IN  {[header |-> header, index |-> i, count |-> count, records |-> chunk(i), truth |-> truth] :
         i \in 1..count}

(* DecodeRecord: whether a record fits the players decoded so far, and     *)
(* what it makes of them.                                                  *)
Decodable(players, record) ==
  IF record.op = "spawn" THEN record.id \notin DOMAIN players /\ Cardinality(DOMAIN players) < MaxPlayers
  ELSE record.id \in DOMAIN players
Decoded(players, record) ==
  CASE record.op = "despawn" -> Restrict(players, DOMAIN players \ {record.id})
    [] record.op = "spawn" -> [id \in DOMAIN players \cup {record.id} |->
                                 IF id = record.id THEN record.data ELSE players[id]]
    [] OTHER -> [players EXCEPT ![record.id] = [c \in Components |->
                   IF c \in DOMAIN record.data THEN record.data[c] ELSE players[record.id][c]]]

(* ApplyChunks over a baseline: ok is FALSE from the first record that     *)
(* does not fit, and the players keep what was decoded before it.          *)
ApplyChunks(chunks, total, baseline) ==
  LET records == FlattenSeq(chunks)
      step(state, record) ==
        IF state.ok /\ Decodable(state.players, record)
        THEN [state EXCEPT !.players = Decoded(state.players, record)]
        ELSE [state EXCEPT !.ok = FALSE]
      end == FoldLeft(step, [ok |-> TRUE, players |-> baseline], records)
  IN  [end EXCEPT !.ok = end.ok /\ Cardinality(DOMAIN end.players) = total]

-----------------------------------------------------------------------------
(* The server. *)

NewSession(lobby) == [lobby |-> lobby, known |-> {}, history |-> <<>>, acked |-> 0]

(* SendSnapshot of the lobby at this tick. *)
SnapshotPackets(lobby, tick, world) ==
  LET selected == SelectPlayers(session.known, world)
      ordered == SetToSortSeq(selected, LAMBDA a, b : Before(world, a, b))
      players == [id \in selected |-> Restrict(world[id], Components)]
      baseline == HistoryFind(session.history, session.acked)
      keyframe == baseline = {} \/ tick % KeyframeTicks = 0
      base == IF keyframe THEN [tick |-> 0, players |-> Nothing] ELSE CHOOSE f \in baseline : TRUE
      header == [lobby |-> lobby, tick |-> tick, baseline |-> base.tick, key |-> keyframe,
                 total |-> Cardinality(selected)]
  IN  EncodeFrame(header, EncodeRecords(ordered, players, base.players), players)

(* A tick of the session's lobby with ShroomSnapshotSchedulerStep; the     *)
(* population is whatever the simulation made of it.                       *)
Emits(scheduler) == scheduler + SnapshotRate >= TickRate

Tick(world) ==
  LET lobby == session.lobby
      state == lobbies[lobby]
      tick == state.tick + 1
      players == [id \in SelectPlayers(session.known, world) |-> Restrict(world[id], Components)]
  IN  /\ lobby /= NoLobby /\ state.tick < Start[lobby] + MaxTicks
      /\ lobbies' = [lobbies EXCEPT ![lobby] =
           [tick |-> tick,
            phase |-> state.phase + SnapshotRate - (IF Emits(state.phase) THEN TickRate ELSE 0)]]
      /\ IF Emits(state.phase)
         THEN /\ wire' = wire \cup SnapshotPackets(lobby, tick, world)
              /\ session' = [session EXCEPT !.known = DOMAIN players,
                               !.history = HistoryStore(@, [tick |-> tick, players |-> players])]
         ELSE UNCHANGED <<wire, session>>
      /\ UNCHANGED <<client, acks, control>>

(* DispatchSnapshotAckPacket; an acknowledgement before it is lost. *)
ReceiveAck(i) ==
  LET tick == acks[i]
  IN  /\ acks' = SubSeq(acks, i + 1, Len(acks))
      /\ session' = IF HistoryFind(session.history, tick) /= {} /\ tick > session.acked
                    THEN [session EXCEPT !.acked = tick] ELSE session
      /\ UNCHANGED <<lobbies, client, wire, control>>

(* HandleLobbyLeave and HandleLobbyJoin of the server. *)
ServeLobby ==
  /\ control /= <<>> /\ Head(control).type \in {"leave", "join"}
  /\ IF Head(control).type = "leave"
     THEN session' = NewSession(NoLobby) /\ control' = Tail(control)
     ELSE /\ session' = NewSession(Head(control).lobby)
          /\ control' = Append(Tail(control), [type |-> "joined", lobby |-> Head(control).lobby])
  /\ UNCHANGED <<lobbies, client, wire, acks>>

-----------------------------------------------------------------------------
(* The client. *)

NewClient == [lobby |-> 1, assembly |-> NoAssembly, history |-> <<>>, received |-> FALSE, last |-> 0,
              players |-> Nothing, truth |-> Nothing, done |-> {}]

(* ResetWorldReplication: it keeps last_snapshot_tick and the players. *)
ResetReplication(c) == [c EXCEPT !.assembly = NoAssembly, !.history = <<>>, !.done = {}]

(* GameSwitchSpectatorLobby: ClientNetSendLobbyLeave and                   *)
(* ClientNetSendLobbyJoin for the next lobby.                              *)
SwitchLobby ==
  /\ client.lobby /= NoLobby /\ client.lobby + 1 \in Lobbies /\ control = <<>>
  /\ client' = [ResetReplication(client) EXCEPT !.lobby = NoLobby]
  /\ control' = <<[type |-> "leave"], [type |-> "join", lobby |-> client.lobby + 1]>>
  /\ UNCHANGED <<lobbies, session, wire, acks>>

(* HandleLobbyJoined. *)
LobbyJoined ==
  /\ control /= <<>> /\ Head(control).type = "joined"
  /\ client' = [ResetReplication(client) EXCEPT !.lobby = Head(control).lobby]
  /\ control' = Tail(control)
  /\ UNCHANGED <<lobbies, session, wire, acks>>

(* ShroomSnapshotAssemblyPush: the assembly a packet goes into ... *)
Fresh(packet) == [active |-> TRUE, header |-> packet.header, count |-> packet.count, chunks |-> Nothing]
(* Slip: the chunks of an abandoned frame are kept. *)
AssemblyKept(assembly, packet) ==
  IF ~assembly.active THEN Fresh(packet)
  ELSE [assembly EXCEPT !.header = packet.header, !.count = packet.count]
Assembly(assembly, packet) ==
  IF ~assembly.active \/ packet.header.tick > assembly.header.tick THEN Fresh(packet) ELSE assembly
Accepts(assembly, packet) ==
  assembly.active => \/ packet.header.tick > assembly.header.tick
                     \/ packet.header = assembly.header /\ packet.count = assembly.count
Pushed(assembly, packet) ==
  LET into == Assembly(assembly, packet)
  IN  [into EXCEPT !.chunks = [i \in DOMAIN into.chunks \cup {packet.index} |->
         IF i \in DOMAIN into.chunks THEN into.chunks[i] ELSE packet.records]]

(* ... and what HandleSnapshot does once it is complete: the frame is      *)
(* decoded over its baseline into the players of the client; a frame that  *)
(* does not decode leaves what was decoded there.                          *)
Completed(c, assembly, truth) ==
  LET header == assembly.header
      baseline == HistoryFind(c.history, header.baseline)
      base == IF header.key THEN Nothing ELSE (CHOOSE f \in baseline : TRUE).players
      result == ApplyChunks(assembly.chunks, header.total, base)
  IN  IF ~header.key /\ baseline = {} THEN [c EXCEPT !.assembly = NoAssembly]
      ELSE IF ~result.ok THEN [c EXCEPT !.assembly = NoAssembly, !.players = result.players]
      ELSE [c EXCEPT !.assembly = NoAssembly, !.players = result.players, !.truth = truth,
              !.history = HistoryStore(@, [tick |-> header.tick, players |-> result.players]),
              !.received = TRUE, !.last = header.tick, !.done = @ \cup {header.tick}]

Stale(packet) == client.received /\ packet.header.tick <= client.last

(* HandleSnapshot, with the acknowledgement of SendSnapshotAck. *)
HandleSnapshot(packet) ==
  LET pushed == Pushed(client.assembly, packet)
      complete == DOMAIN pushed.chunks = 1..pushed.count
      after == Completed(client, pushed, packet.truth)
  IN  /\ wire' = wire \ {packet}
      /\ IF Stale(packet) \/ ~Accepts(client.assembly, packet) THEN UNCHANGED <<client, acks>>
         ELSE IF ~complete THEN client' = [client EXCEPT !.assembly = pushed] /\ UNCHANGED acks
         ELSE /\ client' = after
              /\ acks' = IF after.last = packet.header.tick THEN Append(acks, after.last) ELSE acks
      /\ UNCHANGED <<lobbies, session, control>>

-----------------------------------------------------------------------------
Init ==
  /\ lobbies = [l \in Lobbies |-> [tick |-> Start[l], phase |-> 0]]
  /\ session = NewSession(1) /\ client = NewClient
  /\ wire = {} /\ acks = <<>> /\ control = <<>>

Next ==
  \/ \E world \in Worlds : Tick(world)
  \/ \E i \in DOMAIN acks : ReceiveAck(i)
  \/ ServeLobby \/ SwitchLobby \/ LobbyJoined
  \/ \E packet \in wire : HandleSnapshot(packet)

Spec == Init /\ [][Next]_vars

-----------------------------------------------------------------------------
(* What the client shows is, entity for entity, a frame that the server    *)
(* encoded for it, whatever was lost, overtaken or cut into chunks         *)
(* (ShroomSnapshotAssemblyPush, HandleSnapshot).                           *)
ShownIsSent == client.received => client.players = client.truth

=============================================================================
