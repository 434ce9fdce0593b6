---------------------------- MODULE WorldReplication --------------------------
(***************************************************************************)
(* The collectibles a client sees: what the server remembers to have sent  *)
(* to a session, the records and keyframes it builds from that, and what   *)
(* the client makes of the packets (src/shared/world_replication.c,        *)
(* SendWorldState of src/server/main.c, HandleWorldState of                *)
(* src/client/net.c).  Nothing is acknowledged: keyframes repair losses.   *)
(*                                                                         *)
(* Spores and power-ups are treated alike, a slot stands for a slot of     *)
(* either kind and for the entity in it, which a slot keeps as long as the *)
(* world lives (src/shared/sim.c).  ENet is external: world state is       *)
(* unreliable and sequenced, a packet that arrives drops those before it.  *)
(***************************************************************************)
EXTENDS Integers, Sequences, FiniteSets, Functions

CONSTANTS
  Slots,           \* the slots of world.spores and world.powerups, numbers
  Values,          \* what a client can tell of a collectible: place, value, type
  PacketRecords,   \* ShroomWorldStatePacketMaxRecords
  KeyframeAge,     \* SHROOM_WORLD_REPLICATION_KEYFRAME_TICKS, in sends
  MaxSends         \* bound on the sends of a run

ReplicationParameters ==
  /\ IsFiniteSet(Slots) /\ Slots \subseteq Nat
  /\ PacketRecords \in Nat \ {0} /\ {KeyframeAge, MaxSends} \subseteq Nat

VARIABLES
  tick,     \* world.tick, in sends (SHROOM_WORLD_REPLICATION_RATE)
  world,    \* what each slot holds, and whether it is active and within the
            \* interest of the session
  peer,     \* ShroomWorldReplicationPeerState of the session
  items,    \* spores and power-ups of the client: entity to value
  state,    \* ShroomWorldReplicationClientState
  channel,  \* world state packets under way, oldest first
  intact    \* nothing was lost since a keyframe was complete (history variable)

vars == <<tick, world, peer, items, state, channel, intact>>

Init ==
  /\ tick = 0 /\ world \in [Slots -> [value : Values, shown : BOOLEAN]]
  /\ peer = [initialized |-> FALSE, keyed |-> 0, known |-> <<>>]
  /\ items = <<>> /\ channel = <<>> /\ intact = TRUE
  /\ state = [latest |-> 0, pending |-> FALSE, tick |-> 0, count |-> 0, chunks |-> {}, listed |-> {}]

-----------------------------------------------------------------------------
(* The server.  known maps the slots of which the client was told to what  *)
(* it was told.                                                            *)

Current(slot) == world'[slot].shown
Known(slot) == slot \in DOMAIN peer.known
KeyframeDue == ~peer.initialized \/ tick' - peer.keyed >= KeyframeAge

(* The records of ShroomWorldReplicationBuild: at most one of a slot.      *)
Operation(slot) ==
  CASE Current(slot) /\ (KeyframeDue \/ ~Known(slot)) -> "spawn"
    [] Current(slot) /\ ~KeyframeDue /\ Known(slot) /\ world'[slot].value /= peer.known[slot] -> "update"
    [] ~Current(slot) /\ ~KeyframeDue /\ Known(slot) -> "remove"
    [] OTHER -> "none"
Records ==
  [slot \in {s \in Slots : Operation(s) /= "none"} |-> [op |-> Operation(slot), value |-> world'[slot].value]]

(* SendWorldState: chunks of PacketRecords records in the order of the     *)
(* slots; a delta without records is not sent.                             *)
PlaceOf(slot, told) == Cardinality({s \in told : s < slot})
ChunkCount(told) == IF told = {} THEN 1 ELSE (Cardinality(told) + PacketRecords - 1) \div PacketRecords
Chunk(i, told) == {slot \in told : (i - 1) * PacketRecords <= PlaceOf(slot, told) /\ PlaceOf(slot, told) < i * PacketRecords}
Packets(records) ==
  LET told == DOMAIN records
      count == ChunkCount(told)
  IN  IF ~KeyframeDue /\ told = {} THEN <<>>
      ELSE [i \in 1..count |-> [tick |-> tick', key |-> KeyframeDue, index |-> i, count |-> count,
                                records |-> Restrict(records, Chunk(i, told))]]

(* The world moves on and SendWorldState runs for the session. *)
Send ==
  /\ tick < MaxSends /\ tick' = tick + 1
  /\ \E slot \in Slots, value \in Values, shown \in BOOLEAN :
       world' = [world EXCEPT ![slot] = [value |-> value, shown |-> shown]]
  /\ channel' = channel \o Packets(Records)
  /\ peer' = [initialized |-> TRUE, keyed |-> IF KeyframeDue THEN tick' ELSE peer.keyed,
              known |-> [slot \in {s \in Slots : Current(s)} |-> world'[slot].value]]
  /\ UNCHANGED <<items, state, intact>>

-----------------------------------------------------------------------------
(* The client. *)

(* ApplyRecord for each record of a packet, which concern different slots; *)
(* the entities of the world fit in the client's lists.                    *)
Applied(shown, records) ==
  LET told(op) == {id \in DOMAIN records : records[id].op \in op}
  IN  [id \in (DOMAIN shown \ told({"remove"})) \cup told({"spawn", "update"}) |->
         IF id \in DOMAIN records THEN records[id].value ELSE shown[id]]

(* Slip: a keyframe that lost chunks goes on with those of the next one. *)
OpenedOnce(packet) ==
  IF packet.key /\ ~state.pending
  THEN [state EXCEPT !.latest = packet.tick, !.pending = TRUE, !.tick = packet.tick, !.count = packet.count,
                     !.chunks = {}, !.listed = {}]
  ELSE [state EXCEPT !.latest = packet.tick]

(* The first part of ShroomWorldReplicationApplyPacket: a newer packet     *)
(* abandons an older keyframe, the first chunk of a keyframe opens it.     *)
Opened(packet) ==
  LET newer == [state EXCEPT !.latest = packet.tick,
                             !.pending = @ /\ state.tick >= packet.tick]
  IN  IF packet.key /\ (~newer.pending \/ packet.tick > newer.tick)
      THEN [newer EXCEPT !.pending = TRUE, !.tick = packet.tick, !.count = packet.count,
                         !.chunks = {}, !.listed = {}]
      ELSE newer

(* HandleWorldState: records are applied at once; the last chunk of a      *)
(* keyframe removes what the keyframe did not list.                        *)
HandleWorldState(i) ==
  LET packet == channel[i]
      opened == Opened(packet)
      now == Applied(items, packet.records)
      listed == opened.listed \cup DOMAIN packet.records
      chunks == opened.chunks \cup {packet.index}
      complete == packet.key /\ chunks = 1..opened.count
  IN  /\ channel' = SubSeq(channel, i + 1, Len(channel))
      /\ intact' = (complete \/ (intact /\ i = 1))
      /\ IF packet.tick < state.latest THEN UNCHANGED <<items, state>>
         ELSE IF ~packet.key THEN items' = now /\ state' = opened
         ELSE IF complete
         THEN /\ items' = Restrict(now, DOMAIN now \cap listed)
              /\ state' = [opened EXCEPT !.pending = FALSE, !.chunks = chunks, !.listed = listed]
         ELSE /\ items' = now
              /\ state' = [opened EXCEPT !.chunks = chunks, !.listed = listed]
      /\ UNCHANGED <<tick, world, peer>>

-----------------------------------------------------------------------------
Next == Send \/ \E i \in DOMAIN channel : HandleWorldState(i)

Spec == Init /\ [][Next]_vars

-----------------------------------------------------------------------------
(* Once a keyframe has arrived whole and nothing was lost since, the       *)
(* client shows exactly what the server believes it shows: no collectible  *)
(* is missing, stale or eaten (ShroomWorldReplicationBuild and             *)
(* ShroomWorldReplicationApplyPacket agree without acknowledgements).      *)
KeyframesRepair == intact /\ channel = <<>> => items = peer.known

=============================================================================
