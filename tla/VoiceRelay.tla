------------------------------- MODULE VoiceRelay -----------------------------
(***************************************************************************)
(* The voice relay of the server (src/server/voice_relay.c): who may talk  *)
(* in a lobby, the stream and sequence of each talker, the rate windows    *)
(* and the timeout of silent talkers; with the calls by which              *)
(* src/server/main.c keeps the place of each peer.                         *)
(*                                                                         *)
(* A peer in no lobby has lobby 0, and so has one that is not connected.   *)
(***************************************************************************)
EXTENDS Integers, FiniteSets

CONSTANTS
  Peers,           \* peer indices
  Lobbies,         \* lobby ids
  Streams,         \* stream ids, without 0
  SeqSpan,         \* 2^16
  Arriving,        \* the sequence numbers that arrive
  Sizes,           \* wire sizes of frames
  TalkerTimeout,   \* SHROOM_VOICE_TALKER_TIMEOUT_MS
  Window,          \* SHROOM_VOICE_RATE_WINDOW_MS
  MaxFrames,       \* SHROOM_VOICE_MAX_FRAMES_PER_WINDOW
  MaxBytes,        \* SHROOM_VOICE_MAX_BYTES_PER_WINDOW
  MaxTalkers,      \* SHROOM_VOICE_MAX_ACTIVE_TALKERS
  MaxTime          \* bound on the clock

RelayParameters == IsFiniteSet(Peers) /\ MaxTalkers \in Nat /\ Sizes \subseteq Nat

VARIABLES
  now,      \* now_ms of the turn of the main loop
  peers     \* ShroomVoiceRelayPeer of each peer; stream 0: not talking

vars == <<now, peers>>

NoLobby == 0
NotTalking == 0
ResetPeer(lobby) ==
  [lobby |-> lobby, stream |-> NotTalking, last |-> 0, heard |-> 0, start |-> 0, frames |-> 0, bytes |-> 0]

Init ==
  /\ now = 0
  /\ peers = [p \in Peers |-> ResetPeer(NoLobby)]

-----------------------------------------------------------------------------
TalkerExpired(peer) == peer.stream /= NotTalking /\ now - peer.heard >= TalkerTimeout

ExpireTalkers ==
  [p \in Peers |-> IF TalkerExpired(peers[p]) THEN [peers[p] EXCEPT !.stream = NotTalking] ELSE peers[p]]

CountLobbyTalkers(table, lobby) ==
  Cardinality({p \in Peers : table[p].lobby = lobby /\ table[p].stream /= NotTalking})

(* ResetRateWindowIfNeeded. *)
Windowed(peer) ==
  IF peer.frames = 0 \/ now - peer.start >= Window
  THEN [peer EXCEPT !.start = now, !.frames = 0, !.bytes = 0] ELSE peer

(* The checks of ShroomVoiceRelayRoute, the first that fails. *)
Result(table, p, frame) ==
  LET peer == table[p]
      delta == (frame.sequence - peer.last) % SeqSpan
  IN  CASE peer.frames >= MaxFrames -> "frame rate"
        [] peer.bytes > MaxBytes - frame.size -> "byte rate"
        [] peer.stream /= frame.stream /\ ~frame.start -> "not started"
        [] peer.stream = frame.stream /\ ~frame.start /\ (delta = 0 \/ 2 * delta >= SeqSpan) -> "sequence"
        [] peer.stream = NotTalking /\ CountLobbyTalkers(table, peer.lobby) >= MaxTalkers -> "talkers"
        [] OTHER -> "accepted"

(* Every frame first expires talkers and opens a rate window; one that is  *)
(* accepted makes its sender talk, or end.                                 *)
Examined(p) == [ExpireTalkers EXCEPT ![p] = Windowed(@)]
Accepted(peer, frame) ==
  [peer EXCEPT !.stream = IF frame.end THEN NotTalking ELSE frame.stream, !.last = frame.sequence,
               !.heard = now, !.frames = @ + 1, !.bytes = @ + frame.size]

(* HandleVoiceFramePacket and ShroomVoiceRelayRoute of a peer in a lobby.  *)
Route(p, frame) ==
  /\ peers[p].lobby /= NoLobby
  /\ peers' = IF Result(Examined(p), p, frame) = "accepted"
              THEN [Examined(p) EXCEPT ![p] = Accepted(@, frame)] ELSE Examined(p)
  /\ UNCHANGED now

(* Slip: a peer that moves keeps its stream. *)
MovePeer(p, lobby) ==
  /\ peers[p].lobby /= lobby
  /\ peers' = [peers EXCEPT ![p].lobby = lobby]
  /\ UNCHANGED now

(* ShroomVoiceRelaySetPeer: connect, join, leave and disconnect; a peer    *)
(* that stays where it is keeps its stream and its window.                 *)
SetPeer(p, lobby) ==
  /\ peers[p].lobby /= lobby
  /\ peers' = [peers EXCEPT ![p] = ResetPeer(lobby)]
  /\ UNCHANGED now

Advance == now < MaxTime /\ now' = now + 1 /\ UNCHANGED peers

RelayedFrames == [stream : Streams, sequence : Arriving, start : BOOLEAN, end : BOOLEAN, size : Sizes]

Next ==
  \/ Advance
  \/ \E p \in Peers, lobby \in Lobbies \cup {NoLobby} : SetPeer(p, lobby)
  \/ \E p \in Peers, frame \in RelayedFrames : Route(p, frame)

Spec == Init /\ [][Next]_vars

-----------------------------------------------------------------------------
(* Every record of a peer is well formed.                                  *)
TypeOK ==
  /\ now \in Nat
  /\ peers \in [Peers ->
       [lobby : Lobbies \cup {NoLobby}, stream : Streams \cup {NotTalking}, last : Arriving \cup {0},
        heard : Nat, start : Nat, frames : Nat, bytes : Nat]]

(* However talkers start, stop, fall silent and change lobby, a lobby      *)
(* never has more than MaxTalkers of them at once                          *)
(* (CountLobbyTalkers, ShroomVoiceRelaySetPeer).                           *)
TalkersBounded == \A lobby \in Lobbies : CountLobbyTalkers(peers, lobby) <= MaxTalkers

=============================================================================
