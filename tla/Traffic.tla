-------------------------------- MODULE Traffic -------------------------------
(***************************************************************************)
(* What clients and the server send each other while a match runs, apart   *)
(* from the colonies: the inputs of an honest client (InputPipeline), the  *)
(* gate of the server before inputs of any origin (InputGate), what a      *)
(* client says (VoiceStreams), how the server relays it (VoiceRelay), what *)
(* another client hears of it (VoicePlayback), and the collectibles the    *)
(* server shows a client (WorldReplication).                               *)
(* Each part has the state of its own module and keeps its own clock; the  *)
(* gate is that of InputPipeline, with the same costs.                     *)
(***************************************************************************)
EXTENDS InputPipeline

CONSTANTS
  GateSpan, GateArriving, GateTime,          \* of the gate
  Peers, Lobbies, StreamIds, FrameSpan, FrameArriving, Sizes, TalkerTimeout, Window, MaxFrames, MaxBytes,
  MaxTalkers, RelayTime,                     \* of the relay
  CaptureCapacity, OutboundCapacity, RecoveryDelay, MaxCaptured, MaxRuns, VoiceTime, \* of what is said
  InboundCapacity, JitterCapacity, TargetFrames, StartDelay, MaxLoss, VoiceSpan, FirstSequence, MaxSpoken, MaxMutes,
  HeardTime,                                 \* of what is heard
  WorldSlots, Values, PacketRecords, KeyframeAge, MaxSends \* of the collectibles

VARIABLES
  clock, bucket, mark, admitted,
  relayTime, peers,
  voiceTime, runtime, worker, capture, captured, outbound, sent,
  heardTime, speaker, inbound, remote, activity, uses, played,
  worldTime, world, believed, items, state, channel, intact

gate == <<clock, bucket, mark, admitted>>
relay == <<relayTime, peers>>
streams == <<voiceTime, runtime, worker, capture, captured, outbound, sent>>
playback == <<heardTime, speaker, inbound, remote, activity, uses, played>>
collectibles == <<worldTime, world, believed, items, state, channel, intact>>

Gate == INSTANCE InputGate WITH
  now <- clock, admission <- bucket, SeqSpan <- GateSpan, Arriving <- GateArriving, MaxTime <- GateTime

Relay == INSTANCE VoiceRelay WITH
  now <- relayTime, Streams <- StreamIds, SeqSpan <- FrameSpan, Arriving <- FrameArriving, MaxTime <- RelayTime

Streams == INSTANCE VoiceStreams WITH now <- voiceTime, MaxTime <- VoiceTime

Playback == INSTANCE VoicePlayback WITH now <- heardTime, SeqSpan <- VoiceSpan, MaxTime <- HeardTime

Collectibles == INSTANCE WorldReplication WITH Slots <- WorldSlots, tick <- worldTime, peer <- believed

ASSUME TrafficParameters ==
  /\ GateSpan \in Nat \ {0} /\ Gate!GateParameters /\ Relay!RelayParameters /\ Playback!PlaybackParameters
  /\ Collectibles!ReplicationParameters

-----------------------------------------------------------------------------
(* The properties of the parts, each stated in the module of its part.     *)
RateBounded == Gate!RateBounded
TalkersBounded == Relay!TalkersBounded
StreamsAreWhole == Streams!StreamsAreWhole
PlayedOnce == Playback!PlayedOnce
KeyframesRepair == Collectibles!KeyframesRepair

=============================================================================
