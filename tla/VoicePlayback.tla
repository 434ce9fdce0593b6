----------------------------- MODULE VoicePlayback ----------------------------
(***************************************************************************)
(* What a client hears: the inbound queue from the main thread to the      *)
(* voice worker, the remotes of the worker with their jitter buffers, the  *)
(* activity table both threads use, and the mute switch                    *)
(* (src/client/voice.c, src/client/voice_jitter.c).                        *)
(*                                                                         *)
(* One other player speaks.  Its streams are external: START first, then   *)
(* consecutive frames, END last; ENet keeps their order and loses any of   *)
(* them.  A stream begins at FirstSequence, not at 0, so that its numbers  *)
(* wrap within reach.  The clock counts turns of the playback, one per     *)
(* frame duration.                                                         *)
(***************************************************************************)
EXTENDS Integers, Sequences, FiniteSets

CONSTANTS
  InboundCapacity,  \* SHROOM_VOICE_INBOUND_QUEUE_CAPACITY
  JitterCapacity,   \* SHROOM_VOICE_JITTER_CAPACITY
  TargetFrames,     \* SHROOM_VOICE_JITTER_TARGET_FRAMES
  StartDelay,       \* SHROOM_VOICE_JITTER_MAX_START_DELAY_MS, in frames
  MaxLoss,          \* SHROOM_VOICE_JITTER_MAX_CONSECUTIVE_LOSS
  SeqSpan,          \* 2^16
  FirstSequence,    \* the sequence number of the first frame of a run
  MaxSpoken,        \* bound on the frames of the speaker
  MaxMutes,         \* bound on uses of the mute switch and on restarts
  MaxTime           \* bound on the clock

(* Numbers, and concealed losses included, do not come round within what   *)
(* the speaker says.                                                       *)
PlaybackParameters ==
  /\ {MaxLoss, MaxSpoken} \subseteq Nat /\ SeqSpan \in Nat /\ MaxSpoken + MaxLoss < SeqSpan
  /\ FirstSequence \in 0..(SeqSpan - 1)

VARIABLES
  now,       \* now_ms of the worker
  speaker,   \* its stream, its next frame and how many frames it spoke
  inbound,   \* inbound_queue, oldest first
  remote,    \* the ShroomVoiceRemote of the speaker
  activity,  \* its ShroomVoiceActivity
  uses,      \* uses of the switch and restarts so far
  played     \* the frames played or concealed (history variable)

vars == <<now, speaker, inbound, remote, activity, uses, played>>

Reset == [initialized |-> FALSE, stream |-> 0, expected |-> 0, first |-> 0, frames |-> {}, loss |-> 0,
          started |-> FALSE, ended |-> FALSE]
NoRemote == [known |-> FALSE, muted |-> FALSE, decoder |-> FALSE, jitter |-> Reset]
NoActivity == [known |-> FALSE, muted |-> FALSE]

Init ==
  /\ now = 0
  /\ speaker = [stream |-> 0, next |-> 0, talking |-> FALSE, spoken |-> 0]
  /\ inbound = <<>> /\ remote = NoRemote /\ activity = NoActivity
  /\ uses = 0 /\ played = <<>>

-----------------------------------------------------------------------------
(* voice_jitter.c *)

SequenceDelta(a, b) ==
  LET d == (a - b) % SeqSpan IN IF 2 * d >= SeqSpan THEN d - SeqSpan ELSE d

StartStream(frame) ==
  [Reset EXCEPT !.initialized = TRUE, !.stream = frame.stream, !.expected = frame.sequence, !.first = now]

Late(jitter, frame) == jitter.started /\ SequenceDelta(frame.sequence, jitter.expected) < 0

(* ShroomVoiceJitterPush: the result, and the buffer whatever it is. *)
Push(jitter, frame) ==
  LET into == IF frame.start THEN StartStream(frame) ELSE jitter
      result ==
        CASE ~frame.start /\ (~jitter.initialized \/ jitter.stream /= frame.stream) -> "not started"
          [] Late(into, frame) -> "late"
          [] \E f \in into.frames : f.sequence = frame.sequence -> "duplicate"
          [] Cardinality(into.frames) >= JitterCapacity -> "overflow"
          [] OTHER -> "accepted"
  IN  [result |-> result,
       jitter |-> IF result /= "accepted" THEN into
                  ELSE [into EXCEPT !.frames = @ \cup {frame}, !.ended = @ \/ frame.end]]

(* Slip: only a loss moves on to the next frame. *)
AfterLoss(jitter, lost) == IF lost THEN (jitter.expected + 1) % SeqSpan ELSE jitter.expected
Following(jitter, lost) == (jitter.expected + 1) % SeqSpan

(* ShroomVoiceJitterPopNext: the frame that is due, the redundancy in the  *)
(* one after it, or a concealed loss; too many losses finish the stream.   *)
Pop(jitter) ==
  LET waits == /\ ~jitter.started /\ Cardinality(jitter.frames) < TargetFrames
               /\ ~jitter.ended /\ now - jitter.first < StartDelay
      begun == [jitter EXCEPT !.started = TRUE]
      due == {f \in jitter.frames : f.sequence = jitter.expected}
      after == {f \in jitter.frames : SequenceDelta(f.sequence, jitter.expected) = 1}
  IN  CASE ~jitter.initialized -> [kind |-> "finished", ended |-> FALSE, jitter |-> jitter]
        [] jitter.initialized /\ waits -> [kind |-> "wait", ended |-> FALSE, jitter |-> jitter]
        [] jitter.initialized /\ ~waits /\ due /= {} ->
             LET ended == \E f \in due : f.end
             IN  [kind |-> "frame", ended |-> ended,
                  jitter |-> IF ended THEN Reset
                             ELSE [begun EXCEPT !.frames = @ \ due, !.expected = Following(jitter, FALSE), !.loss = 0]]
        [] jitter.initialized /\ ~waits /\ due = {} ->
             IF jitter.loss + 1 > MaxLoss
             THEN [kind |-> "finished", ended |-> FALSE, jitter |-> Reset]
             ELSE [kind |-> IF after /= {} THEN "fec" ELSE "plc", ended |-> FALSE,
                   jitter |-> [begun EXCEPT !.expected = Following(jitter, TRUE), !.loss = @ + 1]]

-----------------------------------------------------------------------------
(* The speaker presses and releases its key; its frames reach HandlePacket *)
(* of the client and ShroomVoiceSubmitFrame, or get lost.                  *)
Speak(end, lost) ==
  LET frame == [kind |-> "frame", start |-> ~speaker.talking, end |-> end /\ speaker.talking,
                stream |-> IF speaker.talking THEN speaker.stream ELSE speaker.stream + 1,
                sequence |-> IF speaker.talking THEN speaker.next ELSE FirstSequence]
  IN  /\ speaker.spoken < MaxSpoken
      /\ speaker' = [stream |-> frame.stream, next |-> (frame.sequence + 1) % SeqSpan,
                     talking |-> ~frame.end, spoken |-> speaker.spoken + 1]
      /\ inbound' = IF lost \/ Len(inbound) >= InboundCapacity THEN inbound ELSE Append(inbound, frame)
      /\ UNCHANGED <<now, remote, activity, uses, played>>

(* ShroomVoiceSetPlayerMuted from the leaderboard or the roster. *)
SetPlayerMuted ==
  /\ uses < MaxMutes /\ uses' = uses + 1
  /\ IF Len(inbound) < InboundCapacity
     THEN /\ inbound' = Append(inbound, [kind |-> "mute", muted |-> ~activity.muted])
          /\ activity' = [known |-> TRUE, muted |-> ~activity.muted]
     ELSE UNCHANGED <<inbound, activity>>
  /\ UNCHANGED <<now, speaker, remote, played>>

(* The device is lost and the runtime starts again: StopRuntime joins the  *)
(* worker, which destroys its remotes, and ClearQueues empties the queue.  *)
Restart ==
  /\ uses < MaxMutes /\ uses' = uses + 1
  /\ inbound' = <<>> /\ remote' = NoRemote
  /\ UNCHANGED <<now, speaker, activity, played>>

(* The session ends as well: SetSessionActive clears the activity. *)
EndSession ==
  /\ uses < MaxMutes /\ uses' = uses + 1
  /\ inbound' = <<>> /\ remote' = NoRemote /\ activity' = NoActivity
  /\ UNCHANGED <<now, speaker, played>>

-----------------------------------------------------------------------------
(* The worker.  HandleInboundFrame: only START makes a remote, and only a  *)
(* frame makes its decoder.                                                *)
AfterFrame(r, frame) ==
  IF ~r.known /\ ~frame.start THEN r
  ELSE [r EXCEPT !.known = TRUE, !.decoder = TRUE, !.jitter = Push(r.jitter, frame).jitter]
Accepted(r, frame) == (r.known \/ frame.start) /\ Push(r.jitter, frame).result = "accepted"

(* ProcessInbound, one item. *)
ProcessInbound ==
  LET item == Head(inbound)
  IN  /\ inbound /= <<>> /\ inbound' = Tail(inbound)
      /\ IF item.kind = "mute"
         THEN remote' = [remote EXCEPT !.known = TRUE, !.muted = item.muted] /\ UNCHANGED activity
         ELSE /\ remote' = AfterFrame(remote, item)
              /\ activity' = [activity EXCEPT !.known = @ \/ Accepted(remote, item)]
      /\ UNCHANGED <<now, speaker, uses, played>>

(* ProcessPlayback: a remote goes with the end of its stream. *)
ProcessPlayback ==
  LET pop == Pop(remote.jitter)
      plays == pop.kind \in {"frame", "fec", "plc"}
      ready == remote.known /\ remote.decoder
  IN  /\ now < MaxTime /\ now' = now + 1
      /\ played' = IF ready /\ plays THEN Append(played, <<remote.jitter.stream, remote.jitter.expected>>)
                   ELSE played
      /\ remote' = IF ~ready THEN remote
                   ELSE IF pop.kind = "finished" \/ pop.ended THEN NoRemote
                   ELSE [remote EXCEPT !.jitter = pop.jitter]
      /\ UNCHANGED <<speaker, inbound, activity, uses>>

Next ==
  \/ \E end, lost \in BOOLEAN : Speak(end, lost)
  \/ SetPlayerMuted \/ Restart \/ EndSession
  \/ ProcessInbound \/ ProcessPlayback

Spec == Init /\ [][Next]_vars

-----------------------------------------------------------------------------
(* A voice is played in the order it was spoken, no moment of it twice,    *)
(* whatever was lost, concealed or interrupted.                            *)
Absolute(moment) == (moment[2] - FirstSequence) % SeqSpan
PlayedOnce ==
  \A i \in 1..(Len(played) - 1) :
    \/ played[i][1] < played[i + 1][1]
    \/ played[i][1] = played[i + 1][1] /\ Absolute(played[i]) < Absolute(played[i + 1])

=============================================================================
