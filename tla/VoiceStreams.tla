------------------------------ MODULE VoiceStreams ----------------------------
(***************************************************************************)
(* What a client says: the audio callback that captures frames, the voice  *)
(* worker that cuts them into streams, the two single-producer queues      *)
(* between them and the main thread, and the start, the loss of the device *)
(* and the recovery of the runtime (src/client/voice.c, voice_thread.c,    *)
(* GameUpdateVoice of src/client/game.c, the microphone test of            *)
(* src/client/screens/settings.c).                                         *)
(*                                                                         *)
(* The audio device and the codec are external: a device starts or does    *)
(* not, gets lost at any time, and every captured frame can be encoded.    *)
(***************************************************************************)
EXTENDS Integers, Sequences

CONSTANTS
  CaptureCapacity,   \* SHROOM_VOICE_CAPTURE_QUEUE_CAPACITY
  OutboundCapacity,  \* SHROOM_VOICE_OUTBOUND_QUEUE_CAPACITY
  RecoveryDelay,     \* SHROOM_VOICE_RECOVERY_DELAY_MS
  MaxCaptured,       \* bound on captured frames
  MaxRuns,           \* bound on starts of the runtime
  MaxTime            \* bound on the clock

VARIABLES
  now,        \* VoiceNowMs
  runtime,    \* session_active, mic_test_active, running, device_lost,
              \* transmitting, retry_at_ms, and how often it started
  worker,     \* the locals of WorkerMain, and whether the thread lives
  capture,    \* frames in capture_queue
  captured,   \* frames captured so far
  outbound,   \* outbound_queue, oldest first
  sent        \* the frames handed to the network (history variable)

vars == <<now, runtime, worker, capture, captured, outbound, sent>>

(* The locals of a worker that starts; transmit is what it has read of     *)
(* transmitting in this turn, pending the frame outbound had no room for.  *)
NewWorker(alive) ==
  [alive |-> alive, turn |-> "read", transmit |-> FALSE, active |-> FALSE, stream |-> 0, next |-> 0,
   pending |-> <<>>]

Init ==
  /\ now = 0
  /\ runtime = [session |-> FALSE, test |-> FALSE, running |-> FALSE, lost |-> FALSE,
                transmitting |-> FALSE, retry |-> 0, runs |-> 0]
  /\ worker = NewWorker(FALSE)
  /\ capture = 0 /\ captured = 0 /\ outbound = <<>> /\ sent = <<>>

-----------------------------------------------------------------------------
(* ProcessAudio: a frame is complete; a full queue drops it. *)
Capture ==
  /\ runtime.running /\ captured < MaxCaptured
  /\ captured' = captured + 1
  /\ capture' = IF capture < CaptureCapacity THEN capture + 1 ELSE capture
  /\ UNCHANGED <<now, runtime, worker, outbound, sent>>

(* MarkDeviceLost. *)
LoseDevice ==
  /\ runtime.running /\ ~runtime.lost
  /\ runtime' = [runtime EXCEPT !.lost = TRUE]
  /\ UNCHANGED <<now, worker, capture, captured, outbound, sent>>

(* A turn of WorkerMain reads transmitting ... *)
WorkerReads ==
  /\ worker.alive /\ worker.turn = "read"
  /\ worker' = [worker EXCEPT !.turn = "work", !.transmit = runtime.transmitting]
  /\ UNCHANGED <<now, runtime, capture, captured, outbound, sent>>

(* ... pushes the frame that is pending ... *)
Flushes == worker.pending /= <<>> /\ Len(outbound) < OutboundCapacity

(* Slip: a pending frame is overwritten. *)
SpeaksAnyway(free) == (~worker.transmit /\ worker.active) \/ (worker.transmit /\ capture > 0)
Speaks(free) == free /\ ((~worker.transmit /\ worker.active) \/ (worker.transmit /\ capture > 0))

(* ... and, unless a frame is pending still, encodes one: the next frame   *)
(* of the stream, a START frame if there is none, or the END frame once    *)
(* the key is up.  Without the key everything captured is dropped.         *)
Encoded(free, queue) ==
  LET opens == worker.transmit /\ ~worker.active
      closes == ~worker.transmit /\ worker.active
      stream == IF opens THEN worker.stream + 1 ELSE worker.stream
      number == IF opens THEN 0 ELSE worker.next
      frame == [run |-> runtime.runs, stream |-> stream, sequence |-> number, start |-> opens, end |-> closes]
      fits == Len(queue) < OutboundCapacity
  IN  IF ~Speaks(free) THEN [queue |-> queue, worker |-> worker]
      ELSE [queue |-> IF fits THEN Append(queue, frame) ELSE queue,
            worker |-> [worker EXCEPT !.stream = stream, !.next = number + 1, !.active = ~closes,
                                      !.pending = IF fits THEN <<>> ELSE <<frame>>]]

WorkerWorks ==
  LET free == worker.pending = <<>> \/ Flushes
      queue == IF Flushes THEN outbound \o worker.pending ELSE outbound
      result == Encoded(free, queue)
  IN  /\ worker.alive /\ worker.turn = "work"
      /\ outbound' = result.queue
      /\ worker' = [result.worker EXCEPT !.turn = "read",
                      !.pending = IF result.worker = worker /\ Flushes THEN <<>> ELSE @]
      /\ capture' = IF ~worker.transmit THEN 0
                    ELSE IF free /\ capture > 0 THEN capture - 1 ELSE capture
      /\ UNCHANGED <<now, runtime, captured, sent>>

-----------------------------------------------------------------------------
(* The main thread.  StopRuntime waits for the worker and empties the      *)
(* queues; StartRuntime empties them and starts a worker, if the device    *)
(* starts.                                                                 *)
Stopped(r) == [r EXCEPT !.running = FALSE, !.transmitting = FALSE]
Started(r) == [r EXCEPT !.running = TRUE, !.lost = FALSE, !.runs = @ + 1]

(* ShroomVoiceUpdate without the queue: recovery, then a start when it is  *)
(* due, then the key.                                                      *)
Recovered(r) ==
  IF r.running /\ r.lost THEN [Stopped(r) EXCEPT !.lost = FALSE, !.retry = now + RecoveryDelay] ELSE r
Restarted(r, starts) ==
  IF r.running \/ ~(r.session \/ r.test) \/ now < r.retry THEN r
  ELSE IF starts THEN Started(r) ELSE [r EXCEPT !.retry = now + RecoveryDelay]
Transmitting(r, key) == [r EXCEPT !.transmitting = r.session /\ r.running /\ key]

(* What becomes of the worker and the queues when the main thread has made *)
(* r of the runtime, and of the frames it popped.                          *)
Becomes(r, stopped, sends) ==
  /\ runtime' = r
  /\ IF r.running /\ ~stopped /\ runtime.running
     THEN /\ outbound' = <<>>
          /\ sent' = IF sends THEN sent \o outbound ELSE sent
          /\ UNCHANGED <<worker, capture>>
     ELSE /\ worker' = NewWorker(r.running) /\ capture' = 0 /\ outbound' = <<>>
          /\ UNCHANGED sent
  /\ UNCHANGED <<now, captured>>

(* GameUpdateVoice: push-to-talk or the mute switch decide key;            *)
(* ShroomVoiceSetSessionActive and ShroomVoiceUpdate.                      *)
GameUpdateVoice(session, key, starts) ==
  LET r0 == [runtime EXCEPT !.session = session]
      r1 == IF session THEN r0 ELSE Stopped(r0)
      r2 == Recovered(r1)
      r3 == Restarted(r2, starts)
  IN  /\ ~runtime.test
      /\ starts => runtime.runs < MaxRuns
      /\ Becomes(Transmitting(r3, key), r1 /= r0 \/ r2 /= r1, TRUE)

(* The settings screen is open outside of sessions only: its microphone    *)
(* test starts at once, then ShroomVoiceUpdate runs without a network.     *)
BeginMicTest(starts) ==
  /\ ~runtime.session /\ ~runtime.test /\ runtime.runs < MaxRuns
  /\ LET r == [runtime EXCEPT !.retry = 0]
     IN  Becomes(IF starts THEN Started([r EXCEPT !.test = TRUE]) ELSE r, TRUE, FALSE)

TestUpdate(starts) ==
  LET r1 == Recovered(runtime)
  IN  /\ runtime.test /\ (starts => runtime.runs < MaxRuns)
      /\ Becomes(Transmitting(Restarted(r1, starts), FALSE), r1 /= runtime, FALSE)

EndMicTest ==
  /\ runtime.test
  /\ Becomes(Stopped([runtime EXCEPT !.test = FALSE]), TRUE, FALSE)

Advance == now < MaxTime /\ now' = now + 1 /\ UNCHANGED <<runtime, worker, capture, captured, outbound, sent>>

Next ==
  \/ Capture \/ LoseDevice \/ WorkerReads \/ WorkerWorks \/ Advance
  \/ \E session, key, starts \in BOOLEAN : GameUpdateVoice(session, key, starts)
  \/ \E starts \in BOOLEAN : BeginMicTest(starts) \/ TestUpdate(starts)
  \/ EndMicTest

Spec == Init /\ [][Next]_vars

-----------------------------------------------------------------------------
(* The relay and the listeners can follow every stream: however the queues *)
(* fill up and the key is released, pressed again or overtaken by a        *)
(* restart, a stream goes out from START on, without a gap, and nothing of *)
(* it follows its END (WorkerMain, QueueEncoded).                          *)
StreamsAreWhole ==
  \A i \in DOMAIN sent :
    IF i > 1 /\ sent[i].run = sent[i - 1].run /\ sent[i].stream = sent[i - 1].stream
    THEN sent[i].sequence = sent[i - 1].sequence + 1 /\ ~sent[i].start /\ ~sent[i - 1].end
    ELSE sent[i].start /\ sent[i].sequence = 0

=============================================================================
