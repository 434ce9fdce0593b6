----------------------------- MODULE InputPipeline ----------------------------
(***************************************************************************)
(* The inputs of one player from the keyboard to the simulation and back:  *)
(* the scheduler (src/client/input_scheduler.c) that sends at most one     *)
(* input per slot and keeps split and eject intents in a queue, SendInput  *)
(* and ClientNetUpdate (src/client/net.c), the channel, the admission and  *)
(* HandleInputPacket of the server, and the acknowledgement in snapshots   *)
(* that lets the client forget predicted inputs (src/client/prediction.c). *)
(*                                                                         *)
(* ENet is external: a channel delivers in order; a packet with an intent  *)
(* is reliable, every other may be lost; a packet behind a reliable one    *)
(* that is being retransmitted waits for it, so that any number arrives    *)
(* at once.  Snapshots are lost and overtaken by later ones.               *)
(***************************************************************************)
EXTENDS InputAdmission, Sequences, FiniteSets, SequencesExt

CONSTANTS
  Interval,        \* 1 / SHROOM_CLIENT_INPUT_RATE_HZ
  Frames,          \* lengths of client frames
  QueueCapacity,   \* SHROOM_CLIENT_ACTION_QUEUE_CAPACITY
  PendingCapacity, \* SHROOM_CLIENT_PENDING_INPUT_CAPACITY
  MaxHeld,         \* bound on the packets a stall of the network holds back
  MaxSent,         \* bound on inputs, below SeqSpan / 2
  MaxIntents,      \* bound on intents
  MaxTicks,        \* bound on snapshots
  MaxTime          \* bound on the clock

ASSUME PipelineParameters ==
  /\ {Interval, QueueCapacity, PendingCapacity} \subseteq Nat \ {0}
  /\ Frames \subseteq Nat \ {0}
  /\ {MaxHeld, MaxSent, MaxIntents, MaxTicks, MaxTime} \subseteq Nat /\ 2 * MaxSent < SeqSpan

(* A burst pays for what a stall holds back and the packet after it, and a *)
(* slot refills a token: ten inputs, and 30 thousandths per millisecond at *)
(* 30 inputs per second (input_admission.h, input_scheduler.h).            *)
StallFitsBurst ==
  /\ Cost * (MaxHeld + 1) <= Capacity
  /\ Cost <= Rate * Interval

VARIABLES
  now,         \* the clock
  scheduler,   \* accumulator, action queue and next_action_intent_id
  entered,     \* the client may send gameplay input (CanSendGameplayInput)
  lastInput,   \* last_input_sequence of the client
  pending,     \* pending_inputs of the client
  acked,       \* last_processed_input_sequence and snapshot tick at the client
  wire,        \* the input channel, oldest packet first
  admission,   \* input_admission of the session
  processed,   \* last_processed_input_sequence of the session
  snapshots,   \* snapshots under way, each with a tick and an acknowledgement
  tick,        \* the tick of the latest snapshot
  acted,       \* the intents the simulation carried out (history variable)
  rejected     \* what was rejected: "rate", "stale", "intent" (history variable)

client == <<scheduler, entered, lastInput, pending, acked>>
server == <<admission, processed, acted, rejected>>
feedback == <<snapshots, tick>>
vars == <<now, client, wire, server, feedback>>

NoIntent == 0
NewScheduler == [elapsed |-> 0, queue |-> <<>>, next |-> 1]

Init ==
  /\ now = 0
  /\ scheduler = NewScheduler /\ entered = TRUE
  /\ lastInput = 0 /\ pending = <<>> /\ acked = [sequence |-> 0, tick |-> 0]
  /\ wire = <<>>
  /\ admission = NewAdmission /\ processed = 0
  /\ snapshots = {} /\ tick = 0
  /\ acted = <<>> /\ rejected = {}

-----------------------------------------------------------------------------
(* ShroomClientInputSchedulerQueueActions: a full queue drops the intent. *)
Queued(s, wanted) ==
  IF wanted /\ Len(s.queue) < QueueCapacity
  THEN [s EXCEPT !.queue = Append(@, s.next), !.next = @ + 1] ELSE s

(* Slip: an intent stays in the queue when its packet has been sent. *)
CommittedKeeping(s) == s

(* ShroomClientInputSchedulerCommit: the head of the queue was sent. *)
Committed(s) == IF s.queue = <<>> THEN s ELSE [s EXCEPT !.queue = Tail(@)]

(* ShroomClientInputSchedulerPause. *)
Paused(s) == [s EXCEPT !.elapsed = 0, !.queue = <<>>]

(* AppendPendingInput: the oldest makes room. *)
Remembered(inputs, sequence) ==
  Append(IF Len(inputs) = PendingCapacity THEN Tail(inputs) ELSE inputs, sequence)

(* ShroomPredictionDiscardAcknowledged. *)
DiscardAcknowledged(inputs, sequence) ==
  SelectSeq(inputs, LAMBDA i : SequenceIsNewer(i, sequence))

(* A frame of the client: the intent of this frame is queued and, when a   *)
(* slot has begun, one input goes out, with the intent at the head of the  *)
(* queue.  A long frame is one slot: nothing is caught up.  A failed send  *)
(* leaves the intent where it is.                                          *)
Frame(length, wanted, sent) ==
  LET s == [Queued(scheduler, wanted) EXCEPT !.elapsed = @ + length]
      due == s.elapsed >= Interval
      t == [s EXCEPT !.elapsed = @ % Interval]
      sequence == lastInput + 1
      intent == IF s.queue = <<>> THEN NoIntent ELSE Head(s.queue)
  IN /\ entered
     /\ wanted => scheduler.next <= MaxIntents
     /\ now' = now + length /\ now' <= MaxTime
     /\ IF due /\ sent
        THEN /\ lastInput < MaxSent /\ Len(wire) < MaxHeld
             /\ lastInput' = sequence
             /\ wire' = Append(wire, [sequence |-> sequence, intent |-> intent])
             /\ scheduler' = Committed(t)
             /\ pending' = Remembered(pending, sequence)
        ELSE /\ scheduler' = IF due THEN t ELSE s
             /\ due \/ sent
             /\ UNCHANGED <<lastInput, wire, pending>>
     /\ UNCHANGED <<entered, acked, server, feedback>>

(* The match is not running, or was left: the scheduler pauses. *)
Pause ==
  /\ entered /\ entered' = FALSE
  /\ scheduler' = Paused(scheduler)
  /\ UNCHANGED <<now, lastInput, pending, acked, wire, server, feedback>>

Resume ==
  /\ ~entered /\ entered' = TRUE
  /\ UNCHANGED <<now, scheduler, lastInput, pending, acked, wire, server, feedback>>

(* A packet without an intent is lost. *)
Lose(i) ==
  /\ wire[i].intent = NoIntent
  /\ wire' = RemoveAt(wire, i)
  /\ UNCHANGED <<now, client, server, feedback>>

(* HandlePacket of a session that is not in a match: nothing is counted. *)
DropOutsideMatch ==
  /\ wire # <<>> /\ wire' = Tail(wire)
  /\ UNCHANGED <<now, client, server, feedback>>

(* HandlePacket checks the input; HandleInputPacket steers, acknowledges   *)
(* and carries out the intent.                                             *)
Receive ==
  LET packet == Head(wire)
      result == CheckResult(admission, packet.sequence, now)
  IN /\ wire # <<>> /\ wire' = Tail(wire)
     /\ admission' = Checked(admission, packet.sequence, now)
     /\ IF result = "admitted"
        THEN /\ processed' = packet.sequence
             /\ acted' = IF packet.intent = NoIntent THEN acted ELSE Append(acted, packet.intent)
             /\ UNCHANGED rejected
        ELSE /\ rejected' = rejected \cup {result}
                              \cup (IF packet.intent = NoIntent THEN {} ELSE {"intent"})
             /\ UNCHANGED <<processed, acted>>
     /\ UNCHANGED <<now, client, feedback>>

(* The snapshot of a tick carries the last processed sequence; a client    *)
(* that gets this one or a later one does not need the earlier.            *)
SendSnapshot ==
  /\ Cardinality(snapshots) < 2 /\ tick < MaxTicks
  /\ tick' = tick + 1
  /\ snapshots' = snapshots \cup {[tick |-> tick', sequence |-> processed]}
  /\ UNCHANGED <<now, client, wire, server>>

LoseSnapshot(s) ==
  /\ snapshots' = snapshots \ {s}
  /\ UNCHANGED <<now, client, wire, server, tick>>

(* HandleSnapshot, ApplyNetworkSnapshot: older ticks are ignored. *)
ReceiveSnapshot(s) ==
  /\ snapshots' = snapshots \ {s}
  /\ IF s.tick > acked.tick
     THEN /\ acked' = [sequence |-> s.sequence, tick |-> s.tick]
          /\ pending' = DiscardAcknowledged(pending, s.sequence)
     ELSE UNCHANGED <<acked, pending>>
  /\ UNCHANGED <<now, scheduler, entered, lastInput, wire, server, tick>>

Next ==
  \/ \E length \in Frames, wanted, sent \in BOOLEAN : Frame(length, wanted, sent)
  \/ Pause \/ Resume
  \/ \E i \in DOMAIN wire : Lose(i)
  \/ Receive \/ DropOutsideMatch
  \/ SendSnapshot
  \/ \E s \in snapshots : LoseSnapshot(s) \/ ReceiveSnapshot(s)

Spec == Init /\ [][Next]_vars

-----------------------------------------------------------------------------
TypeOK ==
  /\ admission.tokens \in 0..Capacity /\ admission.refilled <= now
  /\ Len(pending) <= PendingCapacity /\ Len(scheduler.queue) <= QueueCapacity
  /\ acked.sequence <= processed /\ processed <= lastInput

(* A split or an ejection is carried out at most once, in the order of the *)
(* key presses, whatever is lost, retried or paused                        *)
(* (ShroomClientInputSchedulerPrepare and Commit).                         *)
ActedOnce == \A i, j \in DOMAIN acted : i < j => acted[i] < acted[j]

(* A client that keeps to its slots is never rejected as long as the       *)
(* network holds back fewer packets than the burst capacity                *)
(* (StallFitsBurst, SHROOM_SERVER_INPUT_BURST_CAPACITY).                   *)
HonestInputsAdmitted == rejected = {}

=============================================================================
