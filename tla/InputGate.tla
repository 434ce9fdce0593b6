------------------------------- MODULE InputGate ------------------------------
(***************************************************************************)
(* The admission of input_admission.c against packets that arrive at any   *)
(* time with any sequence number, whatever client sends them.              *)
(***************************************************************************)
EXTENDS InputAdmission

CONSTANTS
  Arriving,    \* the sequence numbers that arrive
  MaxTime      \* bound on the clock of a run

GateParameters ==
  /\ Arriving \subseteq 0..(SeqSpan - 1)
  /\ MaxTime \in Nat

VARIABLES
  now,         \* now_ms of the turn of the main loop
  admission,   \* input_admission of the session
  mark,        \* any moment since the first packet (history variable)
  admitted     \* the inputs admitted since then (history variable)

vars == <<now, admission, mark, admitted>>

Init == now = 0 /\ admission = NewAdmission /\ mark = 0 /\ admitted = 0

(* The clock of the main loop moves on. *)
Advance ==
  /\ now < MaxTime /\ now' = now + 1
  /\ UNCHANGED <<admission, mark, admitted>>

(* HandlePacket runs the check for an input packet of a playing session. *)
Arrive(sequence) ==
  /\ admission' = Checked(admission, sequence, now)
  /\ admitted' = IF CheckResult(admission, sequence, now) = "admitted" THEN admitted + 1 ELSE admitted
  /\ UNCHANGED <<now, mark>>

(* Counting starts again at a moment the observer chooses. *)
Observe ==
  /\ mark' = now /\ admitted' = 0
  /\ UNCHANGED <<now, admission>>

Next == Advance \/ Observe \/ \E sequence \in Arriving : Arrive(sequence)

Spec == Init /\ [][Next]_vars

-----------------------------------------------------------------------------
TypeOK ==
  /\ now \in Nat /\ mark \in 0..now /\ admitted \in Nat
  /\ admission \in [initialized : BOOLEAN, has : BOOLEAN, last : 0..(SeqSpan - 1),
                    refilled : 0..now, tokens : 0..Capacity]

(* Between any two moments the simulation takes at most one burst and the  *)
(* refill of the time between them, whatever arrives                       *)
(* (ShroomInputAdmissionCheck).                                            *)
RateBounded == admitted * Cost <= Capacity + Rate * (now - mark)

(* What makes it inductive: since the last refill the bucket has given out *)
(* no more than it took in, and before the first refill after the mark     *)
(* nothing was admitted.                                                   *)
BucketBounded ==
  /\ admission.refilled >= mark =>
        admitted * Cost + admission.tokens <= Capacity + Rate * (admission.refilled - mark)
  /\ admission.refilled < mark => admitted = 0
  /\ ~admission.initialized => admitted = 0

=============================================================================
