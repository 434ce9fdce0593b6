---------------------------- MODULE InputAdmission ----------------------------
(***************************************************************************)
(* The admission of input packets by the server                            *)
(* (src/server/input_admission.c): a token bucket in thousandths of a      *)
(* token, and sequence numbers that may only move forward.                 *)
(***************************************************************************)
EXTENDS Integers

CONSTANTS
  Capacity,    \* SHROOM_INPUT_CAPACITY_MILLI
  Cost,        \* SHROOM_INPUT_TOKEN_MILLI
  Rate,        \* SHROOM_INPUT_REFILL_MILLI_PER_MS
  SeqSpan      \* 2^32, the values of a uint32_t

ASSUME AdmissionParameters ==
  /\ Capacity \in Nat /\ Rate \in Nat
  /\ Cost \in Nat \ {0}
  /\ SeqSpan \in Nat \ {0}

NewAdmission ==
  [initialized |-> FALSE, has |-> FALSE, last |-> 0, refilled |-> 0, tokens |-> 0]

(* Ahead by less than half of the sequence numbers. *)
SequenceIsNewer(sequence, previous) ==
  LET delta == (sequence - previous) % SeqSpan
  IN delta # 0 /\ 2 * delta < SeqSpan

AtMost(n, bound) == IF n > bound THEN bound ELSE n

(* Slip: the time of the refill is not noted. *)
RefillAgain(a, now) ==
  IF ~a.initialized THEN [a EXCEPT !.initialized = TRUE, !.refilled = now, !.tokens = Capacity]
  ELSE [a EXCEPT !.tokens = AtMost(@ + (now - a.refilled) * Rate, Capacity)]

(* Slip: only whole tokens are added and the rest is forgotten. *)
RefillWhole(a, now) ==
  IF ~a.initialized THEN [a EXCEPT !.initialized = TRUE, !.refilled = now, !.tokens = Capacity]
  ELSE [a EXCEPT !.refilled = now,
                 !.tokens = AtMost(@ + (((now - a.refilled) * Rate) \div Cost) * Cost, Capacity)]

(* A new bucket is full; a clock that went back refills nothing. *)
Refill(a, now) ==
  IF ~a.initialized THEN [a EXCEPT !.initialized = TRUE, !.refilled = now, !.tokens = Capacity]
  ELSE IF now < a.refilled THEN [a EXCEPT !.refilled = now]
  ELSE [a EXCEPT !.refilled = now, !.tokens = AtMost(@ + (now - a.refilled) * Rate, Capacity)]

Stale(a, sequence) == sequence = 0 \/ (a.has /\ ~SequenceIsNewer(sequence, a.last))

(* ShroomInputAdmissionCheck: the token is spent before the sequence is    *)
(* looked at, so that stale packets use up the rate too.                   *)
CheckResult(a, sequence, now) ==
  LET b == Refill(a, now)
  IN CASE b.tokens < Cost -> "rate"
       [] b.tokens >= Cost /\ Stale(b, sequence) -> "stale"
       [] OTHER -> "admitted"

Checked(a, sequence, now) ==
  LET b == Refill(a, now)
  IN CASE b.tokens < Cost -> b
       [] b.tokens >= Cost /\ Stale(b, sequence) -> [b EXCEPT !.tokens = @ - Cost]
       [] OTHER -> [b EXCEPT !.tokens = @ - Cost, !.has = TRUE, !.last = sequence]

=============================================================================
