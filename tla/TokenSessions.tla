---------------------------- MODULE TokenSessions -----------------------------
(***************************************************************************)
(* What docs/rest-api-spec.md promises of a session: it opens with a first *)
(* refresh token, each refresh exchanges the current token for one new     *)
(* token, and once it has ended no token of it is ever issued again.       *)
(***************************************************************************)
EXTENDS Naturals

CONSTANT Families     \* refresh_family_id of the sessions

VARIABLES
  issued,   \* refresh tokens issued to each session
  ended     \* the session was logged out, reused or let expire

Init == issued = [f \in Families |-> 0] /\ ended = [f \in Families |-> FALSE]

Open(f) ==
  /\ issued[f] = 0
  /\ issued' = [issued EXCEPT ![f] = 1]
  /\ UNCHANGED ended

Exchange(f) ==
  /\ issued[f] > 0 /\ ~ended[f]
  /\ issued' = [issued EXCEPT ![f] = @ + 1]
  /\ UNCHANGED ended

End(f) ==
  /\ issued[f] > 0
  /\ ended' = [ended EXCEPT ![f] = TRUE]
  /\ UNCHANGED issued

Next == \E f \in Families : Open(f) \/ Exchange(f) \/ End(f)

Spec == Init /\ [][Next]_<<issued, ended>>

=============================================================================
