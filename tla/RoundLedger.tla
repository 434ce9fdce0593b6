----------------------------- MODULE RoundLedger -----------------------------
(***************************************************************************)
(* What the match tables promise: a round is opened at most once and       *)
(* closed at most once; closing it answers a request, and records the      *)
(* outcome and the participants of the request and one more game for each  *)
(* of them in a single step.  A request that is not answered this way      *)
(* leaves no trace.                                                        *)
(***************************************************************************)
EXTENDS Naturals

CONSTANTS Rounds, Accounts, NoRequest

VARIABLES
  status,         \* of each round: "none", "active", "completed" or "aborted"
  participants,   \* of each round
  games,          \* rounds counted for each account
  request         \* the round to close, its participants and its outcome

vars == <<status, participants, games, request>>

Init ==
  /\ status = [r \in Rounds |-> "none"]
  /\ participants = [r \in Rounds |-> {}]
  /\ games = [a \in Accounts |-> 0]
  /\ request = NoRequest

Open(r) ==
  /\ status[r] = "none"
  /\ status' = [status EXCEPT ![r] = "active"]
  /\ UNCHANGED <<participants, games, request>>

Request(r, members, outcome) ==
  /\ request = NoRequest
  /\ request' = [round |-> r, members |-> members, outcome |-> outcome]
  /\ UNCHANGED <<status, participants, games>>

(* A round that was never opened can be closed too. *)
Close ==
  /\ request # NoRequest /\ status[request.round] \in {"none", "active"}
  /\ status' = [status EXCEPT ![request.round] = request.outcome]
  /\ participants' = [participants EXCEPT ![request.round] = request.members]
  /\ games' = [a \in Accounts |-> IF a \in request.members THEN games[a] + 1 ELSE games[a]]
  /\ request' = NoRequest

GiveUp ==
  /\ request # NoRequest
  /\ request' = NoRequest
  /\ UNCHANGED <<status, participants, games>>

Next ==
  \/ \E r \in Rounds : Open(r)
  \/ \E r \in Rounds, members \in SUBSET Accounts, outcome \in {"completed", "aborted"} :
       Request(r, members, outcome)
  \/ Close
  \/ GiveUp

Spec == Init /\ [][Next]_vars

=============================================================================
