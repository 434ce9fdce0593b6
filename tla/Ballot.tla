------------------------------- MODULE Ballot --------------------------------
(***************************************************************************)
(* What a rematch vote promises, with no counters: a ballot box per round. *)
(* The electorate is fixed when the box opens and can only shrink; every   *)
(* voter may change its mind until the box closes; the outcome is computed *)
(* once, from the ballots of the voters still present, a voter without a   *)
(* ballot counting for the lobby.                                          *)
(***************************************************************************)
EXTENDS Integers, FiniteSets

CONSTANT PlayerIds

VARIABLES
  round,     \* the number of the round this box belongs to
  voters,    \* the players still entitled to vote
  ballot,    \* the ballot of each player, "none" when it has none
  outcome    \* "none" while the box is open

vars == <<round, voters, ballot, outcome>>

Choices == {"play_again", "return_to_lobby", "spectate"}

For(choice) ==
  Cardinality({p \in voters : \/ ballot[p] = choice
                              \/ choice = "return_to_lobby" /\ ballot[p] = "none"})

(* intermission.c:94 - "Non-voters default to lobby. Ties prefer lobby,    *)
(* then play again, then spectate."                                        *)
Beats(a, b) ==
  \/ For(a) > For(b)
  \/ /\ For(a) = For(b)
     /\ <<a, b>> \in { <<"return_to_lobby", "play_again">>,
                       <<"return_to_lobby", "spectate">>, <<"play_again", "spectate">> }

Wins(a) == \A b \in Choices \ {a} : Beats(a, b)

Init ==
  /\ round = 0
  /\ voters = {}
  /\ ballot = [p \in PlayerIds |-> "none"]
  /\ outcome = "none"

Open(electorate) ==
  /\ round = 0 \/ outcome # "none"
  /\ round' = round + 1
  /\ voters' = electorate
  /\ ballot' = [p \in PlayerIds |-> "none"]
  /\ outcome' = "none"

Cast(p, choice) ==
  /\ outcome = "none"
  /\ p \in voters
  /\ ballot' = [ballot EXCEPT ![p] = choice]
  /\ UNCHANGED <<round, voters, outcome>>

Withdraw(p) ==
  /\ outcome = "none"
  /\ p \in voters
  /\ voters' = voters \ {p}
  /\ ballot' = [ballot EXCEPT ![p] = "none"]
  /\ UNCHANGED <<round, outcome>>

Close ==
  /\ outcome = "none"
  /\ round # 0
  /\ outcome' \in {c \in Choices : Wins(c)}
  /\ UNCHANGED <<round, voters, ballot>>

Next ==
  \/ \E electorate \in SUBSET PlayerIds : Open(electorate)
  \/ \E p \in PlayerIds, choice \in Choices : Cast(p, choice)
  \/ \E p \in PlayerIds : Withdraw(p)
  \/ Close

Spec == Init /\ [][Next]_vars

=============================================================================
