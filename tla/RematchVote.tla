----------------------------- MODULE RematchVote -----------------------------
(***************************************************************************)
(* The rematch vote of one lobby as a value: the record ShroomIntermission-*)
(* State of src/shared/intermission.h and the functions of intermission.c  *)
(* that read or rewrite it.  The state machines that own such a record     *)
(* (Intermission for one lobby, LobbyServer for the whole server) call     *)
(* these operators where the C code calls the functions.                   *)
(*                                                                         *)
(* The C array voters[0..voter_count-1] of (player_id, vote, eligible) is  *)
(* searched by player_id only, and the ids a lobby passes to Begin are     *)
(* distinct, so it is kept as a set of listed ids, a set of eligible ids   *)
(* and a function from ids to votes.                                       *)
(***************************************************************************)
EXTENDS Integers, FiniteSets

CONSTANT PlayerIds    \* the non-zero runtime player ids

ASSUME PlayerIdsFinite == IsFiniteSet(PlayerIds)

Votes == {"none", "play_again", "return_to_lobby", "spectate"}
Choices == Votes \ {"none"}

(* The vote byte of a REMATCH_VOTE packet is not checked before CastVote:  *)
(* "out_of_range" stands for every value above SPECTATE.                   *)
WireVotes == Votes \cup {"out_of_range"}

(* Counters are uint16_t. *)
U16(n) == n % 65536

IntermissionStates ==
  [ listed : SUBSET PlayerIds, eligible : SUBSET PlayerIds,
    vote : [PlayerIds -> Votes], eligible_count : Nat,
    play_again_votes : Nat, return_to_lobby_votes : Nat, spectate_votes : Nat,
    round_id : Nat, resolved : BOOLEAN, decision : Votes ]

(* ShroomIntermissionBegin: the record is cleared, and the electorate of   *)
(* round_id is frozen.                                                     *)
Begin(ids, round_id) ==
  [ listed |-> ids, eligible |-> ids, vote |-> [p \in PlayerIds |-> "none"],
    eligible_count |-> Cardinality(ids), play_again_votes |-> 0, return_to_lobby_votes |-> 0,
    spectate_votes |-> 0, round_id |-> round_id, resolved |-> FALSE, decision |-> "none" ]

(* A zeroed ShroomIntermissionState, as in a fresh ShroomLobby. *)
NoIntermission == Begin({}, 0)

(* AdjustTotal: the counter that belongs to vote moves by delta. *)
AdjustTotal(st, vote, delta) ==
  [ st EXCEPT
      !.play_again_votes = IF vote = "play_again" THEN U16(@ + delta) ELSE @,
      !.return_to_lobby_votes = IF vote = "return_to_lobby" THEN U16(@ + delta) ELSE @,
      !.spectate_votes = IF vote = "spectate" THEN U16(@ + delta) ELSE @ ]

(* ShroomIntermissionCastVote: the state after the call; an unchanged      *)
(* state is a call that returned false.                                    *)
CanCastVote(st, id, vote) ==
  ~st.resolved /\ vote \in Choices /\ id \in st.eligible /\ st.vote[id] # vote

(* Slip: the previous choice of a voter that changes its mind stays counted. *)
CastVoteKeepsOldTally(st, id, vote) ==
  IF CanCastVote(st, id, vote)
  THEN AdjustTotal([st EXCEPT !.vote[id] = vote], vote, 1)
  ELSE st

CastVote(st, id, vote) ==
  IF CanCastVote(st, id, vote)
  THEN AdjustTotal([AdjustTotal(st, st.vote[id], -1) EXCEPT !.vote[id] = vote], vote, 1)
  ELSE st

(* ShroomIntermissionRemoveVoter: the departed voter keeps its array entry *)
(* and its vote, but is no longer eligible and no longer counted.          *)
(* Slip: a departure is taken into account after the vote is resolved. *)
CanRemoveVoterAnyTime(st, id) == id \in st.eligible

CanRemoveVoter(st, id) == ~st.resolved /\ id \in st.eligible

(* Slip: the ballot of a departed voter stays counted. *)
RemoveVoterKeepsTally(st, id) ==
  IF CanRemoveVoter(st, id)
  THEN [ st EXCEPT !.eligible = @ \ {id}, !.eligible_count = U16(@ - 1) ]
  ELSE st

RemoveVoter(st, id) ==
  IF CanRemoveVoter(st, id)
  THEN [ AdjustTotal(st, st.vote[id], -1) EXCEPT
           !.eligible = @ \ {id}, !.eligible_count = U16(@ - 1) ]
  ELSE st

(* ShroomIntermissionAllEligibleVoted *)
AllEligibleVoted(st) ==
  /\ st.eligible_count # 0
  /\ U16(st.play_again_votes + st.return_to_lobby_votes + st.spectate_votes) = st.eligible_count

(* ShroomIntermissionResolve *)
LobbyTotal(st) ==
  U16(st.return_to_lobby_votes + st.eligible_count - st.play_again_votes
        - st.return_to_lobby_votes - st.spectate_votes)

(* Slip: a tie with the lobby plays again. *)
DecideTiesPlayAgain(st) ==
  IF st.play_again_votes >= LobbyTotal(st) /\ st.play_again_votes >= st.spectate_votes
    THEN "play_again"
  ELSE IF st.spectate_votes > LobbyTotal(st) /\ st.spectate_votes > st.play_again_votes
    THEN "spectate"
  ELSE "return_to_lobby"

Decide(st) ==
  IF st.play_again_votes > LobbyTotal(st) /\ st.play_again_votes >= st.spectate_votes
    THEN "play_again"
  ELSE IF st.spectate_votes > LobbyTotal(st) /\ st.spectate_votes > st.play_again_votes
    THEN "spectate"
  ELSE "return_to_lobby"

Resolve(st) ==
  IF st.resolved THEN st ELSE [st EXCEPT !.decision = Decide(st), !.resolved = TRUE]

(* ShroomIntermissionPlayerContinuesMatch *)
ContinuesMatch(st, id) ==
  st.resolved /\ st.decision = "play_again" /\ id \in st.eligible

-----------------------------------------------------------------------------
(* The players entitled to vote whose current ballot is choice. *)
Backing(st, choice) == {p \in st.eligible : st.vote[p] = choice}

(* The running totals are what counting the ballots would give. *)
TalliesMatch(st) ==
  /\ st.eligible_count = Cardinality(st.eligible)
  /\ st.play_again_votes = Cardinality(Backing(st, "play_again"))
  /\ st.return_to_lobby_votes = Cardinality(Backing(st, "return_to_lobby"))
  /\ st.spectate_votes = Cardinality(Backing(st, "spectate"))

=============================================================================
