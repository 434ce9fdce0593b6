---------------------------- MODULE Intermission -----------------------------
(***************************************************************************)
(* The intermission of one lobby: the vote record of RematchVote driven by *)
(* the server's tick loop and packet handlers (src/server/main.c).  A vote *)
(* is open while the world is in its RESULTS phase; votes and departures   *)
(* arrive in any order, and the vote ends either because every eligible    *)
(* player voted or because the results timer ran out.                      *)
(***************************************************************************)
EXTENDS RematchVote

CONSTANTS
  MaxParticipants,   \* SHROOM_MAX_PARTICIPANTS
  MaxRounds          \* bound on the rounds played

ASSUME MaxParticipantsFitsU16 == MaxParticipants \in Nat /\ 0 < MaxParticipants /\ MaxParticipants < 65536

VARIABLES
  state,    \* lobby->intermission
  phase     \* lobby->world.match_phase between ticks: "running" or "results"

vars == <<state, phase>>

TypeOK ==
  /\ state \in IntermissionStates
  /\ phase \in {"running", "results"}

Init ==
  /\ state = NoIntermission
  /\ phase = "running"

(* The tick in which the match ends: the entered players of the lobby are  *)
(* the electorate, at most MaxParticipants of them.                        *)
BeginIntermission(ids) ==
  /\ phase = "running"
  /\ state.round_id < MaxRounds
  /\ Cardinality(ids) <= MaxParticipants
  /\ state' = Begin(ids, state.round_id + 1)
  /\ phase' = "results"

(* DispatchRematchVote: a vote for another round than the open one, or     *)
(* outside RESULTS, is ignored.                                            *)
DispatchRematchVote(id, round_id, vote) ==
  /\ phase = "results"
  /\ round_id = state.round_id
  /\ state' = CastVote(state, id, vote)
  /\ UNCHANGED phase

(* A LOBBY_LEAVE packet or a disconnection, in either phase. *)
RemovePlayer(id) ==
  /\ state' = RemoveVoter(state, id)
  /\ UNCHANGED phase

(* The tick resolves early once everybody voted; otherwise the results     *)
(* timer does.  Either way the world is reset and the next match runs.     *)
ResolveIntermission ==
  /\ state' = Resolve(state)
  /\ phase' = "running"

ResolveEarly == phase = "results" /\ AllEligibleVoted(state) /\ ResolveIntermission
ResolveOnTimeout == phase = "results" /\ ResolveIntermission

Next ==
  \/ \E ids \in SUBSET PlayerIds : BeginIntermission(ids)
  \/ \E id \in PlayerIds, round_id \in 0..MaxRounds, vote \in WireVotes :
       DispatchRematchVote(id, round_id, vote)
  \/ \E id \in PlayerIds : RemovePlayer(id)
  \/ ResolveEarly
  \/ ResolveOnTimeout

Spec == Init /\ [][Next]_vars

-----------------------------------------------------------------------------
(* Properties *)

(* The running totals that AdjustTotal keeps through changed votes and     *)
(* departures are what counting the ballots would give, and no uint16_t    *)
(* total wraps (intermission.c:5-18, 52-54, 68-70).                        *)
TalliesMatchBallots == TalliesMatch(state)

(* An early end never cuts off a player who could still vote               *)
(* (intermission.c:77-83 with main.c:2956).                                *)
EarlyEndIsUnanimousTurnout ==
  AllEligibleVoted(state) => \A p \in state.eligible : state.vote[p] # "none"

(* Between two Begins the electorate never grows, and once resolved        *)
(* nothing about the vote changes any more (late votes and departures of   *)
(* the next match are ignored, intermission.c:42,62,91).                   *)
VoteIsFrozen ==
  [][ state'.round_id = state.round_id =>
        /\ state'.listed = state.listed
        /\ state'.eligible \subseteq state.eligible
        /\ state.resolved => state' = state ]_vars

(* The record implements the ballot box. *)
Box == INSTANCE Ballot WITH
  round <- state.round_id,
  voters <- state.eligible,
  ballot <- [p \in PlayerIds |-> IF p \in state.eligible THEN state.vote[p] ELSE "none"],
  outcome <- state.decision

(* intermission.c as a whole: the counters, the early end and the timeout  *)
(* implement one ballot box per round, closed once, with the documented    *)
(* winner.                                                                 *)
ImplementsBallot == Box!Spec

=============================================================================
