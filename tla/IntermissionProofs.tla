-------------------------- MODULE IntermissionProofs --------------------------
(***************************************************************************)
(* Theorems about Intermission, for any finite set of players, any round   *)
(* bound and any participant limit that fits a uint16_t.  The inductive    *)
(* invariant adds to the tallies what keeps the counters from wrapping:    *)
(* an electorate of at most MaxParticipants, every one of them in some     *)
(* state of the ballot.                                                    *)
(***************************************************************************)
EXTENDS Intermission, FiniteSetTheorems, TLAPS

(* A value that fits sixteen bits is kept as it is by a uint16_t counter.  *)
LEMMA U16Small ==
  ASSUME NEW n \in Nat, n < 65536
  PROVE  U16(n) = n
BY DEF U16

(* A tally is a natural number no larger than the electorate. *)
LEMMA BackingBound ==
  ASSUME NEW st \in IntermissionStates, NEW choice
  PROVE  /\ IsFiniteSet(st.eligible)
         /\ Cardinality(st.eligible) \in Nat
         /\ IsFiniteSet(Backing(st, choice))
         /\ Cardinality(Backing(st, choice)) \in Nat
         /\ Cardinality(Backing(st, choice)) <= Cardinality(st.eligible)
<1>1. st.eligible \in SUBSET PlayerIds
  BY DEF IntermissionStates
<1>2. IsFiniteSet(st.eligible)
  BY <1>1, PlayerIdsFinite, FS_Subset
<1>3. Backing(st, choice) \in SUBSET st.eligible
  BY DEF Backing
<1>4. QED
  BY <1>2, <1>3, FS_Subset, FS_CardinalityType

(* The totals of a voted electorate are small enough for the counters. *)
Counted(st) ==
  /\ st \in IntermissionStates
  /\ TalliesMatch(st)
  /\ Cardinality(st.eligible) <= MaxParticipants

(* A legal vote moves one ballot between two piles, and the counters with it. *)
LEMMA CastVoteCounted ==
  ASSUME NEW st, Counted(st), NEW id \in PlayerIds, NEW vote \in Choices,
         CanCastVote(st, id, vote)
  PROVE  Counted(CastVote(st, id, vote))
<1> DEFINE new == CastVote(st, id, vote)
           old == st.vote[id]
<1>1. /\ st \in IntermissionStates /\ id \in st.eligible /\ old # vote /\ old \in Votes
  BY DEF Counted, CanCastVote, IntermissionStates
<1>2. /\ new.eligible = st.eligible /\ new.listed = st.listed
      /\ new.vote = [st.vote EXCEPT ![id] = vote]
      /\ new.eligible_count = st.eligible_count
      /\ new.round_id = st.round_id /\ new.resolved = st.resolved
      /\ new.decision = st.decision
  BY <1>1 DEF CastVote, AdjustTotal, IntermissionStates, Counted
<1>3. new.vote \in [PlayerIds -> Votes]
  BY <1>1, <1>2 DEF IntermissionStates, Choices
<1>4. ASSUME NEW c \in Choices
      PROVE  Cardinality(Backing(new, c)) =
               IF c = vote THEN Cardinality(Backing(st, c)) + 1
               ELSE IF c = old THEN Cardinality(Backing(st, c)) - 1
               ELSE Cardinality(Backing(st, c))
  <2>1. IsFiniteSet(Backing(st, c))
    BY <1>1, BackingBound
  <2>2. CASE c = vote
    <3>1. Backing(new, c) = Backing(st, c) \cup {id} /\ id \notin Backing(st, c)
      BY <1>1, <1>2, <2>2 DEF Backing, IntermissionStates
    <3>2. QED
      BY <2>1, <2>2, <3>1, FS_AddElement
  <2>3. CASE c # vote /\ c = old
    <3>1. Backing(new, c) = Backing(st, c) \ {id} /\ id \in Backing(st, c)
      BY <1>1, <1>2, <2>3 DEF Backing, IntermissionStates
    <3>2. QED
      BY <2>1, <2>3, <3>1, FS_RemoveElement
  <2>4. CASE c # vote /\ c # old
    <3>1. Backing(new, c) = Backing(st, c)
      BY <1>1, <1>2, <2>4 DEF Backing, IntermissionStates
    <3>2. QED
      BY <2>4, <3>1
  <2>5. QED
    BY <2>2, <2>3, <2>4
<1>5. ASSUME NEW c \in Choices
      PROVE  Cardinality(Backing(new, c)) \in Nat /\ Cardinality(Backing(new, c)) < 65536
  <2>1. Backing(new, c) \in SUBSET st.eligible
    BY <1>2 DEF Backing
  <2>2. IsFiniteSet(st.eligible) /\ Cardinality(st.eligible) \in Nat
    BY <1>1, BackingBound
  <2>3. QED
    BY <2>1, <2>2, FS_Subset, FS_CardinalityType, MaxParticipantsFitsU16 DEF Counted
<1>6. ASSUME NEW c \in Choices
      PROVE  Cardinality(Backing(st, c)) \in Nat /\ Cardinality(Backing(st, c)) < 65536
  BY <1>1, BackingBound, MaxParticipantsFitsU16 DEF Counted
<1>7. /\ new.play_again_votes = Cardinality(Backing(new, "play_again"))
      /\ new.return_to_lobby_votes = Cardinality(Backing(new, "return_to_lobby"))
      /\ new.spectate_votes = Cardinality(Backing(new, "spectate"))
  <2>1. /\ new.play_again_votes =
             IF vote = "play_again" THEN U16(st.play_again_votes + 1)
             ELSE IF old = "play_again" THEN U16(st.play_again_votes - 1)
             ELSE st.play_again_votes
        /\ new.return_to_lobby_votes =
             IF vote = "return_to_lobby" THEN U16(st.return_to_lobby_votes + 1)
             ELSE IF old = "return_to_lobby" THEN U16(st.return_to_lobby_votes - 1)
             ELSE st.return_to_lobby_votes
        /\ new.spectate_votes =
             IF vote = "spectate" THEN U16(st.spectate_votes + 1)
             ELSE IF old = "spectate" THEN U16(st.spectate_votes - 1)
             ELSE st.spectate_votes
    BY <1>1 DEF CastVote, AdjustTotal, IntermissionStates, Counted
  <2>2. /\ st.play_again_votes = Cardinality(Backing(st, "play_again"))
        /\ st.return_to_lobby_votes = Cardinality(Backing(st, "return_to_lobby"))
        /\ st.spectate_votes = Cardinality(Backing(st, "spectate"))
    BY DEF Counted, TalliesMatch
  <2>3. "play_again" \in Choices /\ "return_to_lobby" \in Choices /\ "spectate" \in Choices
    BY DEF Choices, Votes
  <2>4. ASSUME NEW c \in Choices, NEW n, n = Cardinality(Backing(st, c))
        PROVE  /\ vote = c => U16(n + 1) = Cardinality(Backing(new, c))
               /\ vote # c /\ old = c => U16(n - 1) = Cardinality(Backing(new, c))
               /\ vote # c /\ old # c => n = Cardinality(Backing(new, c))
    BY <2>4, <1>4, <1>5, <1>6, U16Small
  <2>5. QED
    BY <2>1, <2>2, <2>3, <2>4
<1>8. new \in IntermissionStates
  <2>1. new = [ listed |-> new.listed, eligible |-> new.eligible, vote |-> new.vote,
                eligible_count |-> new.eligible_count,
                play_again_votes |-> new.play_again_votes,
                return_to_lobby_votes |-> new.return_to_lobby_votes,
                spectate_votes |-> new.spectate_votes, round_id |-> new.round_id,
                resolved |-> new.resolved, decision |-> new.decision ]
    BY <1>1 DEF CastVote, AdjustTotal, IntermissionStates, Counted
  <2>2. "play_again" \in Choices /\ "return_to_lobby" \in Choices /\ "spectate" \in Choices
    BY DEF Choices, Votes
  <2>3. /\ new.play_again_votes \in Nat /\ new.return_to_lobby_votes \in Nat
        /\ new.spectate_votes \in Nat
    BY <1>5, <1>7, <2>2
  <2>4. /\ st.listed \in SUBSET PlayerIds /\ st.eligible \in SUBSET PlayerIds
        /\ st.eligible_count \in Nat /\ st.round_id \in Nat /\ st.resolved \in BOOLEAN
        /\ st.decision \in Votes
    BY <1>1 DEF IntermissionStates
  <2>5. QED
    BY <1>2, <1>3, <2>1, <2>3, <2>4 DEF IntermissionStates
<1>9. QED
  BY <1>2, <1>7, <1>8 DEF Counted, TalliesMatch

(* A departure takes the ballot of the departed voter, if it cast one, out *)
(* of its pile, and no other.                                              *)
LEMMA RemoveVoterCounted ==
  ASSUME NEW st, Counted(st), NEW id \in PlayerIds, CanRemoveVoter(st, id)
  PROVE  Counted(RemoveVoter(st, id))
<1> DEFINE new == RemoveVoter(st, id)
           old == st.vote[id]
<1>1. /\ st \in IntermissionStates /\ id \in st.eligible /\ old \in Votes
  BY DEF Counted, CanRemoveVoter, IntermissionStates
<1>2. /\ new.eligible = st.eligible \ {id} /\ new.vote = st.vote
      /\ new.eligible_count = U16(st.eligible_count - 1)
      /\ new.play_again_votes =
           IF old = "play_again" THEN U16(st.play_again_votes - 1) ELSE st.play_again_votes
      /\ new.return_to_lobby_votes =
           IF old = "return_to_lobby" THEN U16(st.return_to_lobby_votes - 1)
           ELSE st.return_to_lobby_votes
      /\ new.spectate_votes =
           IF old = "spectate" THEN U16(st.spectate_votes - 1) ELSE st.spectate_votes
  BY <1>1 DEF RemoveVoter, AdjustTotal, IntermissionStates
<1>3. /\ IsFiniteSet(st.eligible)
      /\ Cardinality(st.eligible) \in Nat /\ Cardinality(st.eligible) < 65536
      /\ IsFiniteSet(new.eligible)
      /\ Cardinality(new.eligible) = Cardinality(st.eligible) - 1
      /\ Cardinality(new.eligible) \in Nat
      /\ Cardinality(new.eligible) <= MaxParticipants
  <2>1. IsFiniteSet(st.eligible) /\ Cardinality(st.eligible) \in Nat
    BY <1>1, BackingBound
  <2>2. IsFiniteSet(new.eligible) /\ Cardinality(new.eligible) = Cardinality(st.eligible) - 1
    BY <1>1, <1>2, <2>1, FS_RemoveElement
  <2>3. Cardinality(new.eligible) \in Nat
    BY <2>2, FS_CardinalityType
  <2>4. QED
    BY <2>1, <2>2, <2>3, MaxParticipantsFitsU16 DEF Counted
<1>4. new.eligible_count = Cardinality(new.eligible)
  BY <1>2, <1>3, U16Small DEF Counted, TalliesMatch
<1>5. ASSUME NEW c \in Choices, NEW n, n = Cardinality(Backing(st, c))
      PROVE  /\ Cardinality(Backing(new, c)) \in Nat
             /\ old = c => U16(n - 1) = Cardinality(Backing(new, c))
             /\ old # c => n = Cardinality(Backing(new, c))
  <2>1. IsFiniteSet(Backing(st, c)) /\ n \in Nat /\ n < 65536
    BY <1>1, <1>3, <1>5, BackingBound
  <2>2. CASE old = c
    <3>1. Backing(new, c) = Backing(st, c) \ {id} /\ id \in Backing(st, c)
      BY <1>1, <1>2, <2>2 DEF Backing
    <3>2. Cardinality(Backing(new, c)) = n - 1 /\ IsFiniteSet(Backing(new, c))
      BY <2>1, <3>1, <1>5, FS_RemoveElement
    <3>3. Cardinality(Backing(new, c)) \in Nat
      BY <3>2, FS_CardinalityType
    <3>4. QED
      BY <2>1, <2>2, <3>2, <3>3, U16Small
  <2>3. CASE old # c
    <3>1. Backing(new, c) = Backing(st, c)
      BY <1>1, <1>2, <2>3 DEF Backing
    <3>2. QED
      BY <2>1, <2>3, <3>1, <1>5
  <2>4. QED
    BY <2>2, <2>3
<1>6. /\ new.play_again_votes = Cardinality(Backing(new, "play_again"))
      /\ new.return_to_lobby_votes = Cardinality(Backing(new, "return_to_lobby"))
      /\ new.spectate_votes = Cardinality(Backing(new, "spectate"))
      /\ new.play_again_votes \in Nat /\ new.return_to_lobby_votes \in Nat
      /\ new.spectate_votes \in Nat
  <2>1. /\ st.play_again_votes = Cardinality(Backing(st, "play_again"))
        /\ st.return_to_lobby_votes = Cardinality(Backing(st, "return_to_lobby"))
        /\ st.spectate_votes = Cardinality(Backing(st, "spectate"))
    BY DEF Counted, TalliesMatch
  <2>2. "play_again" \in Choices /\ "return_to_lobby" \in Choices /\ "spectate" \in Choices
    BY DEF Choices, Votes
  <2>3. QED
    BY <1>2, <1>5, <2>1, <2>2
<1>7. new \in IntermissionStates
  <2>1. new = [ listed |-> st.listed, eligible |-> new.eligible, vote |-> st.vote,
                eligible_count |-> new.eligible_count,
                play_again_votes |-> new.play_again_votes,
                return_to_lobby_votes |-> new.return_to_lobby_votes,
                spectate_votes |-> new.spectate_votes, round_id |-> st.round_id,
                resolved |-> st.resolved, decision |-> st.decision ]
    BY <1>1 DEF RemoveVoter, AdjustTotal, IntermissionStates
  <2>2. new.eligible \in SUBSET PlayerIds /\ new.eligible_count \in Nat
    BY <1>1, <1>2, <1>3, <1>4 DEF IntermissionStates
  <2>3. QED
    BY <1>1, <1>6, <2>1, <2>2 DEF IntermissionStates
<1>8. QED
  BY <1>3, <1>4, <1>6, <1>7 DEF Counted, TalliesMatch

(* A fresh electorate has no ballots and zeroed counters. *)
LEMMA BeginCounted ==
  ASSUME NEW ids \in SUBSET PlayerIds, Cardinality(ids) <= MaxParticipants,
         NEW round_id \in Nat
  PROVE  Counted(Begin(ids, round_id))
<1> DEFINE new == Begin(ids, round_id)
<1>1. IsFiniteSet(ids) /\ Cardinality(ids) \in Nat
  BY PlayerIdsFinite, FS_Subset, FS_CardinalityType
<1>2. new \in IntermissionStates
  BY <1>1 DEF Begin, IntermissionStates, Votes
<1>3. /\ new.eligible = ids /\ new.eligible_count = Cardinality(ids)
      /\ new.play_again_votes = 0 /\ new.return_to_lobby_votes = 0 /\ new.spectate_votes = 0
  BY DEF Begin
<1>4. ASSUME NEW c \in Choices
      PROVE  Cardinality(Backing(new, c)) = 0
  <2>1. Backing(new, c) = {}
    BY DEF Backing, Choices, Begin
  <2>2. QED
    BY <2>1, FS_EmptySet
<1>5. "play_again" \in Choices /\ "return_to_lobby" \in Choices /\ "spectate" \in Choices
  BY DEF Choices, Votes
<1> HIDE DEF new
<1>6. Counted(new)
  BY <1>2, <1>3, <1>4, <1>5 DEF Counted, TalliesMatch
<1>7. QED
  BY <1>6 DEF new

LEMMA NothingCounted == Counted(NoIntermission)
<1>1. Cardinality({}) = 0
  BY FS_EmptySet
<1>2. Cardinality({}) <= MaxParticipants
  BY <1>1, MaxParticipantsFitsU16
<1>3. QED
  BY <1>2, BeginCounted DEF NoIntermission

(* Resolving writes the decision and the flag, and touches no ballot. *)
LEMMA ResolveCounted ==
  ASSUME NEW st, Counted(st)
  PROVE  Counted(Resolve(st))
<1>1. Decide(st) \in Votes
  BY DEF Decide, Votes
<1>2. CASE ~st.resolved
  <2>1. Resolve(st) = [st EXCEPT !.decision = Decide(st), !.resolved = TRUE]
    BY <1>2 DEF Resolve
  <2>2. /\ Resolve(st) \in IntermissionStates
        /\ Resolve(st).eligible = st.eligible /\ Resolve(st).vote = st.vote
        /\ Resolve(st).eligible_count = st.eligible_count
        /\ Resolve(st).play_again_votes = st.play_again_votes
        /\ Resolve(st).return_to_lobby_votes = st.return_to_lobby_votes
        /\ Resolve(st).spectate_votes = st.spectate_votes
    BY <1>1, <2>1 DEF Counted, IntermissionStates
  <2>3. \A c : Backing(Resolve(st), c) = Backing(st, c)
    BY <2>2 DEF Backing
  <2>4. QED
    BY <2>2, <2>3 DEF Counted, TalliesMatch
<1>3. CASE st.resolved
  BY <1>3 DEF Resolve
<1>4. QED
  BY <1>2, <1>3

-----------------------------------------------------------------------------
(* The inductive invariant: the totals count the ballots; a decision is    *)
(* there exactly when the vote is resolved; a match runs only before the   *)
(* first round or after a resolved one.                                    *)
IInv ==
  /\ phase \in {"running", "results"}
  /\ Counted(state)
  /\ state.eligible \subseteq state.listed
  /\ state.resolved <=> state.decision # "none"
  /\ phase = "running" => state.resolved \/ state.round_id = 0
  /\ phase = "results" => ~state.resolved /\ state.round_id # 0

LEMMA InitIInv == Init => IInv
<1>1. Counted(NoIntermission)
  BY NothingCounted
<1>2. QED
  BY <1>1 DEF Init, IInv, NoIntermission, Begin

(* What each step of the intermission does to the record, as one of four   *)
(* cases; every later proof about a step goes through it.                  *)
LEMMA StepCases ==
  ASSUME IInv, [Next]_vars
  PROVE  \/ UNCHANGED state /\ UNCHANGED phase
         \/ \E ids \in SUBSET PlayerIds :
              /\ phase = "running" /\ phase' = "results"
              /\ Cardinality(ids) <= MaxParticipants
              /\ state' = Begin(ids, state.round_id + 1)
         \/ \E id \in PlayerIds, vote \in Choices :
              /\ CanCastVote(state, id, vote)
              /\ state' = CastVote(state, id, vote) /\ UNCHANGED phase
         \/ \E id \in PlayerIds :
              /\ CanRemoveVoter(state, id)
              /\ state' = RemoveVoter(state, id) /\ UNCHANGED phase
         \/ /\ phase = "results" /\ phase' = "running"
            /\ state' = Resolve(state)
<1>1. CASE UNCHANGED vars
  BY <1>1 DEF vars
<1>2. ASSUME NEW ids \in SUBSET PlayerIds, BeginIntermission(ids)
      PROVE  \E i \in SUBSET PlayerIds :
               /\ phase = "running" /\ phase' = "results"
               /\ Cardinality(i) <= MaxParticipants
               /\ state' = Begin(i, state.round_id + 1)
  BY <1>2 DEF BeginIntermission
<1>3. ASSUME NEW id \in PlayerIds, NEW round_id, NEW vote,
             DispatchRematchVote(id, round_id, vote)
      PROVE  \/ UNCHANGED state /\ UNCHANGED phase
             \/ \E i \in PlayerIds, v \in Choices :
                  /\ CanCastVote(state, i, v)
                  /\ state' = CastVote(state, i, v) /\ UNCHANGED phase
  <2>1. CASE CanCastVote(state, id, vote)
    BY <1>3, <2>1 DEF DispatchRematchVote, CanCastVote
  <2>2. CASE ~CanCastVote(state, id, vote)
    BY <1>3, <2>2 DEF DispatchRematchVote, CastVote
  <2>3. QED
    BY <2>1, <2>2
<1>4. ASSUME NEW id \in PlayerIds, RemovePlayer(id)
      PROVE  \/ UNCHANGED state /\ UNCHANGED phase
             \/ \E i \in PlayerIds :
                  /\ CanRemoveVoter(state, i)
                  /\ state' = RemoveVoter(state, i) /\ UNCHANGED phase
  <2>1. CASE CanRemoveVoter(state, id)
    BY <1>4, <2>1 DEF RemovePlayer
  <2>2. CASE ~CanRemoveVoter(state, id)
    BY <1>4, <2>2 DEF RemovePlayer, RemoveVoter
  <2>3. QED
    BY <2>1, <2>2
<1>5. CASE ResolveEarly \/ ResolveOnTimeout
  BY <1>5 DEF ResolveEarly, ResolveOnTimeout, ResolveIntermission
<1>6. QED
  BY <1>1, <1>2, <1>3, <1>4, <1>5 DEF Next

(* The fields of the record a vote, or a departure, leaves alone. *)
LEMMA CastFrame ==
  ASSUME NEW st \in IntermissionStates, NEW id \in PlayerIds, NEW vote \in Choices
  PROVE  /\ CastVote(st, id, vote).listed = st.listed
         /\ CastVote(st, id, vote).eligible = st.eligible
         /\ CastVote(st, id, vote).round_id = st.round_id
         /\ CastVote(st, id, vote).resolved = st.resolved
         /\ CastVote(st, id, vote).decision = st.decision
BY DEF CastVote, AdjustTotal, IntermissionStates

LEMMA RemoveFrame ==
  ASSUME NEW st \in IntermissionStates, NEW id \in PlayerIds
  PROVE  /\ RemoveVoter(st, id).listed = st.listed
         /\ RemoveVoter(st, id).eligible \subseteq st.eligible
         /\ RemoveVoter(st, id).vote = st.vote
         /\ RemoveVoter(st, id).round_id = st.round_id
         /\ RemoveVoter(st, id).resolved = st.resolved
         /\ RemoveVoter(st, id).decision = st.decision
BY DEF RemoveVoter, AdjustTotal, IntermissionStates

(* Resolving an open vote. *)
LEMMA ResolveFrame ==
  ASSUME NEW st \in IntermissionStates, ~st.resolved
  PROVE  /\ Resolve(st).listed = st.listed /\ Resolve(st).eligible = st.eligible
         /\ Resolve(st).vote = st.vote /\ Resolve(st).round_id = st.round_id
         /\ Resolve(st).resolved = TRUE /\ Resolve(st).decision = Decide(st)
         /\ Decide(st) \in Choices
BY DEF Resolve, Decide, IntermissionStates, Choices, Votes

LEMMA StepIInv == IInv /\ [Next]_vars => IInv'
<1> SUFFICES ASSUME IInv, [Next]_vars
             PROVE  IInv'
  OBVIOUS
<1>0. state \in IntermissionStates /\ state.round_id \in Nat
  BY DEF IInv, Counted, IntermissionStates
<1>1. CASE UNCHANGED state /\ UNCHANGED phase
  BY <1>1 DEF IInv, Counted, TalliesMatch, Backing
<1>2. ASSUME NEW ids \in SUBSET PlayerIds, phase' = "results",
             Cardinality(ids) <= MaxParticipants,
             state' = Begin(ids, state.round_id + 1)
      PROVE  IInv'
  <2>1. Counted(state')
    BY <1>0, <1>2, BeginCounted
  <2>2. QED
    BY <1>0, <1>2, <2>1 DEF IInv, Begin
<1>3. ASSUME NEW id \in PlayerIds, NEW vote \in Choices, CanCastVote(state, id, vote),
             state' = CastVote(state, id, vote), UNCHANGED phase
      PROVE  IInv'
  <2>1. Counted(state')
    BY <1>3, CastVoteCounted DEF IInv
  <2>2. /\ state'.listed = state.listed /\ state'.eligible = state.eligible
        /\ state'.round_id = state.round_id /\ state'.resolved = state.resolved
        /\ state'.decision = state.decision
    BY <1>0, <1>3, CastFrame
  <2>3. QED
    BY <1>3, <2>1, <2>2 DEF IInv
<1>4. ASSUME NEW id \in PlayerIds, CanRemoveVoter(state, id),
             state' = RemoveVoter(state, id), UNCHANGED phase
      PROVE  IInv'
  <2>1. Counted(state')
    BY <1>4, RemoveVoterCounted DEF IInv
  <2>2. QED
    BY <1>0, <1>4, <2>1, RemoveFrame DEF IInv
<1>5. CASE phase = "results" /\ phase' = "running" /\ state' = Resolve(state)
  <2>1. Counted(state')
    BY <1>5, ResolveCounted DEF IInv
  <2>2. QED
    BY <1>0, <1>5, <2>1, ResolveFrame DEF IInv, Choices
<1>6. QED
  BY <1>1, <1>2, <1>3, <1>4, <1>5, StepCases

(* Every reachable record is well typed and its totals count its ballots.  *)
THEOREM Invariant == Spec => []IInv
BY InitIInv, StepIInv, PTL DEF Spec

THEOREM TypeCorrect == Spec => []TypeOK
<1>1. IInv => TypeOK
  BY DEF IInv, Counted, TypeOK
<1>2. QED
  BY <1>1, Invariant, PTL

(* The incremental uint16_t totals equal a recount of the ballots, for any *)
(* number of players up to the participant limit.                          *)
THEOREM TalliesCorrect == Spec => []TalliesMatchBallots
<1>1. IInv => TalliesMatchBallots
  BY DEF IInv, Counted, TalliesMatchBallots
<1>2. QED
  BY <1>1, Invariant, PTL

(* Disjoint finite sets: the cardinality of the union is the sum. *)
LEMMA DisjointUnion ==
  ASSUME NEW S, NEW T, IsFiniteSet(S), IsFiniteSet(T), S \cap T = {}
  PROVE  IsFiniteSet(S \cup T) /\ Cardinality(S \cup T) = Cardinality(S) + Cardinality(T)
<1>1. /\ IsFiniteSet(S \cup T)
      /\ Cardinality(S \cup T) = Cardinality(S) + Cardinality(T) - Cardinality(S \cap T)
  BY FS_Union
<1>2. Cardinality(S \cap T) = 0
  BY FS_EmptySet
<1>3. Cardinality(S) \in Nat /\ Cardinality(T) \in Nat
  BY FS_CardinalityType
<1>4. QED
  BY <1>1, <1>2, <1>3

Undecided(st) == {p \in st.eligible : st.vote[p] = "none"}
ForLobby(st) == {p \in st.eligible : st.vote[p] \in {"none", "return_to_lobby"}}

(* Counting the ballots of a well-counted record: the undecided voters are *)
(* those the three piles leave over, so the lobby's total does not wrap.   *)
LEMMA Partition ==
  ASSUME NEW st, Counted(st)
  PROVE  /\ Cardinality(Undecided(st)) \in Nat
         /\ st.play_again_votes \in Nat /\ st.return_to_lobby_votes \in Nat
         /\ st.spectate_votes \in Nat /\ st.eligible_count \in Nat
         /\ st.eligible_count < 65536
         /\ st.eligible_count = Cardinality(Undecided(st)) + st.play_again_votes
                                  + st.return_to_lobby_votes + st.spectate_votes
         /\ Cardinality(ForLobby(st)) = Cardinality(Undecided(st)) + st.return_to_lobby_votes
         /\ Cardinality(Undecided(st)) = 0 => \A p \in st.eligible : st.vote[p] # "none"
<1> DEFINE play == Backing(st, "play_again")
           lobby == Backing(st, "return_to_lobby")
           spectate == Backing(st, "spectate")
           none == Undecided(st)
           forLobby == ForLobby(st)
<1>1. /\ st \in IntermissionStates
      /\ st.eligible_count = Cardinality(st.eligible)
      /\ st.play_again_votes = Cardinality(play)
      /\ st.return_to_lobby_votes = Cardinality(lobby)
      /\ st.spectate_votes = Cardinality(spectate)
      /\ Cardinality(st.eligible) <= MaxParticipants
  BY DEF Counted, TalliesMatch
<1>2. \A p \in st.eligible : st.vote[p] \in Votes
  BY <1>1 DEF IntermissionStates
<1>3. none = Backing(st, "none")
  BY DEF Backing, Undecided
<1>4. /\ IsFiniteSet(st.eligible) /\ Cardinality(st.eligible) \in Nat
      /\ IsFiniteSet(play) /\ IsFiniteSet(lobby) /\ IsFiniteSet(spectate)
      /\ IsFiniteSet(none)
      /\ Cardinality(play) \in Nat /\ Cardinality(lobby) \in Nat
      /\ Cardinality(spectate) \in Nat /\ Cardinality(none) \in Nat
  BY <1>1, <1>3, BackingBound
<1>5. /\ forLobby = none \cup lobby /\ none \cap lobby = {}
      /\ play \cap spectate = {}
      /\ st.eligible = forLobby \cup (play \cup spectate)
      /\ forLobby \cap (play \cup spectate) = {}
  BY <1>2 DEF Backing, Votes, Undecided, ForLobby
<1>6. none = {} => \A p \in st.eligible : st.vote[p] # "none"
  BY DEF Undecided
<1> HIDE DEF play, lobby, spectate, none, forLobby
<1>7. IsFiniteSet(forLobby) /\ Cardinality(forLobby) = Cardinality(none) + Cardinality(lobby)
  BY <1>4, <1>5, DisjointUnion
<1>8. /\ IsFiniteSet(play \cup spectate)
      /\ Cardinality(play \cup spectate) = Cardinality(play) + Cardinality(spectate)
  BY <1>4, <1>5, DisjointUnion
<1>9. Cardinality(st.eligible) = Cardinality(forLobby) + Cardinality(play \cup spectate)
  BY <1>5, <1>7, <1>8, DisjointUnion
<1>10. Cardinality(none) = 0 => none = {}
  BY <1>4, FS_EmptySet
<1>11. /\ Cardinality(none) \in Nat
       /\ st.play_again_votes \in Nat /\ st.return_to_lobby_votes \in Nat
       /\ st.spectate_votes \in Nat /\ st.eligible_count \in Nat
       /\ st.eligible_count < 65536
       /\ st.eligible_count = Cardinality(none) + st.play_again_votes
                                + st.return_to_lobby_votes + st.spectate_votes
       /\ Cardinality(forLobby) = Cardinality(none) + st.return_to_lobby_votes
       /\ Cardinality(none) = 0 => \A p \in st.eligible : st.vote[p] # "none"
  BY <1>1, <1>4, <1>6, <1>7, <1>8, <1>9, <1>10, MaxParticipantsFitsU16
<1>12. QED
  BY <1>11 DEF none, forLobby

(* The vote ends early only when no eligible player is left undecided.     *)
THEOREM EarlyEndCorrect == Spec => []EarlyEndIsUnanimousTurnout
<1>1. IInv => EarlyEndIsUnanimousTurnout
  <2> SUFFICES ASSUME Counted(state), AllEligibleVoted(state)
               PROVE  \A p \in state.eligible : state.vote[p] # "none"
    BY DEF IInv, EarlyEndIsUnanimousTurnout
  <2>1. U16(state.play_again_votes + state.return_to_lobby_votes + state.spectate_votes) =
          state.play_again_votes + state.return_to_lobby_votes + state.spectate_votes
    BY Partition, U16Small
  <2>2. Cardinality(Undecided(state)) = 0
    BY <2>1, Partition DEF AllEligibleVoted
  <2>3. QED
    BY <2>2, Partition
<1>2. QED
  BY <1>1, Invariant, PTL

(* Within a round the electorate only shrinks, and after the resolution    *)
(* nothing changes until the next round opens.                             *)
THEOREM VoteFrozen == Spec => VoteIsFrozen
<1>1. ASSUME IInv, [Next]_vars, state'.round_id = state.round_id
      PROVE  /\ state'.listed = state.listed
             /\ state'.eligible \subseteq state.eligible
             /\ state.resolved => state' = state
  <2>0. state \in IntermissionStates /\ state.round_id \in Nat
    BY <1>1 DEF IInv, Counted, IntermissionStates
  <2>1. ASSUME NEW ids \in SUBSET PlayerIds, state' = Begin(ids, state.round_id + 1)
        PROVE  FALSE
    <3>1. state'.round_id = state.round_id + 1
      BY <2>1 DEF Begin
    <3>2. QED
      BY <1>1, <2>0, <3>1
  <2>2. ASSUME NEW id \in PlayerIds, NEW vote \in Choices, CanCastVote(state, id, vote),
               state' = CastVote(state, id, vote)
        PROVE  state'.listed = state.listed /\ state'.eligible = state.eligible /\ ~state.resolved
    BY <2>0, <2>2, CastFrame DEF CanCastVote
  <2>3. ASSUME NEW id \in PlayerIds, CanRemoveVoter(state, id), state' = RemoveVoter(state, id)
        PROVE  /\ state'.listed = state.listed /\ state'.eligible \subseteq state.eligible
               /\ ~state.resolved
    BY <2>0, <2>3, RemoveFrame DEF CanRemoveVoter
  <2>4. CASE phase = "results" /\ state' = Resolve(state)
    BY <1>1, <2>0, <2>4, ResolveFrame DEF IInv
  <2>5. QED
    BY <1>1, <2>1, <2>2, <2>3, <2>4, StepCases
<1>2. QED
  BY <1>1, Invariant, PTL DEF Spec, VoteIsFrozen, vars

-----------------------------------------------------------------------------
(* The ballot box behind a record. *)
BallotsOf(st) == [p \in PlayerIds |-> IF p \in st.eligible THEN st.vote[p] ELSE "none"]

(* How many voters back each choice in the box, in terms of the counters.  *)
LEMMA BoxCounts ==
  ASSUME Counted(state)
  PROVE  /\ Box!For("play_again") = state.play_again_votes
         /\ Box!For("spectate") = state.spectate_votes
         /\ Box!For("return_to_lobby") = Cardinality(ForLobby(state))
<1>1. state.eligible \in SUBSET PlayerIds
  BY DEF Counted, IntermissionStates
<1>2. \A p \in state.eligible : BallotsOf(state)[p] = state.vote[p]
  BY <1>1 DEF BallotsOf
<1>3. ASSUME NEW choice
      PROVE  Box!For(choice) =
               Cardinality({p \in state.eligible :
                              \/ BallotsOf(state)[p] = choice
                              \/ choice = "return_to_lobby" /\ BallotsOf(state)[p] = "none"})
  <2>1. \A S : Box!Cardinality(S) = Cardinality(S)
    BY DEF Box!Cardinality, Cardinality
  <2>2. QED
    BY <2>1 DEF Box!For, BallotsOf
<1>4. /\ state.play_again_votes = Cardinality(Backing(state, "play_again"))
      /\ state.spectate_votes = Cardinality(Backing(state, "spectate"))
  BY DEF Counted, TalliesMatch
<1>5. Box!For("play_again") = Cardinality(Backing(state, "play_again"))
  <2>1. {p \in state.eligible :
           \/ BallotsOf(state)[p] = "play_again"
           \/ "play_again" = "return_to_lobby" /\ BallotsOf(state)[p] = "none"}
          = Backing(state, "play_again")
    BY <1>2 DEF Backing
  <2>2. QED
    BY <1>3, <2>1
<1>6. Box!For("spectate") = Cardinality(Backing(state, "spectate"))
  <2>1. {p \in state.eligible :
           \/ BallotsOf(state)[p] = "spectate"
           \/ "spectate" = "return_to_lobby" /\ BallotsOf(state)[p] = "none"}
          = Backing(state, "spectate")
    BY <1>2 DEF Backing
  <2>2. QED
    BY <1>3, <2>1
<1>7. Box!For("return_to_lobby") = Cardinality(ForLobby(state))
  <2>1. {p \in state.eligible :
           \/ BallotsOf(state)[p] = "return_to_lobby"
           \/ "return_to_lobby" = "return_to_lobby" /\ BallotsOf(state)[p] = "none"}
          = ForLobby(state)
    BY <1>2 DEF ForLobby
  <2>2. QED
    BY <1>3, <2>1
<1>8. QED
  BY <1>4, <1>5, <1>6, <1>7

(* The decision the code takes from the totals wins the ballot.            *)
LEMMA DecisionWins ==
  ASSUME Counted(state)
  PROVE  Decide(state) \in {c \in Box!Choices : Box!Wins(c)}
<1> DEFINE play == state.play_again_votes
           spectate == state.spectate_votes
           lobby == Cardinality(ForLobby(state))
<1>1. /\ Box!For("play_again") = play /\ Box!For("spectate") = spectate
      /\ Box!For("return_to_lobby") = lobby
  BY BoxCounts
<1>2. /\ play \in Nat /\ spectate \in Nat /\ lobby \in Nat
      /\ LobbyTotal(state) = lobby
  <2>1. /\ state.return_to_lobby_votes + state.eligible_count - state.play_again_votes
             - state.return_to_lobby_votes - state.spectate_votes = lobby
        /\ lobby \in Nat /\ lobby < 65536 /\ play \in Nat /\ spectate \in Nat
    BY Partition
  <2>2. QED
    BY <2>1, U16Small DEF LobbyTotal
<1> HIDE DEF play, spectate, lobby
<1>3. /\ Box!Beats("play_again", "return_to_lobby") <=> play > lobby
      /\ Box!Beats("play_again", "spectate") <=> play >= spectate
      /\ Box!Beats("spectate", "return_to_lobby") <=> spectate > lobby
      /\ Box!Beats("spectate", "play_again") <=> spectate > play
      /\ Box!Beats("return_to_lobby", "play_again") <=> lobby >= play
      /\ Box!Beats("return_to_lobby", "spectate") <=> lobby >= spectate
  BY <1>1, <1>2 DEF Box!Beats
<1>4. /\ Box!Wins("play_again") <=> play > lobby /\ play >= spectate
      /\ Box!Wins("spectate") <=> spectate > lobby /\ spectate > play
      /\ Box!Wins("return_to_lobby") <=> lobby >= play /\ lobby >= spectate
  BY <1>3 DEF Box!Wins, Box!Choices
<1>5. Decide(state) = IF play > lobby /\ play >= spectate THEN "play_again"
                      ELSE IF spectate > lobby /\ spectate > play THEN "spectate"
                      ELSE "return_to_lobby"
  BY <1>2 DEF Decide, play, spectate
<1>6. QED
  BY <1>2, <1>4, <1>5 DEF Box!Choices

(* Every step of the record is a step of the ballot box, or none. *)
LEMMA BoxStep ==
  ASSUME IInv, [Next]_vars
  PROVE  [Box!Next]_(Box!vars)
<1>0. state \in IntermissionStates
  BY DEF IInv, Counted
<1>1. CASE UNCHANGED state
  BY <1>1 DEF Box!vars
<1>2. ASSUME NEW ids \in SUBSET PlayerIds, phase = "running",
             state' = Begin(ids, state.round_id + 1)
      PROVE  Box!Next
  <2>1. /\ state'.eligible = ids /\ state'.round_id = state.round_id + 1
        /\ state'.decision = "none" /\ state'.vote = [p \in PlayerIds |-> "none"]
    BY <1>2 DEF Begin
  <2>2. Box!Open(ids)
    BY <1>2, <2>1 DEF Box!Open, IInv
  <2>3. QED
    BY <2>2 DEF Box!Next
<1>3. ASSUME NEW id \in PlayerIds, NEW vote \in Choices, CanCastVote(state, id, vote),
             state' = CastVote(state, id, vote)
      PROVE  Box!Next
  <2>1. /\ state'.eligible = state.eligible /\ state'.round_id = state.round_id
        /\ state'.decision = state.decision
    BY <1>0, <1>3, CastFrame
  <2>2. state'.vote = [state.vote EXCEPT ![id] = vote]
    BY <1>0, <1>3 DEF CastVote, AdjustTotal, IntermissionStates
  <2>3. id \in state.eligible /\ state.decision = "none" /\ state.vote \in [PlayerIds -> Votes]
    BY <1>0, <1>3 DEF CanCastVote, IInv, IntermissionStates
  <2>4. BallotsOf(state)' = [BallotsOf(state) EXCEPT ![id] = vote]
    BY <2>1, <2>2, <2>3 DEF BallotsOf
  <2>5. Box!Cast(id, vote)
    BY <2>1, <2>3, <2>4 DEF Box!Cast, BallotsOf
  <2>6. QED
    BY <2>5 DEF Box!Next, Box!Choices, Choices, Votes
<1>4. ASSUME NEW id \in PlayerIds, CanRemoveVoter(state, id), state' = RemoveVoter(state, id)
      PROVE  Box!Next
  <2>1. /\ state'.round_id = state.round_id /\ state'.decision = state.decision
        /\ state'.vote = state.vote
    BY <1>0, <1>4, RemoveFrame
  <2>2. state'.eligible = state.eligible \ {id}
    BY <1>0, <1>4 DEF RemoveVoter, AdjustTotal, IntermissionStates
  <2>3. id \in state.eligible /\ state.decision = "none"
    BY <1>0, <1>4 DEF CanRemoveVoter, IInv
  <2>4. BallotsOf(state)' = [BallotsOf(state) EXCEPT ![id] = "none"]
    BY <2>1, <2>2, <2>3 DEF BallotsOf
  <2>5. Box!Withdraw(id)
    BY <2>1, <2>2, <2>3, <2>4 DEF Box!Withdraw, BallotsOf
  <2>6. QED
    BY <2>5 DEF Box!Next
<1>5. CASE phase = "results" /\ state' = Resolve(state)
  <2>1. /\ ~state.resolved /\ state.round_id # 0 /\ state.decision = "none"
    BY <1>5 DEF IInv
  <2>2. /\ state'.eligible = state.eligible /\ state'.round_id = state.round_id
        /\ state'.vote = state.vote /\ state'.decision = Decide(state)
    BY <1>0, <1>5, <2>1, ResolveFrame
  <2>3. Decide(state) \in {c \in Box!Choices : Box!Wins(c)}
    BY DecisionWins DEF IInv
  <2>4. Box!Close
    BY <2>1, <2>2, <2>3 DEF Box!Close
  <2>5. QED
    BY <2>4 DEF Box!Next
<1>6. QED
  BY <1>1, <1>2, <1>3, <1>4, <1>5, StepCases

(* intermission.c implements the ballot box: one outcome per round, the    *)
(* documented winner of the ballots of those still present.                *)
THEOREM RefinesBallot == Spec => ImplementsBallot
<1>1. Init => Box!Init
  BY DEF Init, Box!Init, NoIntermission, Begin
<1>2. IInv /\ [Next]_vars => [Box!Next]_(Box!vars)
  BY BoxStep
<1>3. QED
  BY <1>1, <1>2, Invariant, PTL DEF Spec, ImplementsBallot, Box!Spec

=============================================================================
