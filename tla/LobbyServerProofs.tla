-------------------------- MODULE LobbyServerProofs --------------------------
(***************************************************************************)
(* The match server for any numbers of sessions, lobbies, bots and rounds: *)
(* where its players are, who votes and stays, and what it writes of its   *)
(* rounds.  Each section proves one invariant with those before it.        *)
(***************************************************************************)
EXTENDS LobbyServer, FiniteSetTheorems, WellFoundedInduction, TLAPS

(* The numbers of src/shared/config.h and the identifiers.                 *)
LEMMA Numbers ==
  /\ MaxSessions \in Nat /\ MaxLobbies \in Nat /\ MaxSessions > 0 /\ MaxLobbies > 0
  /\ MaxParticipants \in Nat /\ MaxParticipants > 0 /\ ResultsTicks \in Nat /\ ResultsTicks > 0
  /\ BotFloor \in Nat /\ BotTarget \in Nat /\ BotWeight \in Nat
  /\ DefaultLobbies \in Nat /\ DefaultLobbies > 0 /\ DefaultLobbies <= MaxLobbies
  /\ PlayerIds \subseteq Nat /\ 0 \notin PlayerIds /\ \A id \in PlayerIds : id > 0
  /\ NoAccount \notin Accounts
BY ServerParameters

-----------------------------------------------------------------------------
(* ---- The records ------------------------------------------------------ *)

(* A counter of ballots moves and nothing else (AdjustTotal).              *)
LEMMA AdjustTotalShape ==
  ASSUME NEW st \in IntermissionStates, NEW vote, NEW delta \in Int
  PROVE  /\ AdjustTotal(st, vote, delta) \in IntermissionStates
         /\ AdjustTotal(st, vote, delta).eligible = st.eligible
         /\ AdjustTotal(st, vote, delta).eligible_count = st.eligible_count
         /\ AdjustTotal(st, vote, delta).round_id = st.round_id
         /\ AdjustTotal(st, vote, delta).resolved = st.resolved
         /\ AdjustTotal(st, vote, delta).decision = st.decision
<1> DEFINE again == IF vote = "play_again" THEN U16(st.play_again_votes + delta) ELSE st.play_again_votes
           back == IF vote = "return_to_lobby" THEN U16(st.return_to_lobby_votes + delta) ELSE st.return_to_lobby_votes
           watch == IF vote = "spectate" THEN U16(st.spectate_votes + delta) ELSE st.spectate_votes
<1>1. /\ st.play_again_votes \in Nat /\ st.return_to_lobby_votes \in Nat /\ st.spectate_votes \in Nat
  BY DEF IntermissionStates
<1>2. again \in Nat /\ back \in Nat /\ watch \in Nat
  BY <1>1 DEF U16
<1>3. AdjustTotal(st, vote, delta) =
        [st EXCEPT !.play_again_votes = again, !.return_to_lobby_votes = back, !.spectate_votes = watch]
  BY DEF AdjustTotal
<1> HIDE DEF again, back, watch
<1> QED BY <1>2, <1>3 DEF IntermissionStates

(* A vote keeps its shape, its round and its electorate but for who leaves *)
(* (intermission.c).                                                       *)
LEMMA RemoveVoterShape ==
  ASSUME NEW st \in IntermissionStates, NEW id
  PROVE  /\ RemoveVoter(st, id) \in IntermissionStates
         /\ RemoveVoter(st, id).eligible = IF st.resolved THEN st.eligible ELSE st.eligible \ {id}
         /\ RemoveVoter(st, id).round_id = st.round_id
         /\ RemoveVoter(st, id).resolved = st.resolved
         /\ RemoveVoter(st, id).decision = st.decision
<1>1. \A n \in Int : U16(n) \in Nat
  BY DEF U16
<1>2. CASE ~CanRemoveVoter(st, id)
  BY <1>2 DEF RemoveVoter, CanRemoveVoter, IntermissionStates
<1>3. CASE CanRemoveVoter(st, id)
  <2>1. id \in PlayerIds /\ st.vote[id] \in Votes /\ ~st.resolved
    BY <1>3 DEF CanRemoveVoter, IntermissionStates
  <2> DEFINE a == AdjustTotal(st, st.vote[id], -1)
  <2>2. /\ a \in IntermissionStates /\ a.eligible = st.eligible /\ a.round_id = st.round_id
        /\ a.resolved = st.resolved /\ a.decision = st.decision /\ a.eligible_count \in Nat
    BY AdjustTotalShape DEF IntermissionStates
  <2>3. RemoveVoter(st, id) = [a EXCEPT !.eligible = @ \ {id}, !.eligible_count = U16(@ - 1)]
    BY <1>3 DEF RemoveVoter
  <2>4. U16(a.eligible_count - 1) \in Nat
    BY <1>1, <2>2
  <2> HIDE DEF a
  <2> DEFINE n == U16(a.eligible_count - 1)
  <2>5. RemoveVoter(st, id) = [a EXCEPT !.eligible = a.eligible \ {id}, !.eligible_count = n]
    BY <2>3
  <2> HIDE DEF n
  <2> QED BY <2>1, <2>2, <2>4, <2>5 DEF IntermissionStates, n
<1> QED BY <1>2, <1>3

(* A vote moves counters and one record (CastRematchVote, intermission.c). *)
LEMMA CastVoteShape ==
  ASSUME NEW st \in IntermissionStates, NEW id, NEW vote
  PROVE  /\ CastVote(st, id, vote) \in IntermissionStates
         /\ CastVote(st, id, vote).eligible = st.eligible
         /\ CastVote(st, id, vote).round_id = st.round_id
         /\ CastVote(st, id, vote).resolved = st.resolved
<1>1. \A n \in Int : U16(n) \in Nat
  BY DEF U16
<1>2. CASE ~CanCastVote(st, id, vote)
  BY <1>2 DEF CastVote
<1>3. CASE CanCastVote(st, id, vote)
  <2>1. id \in PlayerIds /\ vote \in Votes
    BY <1>3 DEF CanCastVote, IntermissionStates, Choices
  <2> DEFINE a == AdjustTotal(st, st.vote[id], -1)
             b == [a EXCEPT !.vote[id] = vote]
  <2>2. /\ a \in IntermissionStates /\ a.eligible = st.eligible /\ a.round_id = st.round_id
        /\ a.resolved = st.resolved
    BY AdjustTotalShape
  <2> HIDE DEF a
  <2>3. /\ b \in IntermissionStates /\ b.eligible = st.eligible /\ b.round_id = st.round_id
        /\ b.resolved = st.resolved
    BY <2>1, <2>2 DEF IntermissionStates
  <2>4. CastVote(st, id, vote) = AdjustTotal(b, vote, 1)
    BY <1>3 DEF CastVote, a
  <2> HIDE DEF b
  <2> QED BY <2>3, <2>4, AdjustTotalShape
<1> QED BY <1>2, <1>3

(* A vote opens on the electorate that it is given (BeginIntermission).    *)
LEMMA BeginShape ==
  ASSUME NEW ids \in SUBSET PlayerIds, NEW round_id \in Nat
  PROVE  /\ Begin(ids, round_id) \in IntermissionStates
         /\ Begin(ids, round_id).eligible = ids /\ Begin(ids, round_id).round_id = round_id
         /\ ~Begin(ids, round_id).resolved
<1>1. Cardinality(ids) \in Nat
  BY PlayerIdsFinite, FS_Subset, FS_CardinalityType
<1> QED BY <1>1 DEF Begin, IntermissionStates, Votes

(* A decision closes the vote and keeps its electorate.                    *)
LEMMA ResolveShape ==
  ASSUME NEW st \in IntermissionStates, ~st.resolved
  PROVE  /\ Resolve(st) \in IntermissionStates
         /\ Resolve(st).eligible = st.eligible /\ Resolve(st).round_id = st.round_id
         /\ Resolve(st).resolved /\ Resolve(st).decision \in Votes
<1>1. Decide(st) \in Votes
  BY DEF Decide, Votes
<1> QED BY <1>1 DEF Resolve, IntermissionStates

(* What a captured participant p becomes when the world has the stats.     *)
Captured(p, q, stats) ==
  /\ q \in ParticipantRecords /\ q.runtime = p.runtime /\ q.lives = p.lives
  /\ q.counted = IF p.runtime \in stats THEN Append(p.counted, p.runtime) ELSE p.counted

(* The participants are those of before, with other entries (Capture).     *)
LEMMA CaptureShape ==
  ASSUME NEW lob, LobbyOK(lob), NEW id, NEW gone
  PROVE  /\ ParticipantTable(Capture(lob, id, gone))
         /\ DOMAIN Capture(lob, id, gone) = DOMAIN lob.participants
         /\ \A a \in DOMAIN lob.participants :
              IF lob.participants[a].runtime # id
              THEN Capture(lob, id, gone)[a] = lob.participants[a]
              ELSE /\ Captured(lob.participants[a], Capture(lob, id, gone)[a], lob.stats)
                   /\ gone => Capture(lob, id, gone)[a].disconnected
<1>1. \A a \in DOMAIN lob.participants : lob.participants[a] \in ParticipantRecords
  BY DEF LobbyOK, ParticipantTable
<1>2. ASSUME NEW p \in ParticipantRecords, p.runtime = id
      PROVE  LET q == [ p EXCEPT !.disconnected = @ \/ gone,
                                 !.counted = IF id \in lob.stats THEN Append(@, id) ELSE @ ]
             IN Captured(p, q, lob.stats) /\ (gone => q.disconnected)
  <2>1. Append(p.counted, id) \in Seq(PlayerIds)
    BY <1>2 DEF ParticipantRecords
  <2> QED BY <1>2, <2>1 DEF ParticipantRecords, Captured
<1>3. /\ DOMAIN Capture(lob, id, gone) = DOMAIN lob.participants
      /\ \A a \in DOMAIN lob.participants :
           Capture(lob, id, gone)[a] =
             LET p == lob.participants[a] IN
             IF p.runtime # id THEN p
             ELSE [ p EXCEPT !.disconnected = @ \/ gone,
                             !.counted = IF id \in lob.stats THEN Append(@, id) ELSE @ ]
  BY DEF Capture
<1>4. ASSUME NEW a \in DOMAIN lob.participants
      PROVE  /\ Capture(lob, id, gone)[a] \in ParticipantRecords
             /\ IF lob.participants[a].runtime # id
                THEN Capture(lob, id, gone)[a] = lob.participants[a]
                ELSE /\ Captured(lob.participants[a], Capture(lob, id, gone)[a], lob.stats)
                     /\ gone => Capture(lob, id, gone)[a].disconnected
  <2>1. CASE lob.participants[a].runtime # id
    BY <1>1, <1>3, <2>1
  <2>2. CASE lob.participants[a].runtime = id
    <3> DEFINE p == lob.participants[a]
    <3>1. p \in ParticipantRecords /\ p.runtime = id
      BY <1>1, <2>2
    <3>2. Capture(lob, id, gone)[a] =
            [ p EXCEPT !.disconnected = @ \/ gone,
                       !.counted = IF id \in lob.stats THEN Append(@, id) ELSE @ ]
      BY <1>3, <2>2
    <3> HIDE DEF p
    <3>3. Captured(p, Capture(lob, id, gone)[a], lob.stats) /\ (gone => Capture(lob, id, gone)[a].disconnected)
      BY <1>2, <3>1, <3>2
    <3> QED BY <2>2, <3>3 DEF p, Captured
  <2> QED BY <2>1, <2>2
<1>5. Capture(lob, id, gone) \in [DOMAIN lob.participants -> ParticipantRecords]
  BY <1>4 DEF Capture
<1> QED BY <1>3, <1>4, <1>5 DEF ParticipantTable, LobbyOK

(* What most steps leave of a lobby: its identity and its round.           *)
Kept(lob, new) ==
  /\ new.active = lob.active /\ new.lobby_id = lob.lobby_id /\ new.phase = lob.phase
  /\ new.next_round_id = lob.next_round_id /\ new.round = lob.round

(* What a departure changes (DisconnectSession, HandleLobbyLeave).         *)
LEMMA DepartShape ==
  ASSUME NEW lob, LobbyOK(lob), NEW c
  PROVE  LET new == Depart(lob, c) IN
         /\ LobbyOK(new) /\ Kept(lob, new) /\ new.bots = lob.bots
         /\ new.intermission = RemoveVoter(lob.intermission, c.player_id)
         /\ new.colonies = lob.colonies \ {c.player_id} /\ new.stats = lob.stats \ {c.player_id}
         /\ new.participants = IF c.entered_match THEN Capture(lob, c.player_id, TRUE) ELSE lob.participants
<1> DEFINE vote == RemoveVoter(lob.intermission, c.player_id)
           captured == IF c.entered_match THEN Capture(lob, c.player_id, TRUE) ELSE lob.participants
<1>1. vote \in IntermissionStates
  BY RemoveVoterShape DEF LobbyOK
<1>2. ParticipantTable(captured)
  BY CaptureShape DEF LobbyOK
<1>3. Depart(lob, c) =
        [ lob EXCEPT !.intermission = vote, !.participants = captured,
                     !.colonies = lob.colonies \ {c.player_id}, !.stats = lob.stats \ {c.player_id} ]
  BY DEF Depart, LobbyOK
<1> HIDE DEF vote, captured
<1>4. /\ Kept(lob, Depart(lob, c)) /\ Depart(lob, c).bots = lob.bots /\ Depart(lob, c).intermission = vote
      /\ Depart(lob, c).colonies = lob.colonies \ {c.player_id}
      /\ Depart(lob, c).stats = lob.stats \ {c.player_id} /\ Depart(lob, c).participants = captured
  BY <1>3 DEF Kept, LobbyOK
<1>5. LobbyOK(Depart(lob, c))
  BY <1>1, <1>2, <1>3, <1>4 DEF LobbyOK
<1> QED BY <1>4, <1>5 DEF vote, captured

(* A tick sets the bots (AdjustLobbyBots).                                 *)
LEMMA TickedShape ==
  ASSUME NEW lob, LobbyOK(lob), NEW bots \in Nat
  PROVE  LET new == Ticked(lob, bots) IN
         /\ LobbyOK(new) /\ Kept(lob, new) /\ new.bots = bots
         /\ new.intermission = lob.intermission /\ new.colonies = lob.colonies /\ new.stats = lob.stats
         /\ new.participants = lob.participants /\ new.results_left = lob.results_left
BY DEF Ticked, LobbyOK, Kept

(* A running tick: what the world counts for its colonies                  *)
(* (ShroomWorldStep).                                                      *)
LEMMA SimulatedShape ==
  ASSUME NEW lob, LobbyOK(lob), NEW bots \in Nat
  PROVE  LET new == Simulated(lob, bots) IN
         /\ LobbyOK(new) /\ Kept(lob, new) /\ new.bots = bots
         /\ new.intermission = lob.intermission /\ new.colonies = lob.colonies /\ new.stats = lob.colonies
         /\ DOMAIN new.participants = DOMAIN lob.participants
         /\ \A a \in DOMAIN lob.participants :
              LET p == lob.participants[a]  q == new.participants[a] IN
              /\ q.runtime = p.runtime /\ q.disconnected = p.disconnected /\ q.counted = p.counted
              /\ q.lives = p.lives \cup ({p.runtime} \cap lob.colonies)
<1> DEFINE lived == [ a \in DOMAIN lob.participants |->
                        LET p == lob.participants[a]
                        IN [p EXCEPT !.lives = p.lives \cup ({p.runtime} \cap lob.colonies)] ]
           ticked == Ticked(lob, bots)
<1>1. \A a \in DOMAIN lob.participants : lob.participants[a] \in ParticipantRecords
  BY DEF LobbyOK, ParticipantTable
<1>2. ASSUME NEW p \in ParticipantRecords
      PROVE  LET q == [p EXCEPT !.lives = p.lives \cup ({p.runtime} \cap lob.colonies)] IN
             /\ q \in ParticipantRecords /\ q.runtime = p.runtime /\ q.disconnected = p.disconnected
             /\ q.counted = p.counted /\ q.lives = p.lives \cup ({p.runtime} \cap lob.colonies)
  BY <1>2 DEF ParticipantRecords
<1>3. ParticipantTable(lived)
  <2>1. \A a \in DOMAIN lob.participants : lived[a] \in ParticipantRecords
    BY <1>1, <1>2
  <2> QED BY <2>1 DEF ParticipantTable, LobbyOK
<1>4. \A a \in DOMAIN lob.participants :
        LET p == lob.participants[a]  q == lived[a] IN
        /\ q.runtime = p.runtime /\ q.disconnected = p.disconnected /\ q.counted = p.counted
        /\ q.lives = p.lives \cup ({p.runtime} \cap lob.colonies)
  BY <1>1, <1>2
<1>5. /\ LobbyOK(ticked) /\ Kept(lob, ticked) /\ ticked.bots = bots
      /\ ticked.intermission = lob.intermission /\ ticked.colonies = lob.colonies
      /\ ticked.participants = lob.participants
  BY TickedShape
<1>6. Simulated(lob, bots) = [ticked EXCEPT !.stats = lob.colonies, !.participants = lived]
  BY <1>5 DEF Simulated
<1>7. DOMAIN lived = DOMAIN lob.participants
  OBVIOUS
<1> HIDE DEF ticked, lived
<1>8. /\ Kept(lob, Simulated(lob, bots)) /\ Simulated(lob, bots).bots = bots
      /\ Simulated(lob, bots).intermission = lob.intermission
      /\ Simulated(lob, bots).colonies = lob.colonies /\ Simulated(lob, bots).stats = lob.colonies
      /\ Simulated(lob, bots).participants = lived
  BY <1>5, <1>6 DEF Kept, LobbyOK
<1>9. LobbyOK(Simulated(lob, bots))
  BY <1>3, <1>5, <1>6, <1>8 DEF LobbyOK
<1> QED BY <1>4, <1>7, <1>8, <1>9

(* The participants at the end of a round (PersistLobbyRound).             *)
LEMMA CaptureRemainingShape ==
  ASSUME NEW lob, LobbyOK(lob)
  PROVE  /\ ParticipantTable(CaptureRemaining(lob))
         /\ DOMAIN CaptureRemaining(lob) = DOMAIN lob.participants
         /\ \A a \in DOMAIN lob.participants :
              IF lob.participants[a].disconnected
              THEN CaptureRemaining(lob)[a] = lob.participants[a]
              ELSE Captured(lob.participants[a], CaptureRemaining(lob)[a], lob.stats)
<1>1. /\ DOMAIN CaptureRemaining(lob) = DOMAIN lob.participants
      /\ \A a \in DOMAIN lob.participants :
           CaptureRemaining(lob)[a] = IF lob.participants[a].disconnected THEN lob.participants[a]
                                      ELSE Capture(lob, lob.participants[a].runtime, FALSE)[a]
  BY DEF CaptureRemaining
<1>2. ASSUME NEW a \in DOMAIN lob.participants
      PROVE  /\ Captured(lob.participants[a], Capture(lob, lob.participants[a].runtime, FALSE)[a], lob.stats)
             /\ lob.participants[a] \in ParticipantRecords
  <2>1. PICK id : id = lob.participants[a].runtime
    OBVIOUS
  <2>2. Captured(lob.participants[a], Capture(lob, id, FALSE)[a], lob.stats)
    BY <2>1, CaptureShape
  <2> QED BY <2>1, <2>2 DEF ParticipantTable, LobbyOK
<1>3. ASSUME NEW a \in DOMAIN lob.participants
      PROVE  CaptureRemaining(lob)[a] \in ParticipantRecords
  BY <1>1, <1>2 DEF Captured
<1>4. ParticipantTable(CaptureRemaining(lob))
  BY <1>1, <1>3 DEF ParticipantTable, LobbyOK, CaptureRemaining
<1> QED BY <1>1, <1>2, <1>4

(* An empty slot of lobbies[].                                             *)
LEMMA NoLobbyShape ==
  /\ LobbyOK(NoLobby) /\ ~NoLobby.active /\ NoLobby.phase = "running" /\ NoLobby.next_round_id = 0
  /\ NoLobby.colonies = {} /\ NoLobby.stats = {} /\ DOMAIN NoLobby.participants = {}
  /\ ParticipantTable(NoLobby.participants)
<1> DEFINE none == [a \in {} |-> NoAccount]
<1>1. ParticipantTable(none) /\ DOMAIN none = {}
  BY DEF ParticipantTable
<1>2. NoIntermission \in IntermissionStates
  BY BeginShape DEF NoIntermission
<1>3. NoLobby =
        [ active |-> FALSE, is_dynamic |-> FALSE, lobby_id |-> 0, phase |-> "running",
          results_left |-> 0, colonies |-> {}, stats |-> {}, bots |-> 0, empty |-> FALSE,
          intermission |-> NoIntermission, next_round_id |-> 0, round |-> 0,
          participants |-> none ]
  BY DEF NoLobby
<1> HIDE DEF none
<1>4. 0 \in 0..ResultsTicks
  BY Numbers
<1> QED BY <1>1, <1>2, <1>3, <1>4 DEF LobbyOK

(* A lobby that was just made (CreateLobby).                               *)
LEMMA CreatedShape ==
  ASSUME NEW id \in Nat, NEW dynamic \in BOOLEAN, NEW uuid \in Nat
  PROVE  LET new == CreatedLobby(id, dynamic, uuid) IN
         /\ LobbyOK(new) /\ new.active /\ new.lobby_id = id /\ new.phase = "running" /\ new.round = uuid
         /\ new.next_round_id = 0 /\ new.bots = BotTargetFor(0)
         /\ new.colonies = {} /\ new.stats = {} /\ DOMAIN new.participants = {}
<1>1. BotTargetFor(0) \in Nat
  BY Numbers DEF BotTargetFor
<1> QED BY <1>1, NoLobbyShape DEF CreatedLobby, LobbyOK

(* The lobby that a client asked for (HandleLobbyCreate).                  *)
Fresh(id, uuid) == CreatedLobby(id, TRUE, uuid)

(* CreateLobby makes a dynamic lobby: running, empty, with its bots.       *)
LEMMA FreshShape ==
  ASSUME NEW id \in Nat, NEW uuid \in Nat
  PROVE  LET new == Fresh(id, uuid) IN
         /\ LobbyOK(new) /\ new.active /\ new.lobby_id = id /\ new.phase = "running" /\ new.round = uuid
         /\ new.next_round_id = 0 /\ new.bots = BotTargetFor(0)
         /\ new.colonies = {} /\ new.stats = {} /\ DOMAIN new.participants = {}
<1>1. PICK yes \in BOOLEAN : yes = TRUE
  OBVIOUS
<1>2. Fresh(id, uuid) = CreatedLobby(id, yes, uuid)
  BY <1>1, Zenon DEF Fresh
<1> QED BY <1>2, CreatedShape

(* The end of a match (PersistLobbyRound, BeginIntermission).              *)
LEMMA EndedShape ==
  ASSUME NEW lob, LobbyOK(lob), Electorate(lob) \in SUBSET PlayerIds
  PROVE  LET new == Ended(lob) IN
         /\ LobbyOK(new) /\ new.active = lob.active /\ new.lobby_id = lob.lobby_id /\ new.round = lob.round
         /\ new.phase = "results" /\ new.bots = lob.bots /\ new.colonies = lob.colonies
         /\ new.next_round_id = lob.next_round_id + 1
         /\ new.intermission = Begin(Electorate(lob), lob.next_round_id + 1)
<1> DEFINE left == CaptureRemaining(lob)
           vote == Begin(Electorate(lob), lob.next_round_id + 1)
<1>1. ParticipantTable(left)
  BY CaptureRemainingShape
<1>2. lob.next_round_id \in Nat /\ lob.next_round_id + 1 \in Nat
  BY DEF LobbyOK
<1>3. vote \in IntermissionStates
  BY <1>2, BeginShape
<1>4. Ended(lob) = [ lob EXCEPT !.phase = "results", !.results_left = ResultsTicks,
                                !.participants = left, !.next_round_id = lob.next_round_id + 1,
                                !.intermission = vote ]
  BY DEF Ended, LobbyOK
<1> HIDE DEF left, vote
<1>5. /\ Ended(lob).active = lob.active /\ Ended(lob).lobby_id = lob.lobby_id /\ Ended(lob).round = lob.round
      /\ Ended(lob).phase = "results" /\ Ended(lob).bots = lob.bots /\ Ended(lob).colonies = lob.colonies
      /\ Ended(lob).next_round_id = lob.next_round_id + 1 /\ Ended(lob).intermission = vote
      /\ Ended(lob).participants = left
  BY <1>4 DEF LobbyOK
<1>6. ResultsTicks \in 0..ResultsTicks
  BY Numbers
<1>7. LobbyOK(Ended(lob))
  BY <1>1, <1>2, <1>3, <1>4, <1>5, <1>6, ZenonT(60) DEF LobbyOK
<1> QED BY <1>5, <1>7 DEF vote

(* The entry a session c gets among the participants ps.                   *)
EntryOf(ps, q, c) ==
  /\ c.account # NoAccount /\ c.player_id # 0
  /\ q \in ParticipantRecords /\ q.runtime = c.player_id /\ ~q.disconnected
  /\ \A b \in DOMAIN ps : ps[b].runtime # c.player_id
  /\ IF c.account \in DOMAIN ps
     THEN q.counted = ps[c.account].counted /\ q.lives = ps[c.account].lives
     ELSE q.counted = <<>> /\ q.lives = {}

(* A session enters the participants, or not (                             *)
(* RegisterPersistenceParticipant).                                        *)
LEMMA RegisterShape ==
  ASSUME NEW ps, ParticipantTable(ps), NEW c \in SessionRecords
  PROVE  /\ ParticipantTable(Register(ps, c))
         /\ \A a \in DOMAIN Register(ps, c) :
              \/ a \in DOMAIN ps /\ Register(ps, c)[a] = ps[a]
              \/ a = c.account /\ EntryOf(ps, Register(ps, c)[a], c)
<1>1. /\ c.account \in Accounts \cup {NoAccount} /\ c.player_id \in PlayerIds \cup {0}
      /\ DOMAIN ps \subseteq Accounts /\ ps \in [DOMAIN ps -> ParticipantRecords]
  BY DEF SessionRecords, ParticipantTable
<1>2. CASE \/ c.spectating \/ c.player_id = 0 \/ c.account = NoAccount
           \/ (\E a \in DOMAIN ps : ps[a].runtime = c.player_id)
  BY <1>2 DEF Register
<1>3. CASE ~(\/ c.spectating \/ c.player_id = 0 \/ c.account = NoAccount
             \/ (\E a \in DOMAIN ps : ps[a].runtime = c.player_id))
  <2>1. c.account \in Accounts /\ c.player_id \in PlayerIds
    BY <1>1, <1>3
  <2>2. CASE c.account \in DOMAIN ps
    <3> DEFINE old == ps[c.account]
               q == [[old EXCEPT !.runtime = c.player_id] EXCEPT !.disconnected = FALSE]
    <3>1. old \in ParticipantRecords
      BY <1>1, <2>2
    <3>2. /\ q \in ParticipantRecords /\ q.runtime = c.player_id /\ ~q.disconnected
          /\ q.counted = old.counted /\ q.lives = old.lives
      BY <2>1, <3>1 DEF ParticipantRecords
    <3>3. Register(ps, c) = [ps EXCEPT ![c.account] = q]
      BY <1>1, <1>3, <2>2, <3>1 DEF Register, ParticipantRecords
    <3> HIDE DEF q
    <3>4. EntryOf(ps, q, c)
      BY <1>3, <2>2, <3>2 DEF EntryOf
    <3> QED BY <1>1, <2>2, <3>2, <3>3, <3>4 DEF ParticipantTable
  <2>3. CASE c.account \notin DOMAIN ps /\ Cardinality(DOMAIN ps) >= MaxParticipants
    BY <1>3, <2>3 DEF Register
  <2>4. CASE c.account \notin DOMAIN ps /\ ~(Cardinality(DOMAIN ps) >= MaxParticipants)
    <3> DEFINE q == [ runtime |-> c.player_id, disconnected |-> FALSE, counted |-> <<>>, lives |-> {} ]
    <3>1. Register(ps, c) = [a \in DOMAIN ps \cup {c.account} |-> IF a \in DOMAIN ps THEN ps[a] ELSE q]
      BY <1>3, <2>4 DEF Register
    <3>2. /\ q \in ParticipantRecords /\ q.runtime = c.player_id /\ ~q.disconnected
          /\ q.counted = <<>> /\ q.lives = {}
      BY <2>1 DEF ParticipantRecords
    <3> HIDE DEF q
    <3>3. EntryOf(ps, q, c)
      BY <1>3, <2>4, <3>2 DEF EntryOf
    <3>4. ParticipantTable(Register(ps, c))
      BY <1>1, <2>1, <2>4, <3>1, <3>2 DEF ParticipantTable
    <3> QED BY <1>1, <2>4, <3>1, <3>3, <3>4
  <2> QED BY <2>2, <2>3, <2>4
<1> QED BY <1>2, <1>3

(* A bounded set of numbers has a greatest.                                *)
LEMMA Greatest ==
  ASSUME NEW S, S \subseteq Nat, S # {}, NEW n \in Nat, \A i \in S : i <= n
  PROVE  \E m \in S : \A i \in S : i <= m
<1> DEFINE Bounds == {b \in Nat : \A i \in S : i <= b}
           less == OpToRel(<, Nat)
<1>1. \A i, j \in Nat : i < j => <<i, j>> \in less
  BY DEF OpToRel
<1>2. IsWellFoundedOn(less, Nat)
  BY NatLessThanWellFounded
<1> HIDE DEF less
<1>3. Bounds \subseteq Nat /\ Bounds # {}
  OBVIOUS
<1>4. PICK m \in Bounds : \A b \in Bounds : ~(<<b, m>> \in less)
  BY <1>2, <1>3, WFMin
<1>5. m \in S
  <2>1. SUFFICES ASSUME m \notin S PROVE FALSE
    OBVIOUS
  <2>2. PICK i : i \in S
    OBVIOUS
  <2>3. m - 1 \in Nat /\ m - 1 < m
    BY <2>1, <2>2
  <2>4. m - 1 \in Bounds
    BY <2>1, <2>3
  <2> QED BY <1>1, <1>4, <2>3, <2>4
<1> QED BY <1>4, <1>5

(* A set of numbers has a least.                                           *)
LEMMA Least ==
  ASSUME NEW S, S \subseteq Nat, S # {}
  PROVE  \E m \in S : \A i \in S : m <= i
<1> DEFINE less == OpToRel(<, Nat)
<1>1. \A i, j \in Nat : i < j => <<i, j>> \in less
  BY DEF OpToRel
<1>2. IsWellFoundedOn(less, Nat)
  BY NatLessThanWellFounded
<1> HIDE DEF less
<1>3. PICK m \in S : \A i \in S : ~(<<i, m>> \in less)
  BY <1>2, WFMin
<1>4. ASSUME NEW i \in S
      PROVE  m <= i
  <2>1. i \in Nat /\ m \in Nat /\ ~(i < m)
    BY <1>1, <1>3
  <2> QED BY <2>1
<1> QED BY <1>4

(* A lobby is made in a free slot, under the next id and with a fresh uuid *)
(* (CreateLobby), or only the id is spent.                                 *)
LEMMA CreateShape ==
  ASSUME NEW s, NEW ok, HandleLobbyCreate(s, ok)
  PROVE  /\ next_lobby_id' = next_lobby_id + 1
         /\ UNCHANGED <<session, voice, next_player_id, up, environment>>
         /\ \/ UNCHANGED <<lobby, rows, rounds>>
            \/ \E l \in Slots :
                 /\ ~lobby[l].active /\ rounds' = rounds + 1
                 /\ lobby' = [lobby EXCEPT ![l] = Fresh(next_lobby_id, rounds + 1)]
                 /\ rows' = BeginRow(rows, rounds + 1, Fresh(next_lobby_id, rounds + 1), ok)
<1> DEFINE free == {l \in Slots : ~lobby[l].active}
           first == CHOOSE i \in free : \A j \in free : i <= j
           created == Fresh(next_lobby_id, rounds + 1)
<1>1. /\ next_lobby_id' = next_lobby_id + 1
      /\ UNCHANGED <<session, voice, next_player_id, up, environment>>
      /\ IF free = {} THEN UNCHANGED <<lobby, rows, rounds>>
         ELSE /\ lobby' = [lobby EXCEPT ![first] = created]
              /\ rows' = BeginRow(rows, rounds + 1, created, ok) /\ rounds' = rounds + 1
  BY DEF HandleLobbyCreate, Fresh
<1>2. ASSUME free # {}
      PROVE  first \in free
  <2>1. free \subseteq Nat
    BY Numbers DEF Slots
  <2> HIDE DEF free
  <2> QED BY <1>2, <2>1, Least
<1>3. free = {l \in Slots : ~lobby[l].active}
  OBVIOUS
<1> HIDE DEF free, first
<1> QED BY <1>1, <1>2, <1>3

(* A session of the lobby that is in the match when a round begins.        *)
Staying(lob, after, s) ==
  /\ Here(s, lob) /\ after[s].peer = "connected" /\ after[s].entered_match /\ ~after[s].spectating
  /\ after[s].player_id # 0 /\ after[s].account # NoAccount

(* The participants of a new round are sessions in it (BeginLobbyRound).   *)
LEMMA RegisterEnteredShape ==
  ASSUME NEW lob, NEW after \in [Sessions -> SessionRecords]
  PROVE  /\ ParticipantTable(RegisterEntered(lob, after))
         /\ \A a \in DOMAIN RegisterEntered(lob, after) :
              \E s \in Sessions :
                /\ Staying(lob, after, s) /\ after[s].account = a
                /\ RegisterEntered(lob, after)[a] =
                     [ runtime |-> after[s].player_id, disconnected |-> FALSE, counted |-> <<>>, lives |-> {} ]
<1> DEFINE stay == {s \in Sessions : Staying(lob, after, s)}
           last(a) == CHOOSE s \in stay : after[s].account = a /\ \A t \in stay : after[t].account = a => t <= s
           table == [ a \in {after[s].account : s \in stay} |->
                        [ runtime |-> after[last(a)].player_id, disconnected |-> FALSE, counted |-> <<>>,
                          lives |-> {} ] ]
<1>1. RegisterEntered(lob, after) = table
  BY DEF RegisterEntered, Staying
<1>2. ASSUME NEW a \in {after[s].account : s \in stay}
      PROVE  last(a) \in stay /\ after[last(a)].account = a
  <2> DEFINE own == {s \in stay : after[s].account = a}
  <2>1. own \subseteq Nat /\ own # {} /\ \A i \in own : i <= MaxSessions
    BY Numbers DEF Sessions
  <2>2. PICK m \in own : \A i \in own : i <= m
    <3> HIDE DEF own
    <3> QED BY <2>1, Greatest, Numbers
  <2>3. \E s \in stay : after[s].account = a /\ \A t \in stay : after[t].account = a => t <= s
    BY <2>2
  <2> HIDE DEF stay
  <2> QED BY <2>3
<1>3. ASSUME NEW s \in stay
      PROVE  after[s].account \in Accounts /\ after[s].player_id \in PlayerIds
  BY DEF SessionRecords, Staying
<1>4. ASSUME NEW a \in DOMAIN table
      PROVE  /\ a \in Accounts /\ table[a] \in ParticipantRecords
             /\ \E s \in stay : /\ after[s].account = a
                                /\ table[a] = [ runtime |-> after[s].player_id, disconnected |-> FALSE,
                                                counted |-> <<>>, lives |-> {} ]
  <2>1. a \in {after[s].account : s \in stay}
    OBVIOUS
  <2>2. PICK s \in stay : s = last(a) /\ after[s].account = a
    BY <1>2, <2>1
  <2>3. table[a] = [ runtime |-> after[s].player_id, disconnected |-> FALSE, counted |-> <<>>, lives |-> {} ]
    BY <2>1, <2>2
  <2> HIDE DEF stay, table
  <2>4. a \in Accounts /\ table[a] \in ParticipantRecords
    BY <1>3, <2>2, <2>3 DEF ParticipantRecords
  <2> QED BY <2>2, <2>3, <2>4
<1>5. table \in [DOMAIN table -> ParticipantRecords]
  BY <1>4
<1>6. \A s \in stay : s \in Sessions /\ Staying(lob, after, s)
  OBVIOUS
<1> HIDE DEF stay, table
<1> QED BY <1>1, <1>4, <1>5, <1>6 DEF ParticipantTable

(* A vote moves sessions into and out of the match and to the spectators'  *)
(* seats (ResolveIntermission).                                            *)
LEMMA AfterVoteShape ==
  ASSUME NEW c \in SessionRecords, NEW st
  PROVE  LET d == AfterVote(c, st) IN
         /\ d \in SessionRecords /\ d.peer = c.peer /\ d.active = c.active /\ d.account = c.account
         /\ d.lobby_id = c.lobby_id /\ d.player_id = c.player_id /\ ~d.is_ready
         /\ d.entered_match <=> ~c.spectating /\ ContinuesMatch(st, c.player_id)
         /\ d.spectating <=> \/ c.spectating
                             \/ ~ContinuesMatch(st, c.player_id) /\ st.decision = "spectate"
<1>1. CASE ~c.spectating /\ ContinuesMatch(st, c.player_id)
  BY <1>1 DEF AfterVote, SessionRecords
<1>2. CASE ~c.spectating /\ ~ContinuesMatch(st, c.player_id) /\ st.decision = "spectate"
  BY <1>2 DEF AfterVote, SessionRecords
<1>3. CASE ~c.spectating /\ ~ContinuesMatch(st, c.player_id) /\ st.decision # "spectate"
  BY <1>3 DEF AfterVote, SessionRecords
<1>4. CASE c.spectating
  BY <1>4 DEF AfterVote, SessionRecords
<1> QED BY <1>1, <1>2, <1>3, <1>4

(* The row of a round that begins (ShroomMatchPersistenceBegin).           *)
BegunRow(lob) ==
  [ lobby_id |-> lob.lobby_id, round_id |-> lob.next_round_id + 1, status |-> "active",
    participants |-> NoLobby.participants ]

Begun(table, uuid, lob, new) ==
  /\ DOMAIN new = DOMAIN table \cup {uuid}
  /\ \A u \in DOMAIN new : new[u] = IF u = uuid THEN BegunRow(lob) ELSE table[u]

(* BeginLobbyPersistenceRound inserts the row of a round, or fails.        *)
LEMMA BeginRowShape ==
  ASSUME NEW table, NEW uuid, NEW lob, LobbyOK(lob), NEW ok
  PROVE  /\ \/ BeginRow(table, uuid, lob, ok) = table
            \/ Begun(table, uuid, lob, BeginRow(table, uuid, lob, ok))
         /\ RowOK(BegunRow(lob))
<1>1. RowOK(BegunRow(lob))
  BY NoLobbyShape DEF RowOK, BegunRow, LobbyOK
<1>2. CASE ok
  BY <1>1, <1>2 DEF BeginRow, BegunRow, Begun
<1>3. CASE ~ok
  BY <1>1, <1>3 DEF BeginRow
<1> QED BY <1>2, <1>3

(* The row of a round that ends (ShroomMatchPersistenceSave).              *)
SavedRow(table, lob, participants, status) ==
  [ lobby_id |-> lob.lobby_id,
    round_id |-> IF lob.round \in DOMAIN table THEN table[lob.round].round_id ELSE lob.next_round_id + 1,
    status |-> status, participants |-> participants ]

Saved(table, lob, participants, status, new) ==
  /\ lob.round \in DOMAIN table => table[lob.round].status = "active"
  /\ DOMAIN new = DOMAIN table \cup {lob.round}
  /\ \A u \in DOMAIN new :
       new[u] = IF u = lob.round THEN SavedRow(table, lob, participants, status) ELSE table[u]

(* A save writes one row, or changes nothing (PersistLobbyRound).          *)
LEMMA SaveRowShape ==
  ASSUME NEW table, \A u \in DOMAIN table : RowOK(table[u]), NEW lob, LobbyOK(lob),
         NEW participants, ParticipantTable(participants), NEW interrupted, NEW ok
  PROVE  LET new == SaveRow(table, lob, participants, interrupted, ok) IN
         \/ new = table /\ (ok => lob.round \in DOMAIN table)
         \/ \E status \in {"completed", "aborted"} :
              Saved(table, lob, participants, status, new) /\ RowOK(SavedRow(table, lob, participants, status))
<1> DEFINE status == IF interrupted THEN "aborted" ELSE "completed"
           new == SaveRow(table, lob, participants, interrupted, ok)
<1>1. lob.lobby_id \in Nat /\ lob.next_round_id \in Nat /\ status \in {"completed", "aborted"}
  BY DEF LobbyOK
<1>2. lob.round \in DOMAIN table => table[lob.round].round_id \in Nat
  BY DEF RowOK
<1>3. RowOK(SavedRow(table, lob, participants, status))
  BY <1>1, <1>2 DEF RowOK, SavedRow
<1>4. CASE ~ok \/ (lob.round \in DOMAIN table /\ table[lob.round].status # "active")
  BY <1>4 DEF SaveRow
<1>5. CASE ok /\ (lob.round \in DOMAIN table => table[lob.round].status = "active")
  <2>1. new = [ u \in DOMAIN table \cup {lob.round} |->
                  IF u # lob.round THEN table[u] ELSE SavedRow(table, lob, participants, status) ]
    BY <1>5 DEF SaveRow, SavedRow
  <2> HIDE DEF new, status
  <2>2. Saved(table, lob, participants, status, new)
    BY <1>5, <2>1 DEF Saved
  <2> QED BY <1>1, <1>3, <2>2 DEF new
<1> QED BY <1>4, <1>5

(* The rounds that were under way when the server stops, and the rows that *)
(* were there (PersistLobbyRound from main).                               *)
LEMMA SavedAtShutdownShape ==
  ASSUME DOMAIN lobby = Slots, \A l \in Slots : LobbyOK(lobby[l]), \A u \in DOMAIN rows : RowOK(rows[u]),
         NEW oks
  PROVE  LET new == SavedAtShutdown(oks) IN
         /\ DOMAIN new \subseteq DOMAIN rows \cup {lobby[l].round : l \in DueAtShutdown}
         /\ \A u \in DOMAIN new :
              \/ u \in DOMAIN rows /\ new[u] = rows[u]
              \/ \E l \in DueAtShutdown, status \in {"completed", "aborted"} :
                   /\ lobby[l].round = u /\ RowOK(new[u])
                   /\ new[u] = SavedRow(rows, lobby[l], CaptureRemaining(lobby[l]), status)
<1> DEFINE saved == {l \in DueAtShutdown : oks[l]}
           of(u) == CHOOSE l \in saved : lobby[l].round = u
           new == SavedAtShutdown(oks)
<1>1. /\ DOMAIN new = DOMAIN rows \cup {lobby[l].round : l \in saved}
      /\ \A u \in DOMAIN new :
           new[u] = IF \E l \in saved : lobby[l].round = u
                    THEN SaveRow(rows, lobby[of(u)], CaptureRemaining(lobby[of(u)]), TRUE, TRUE)[u]
                    ELSE rows[u]
  BY DEF SavedAtShutdown
<1>2. saved \subseteq DueAtShutdown /\ saved \subseteq Slots
  BY DEF DueAtShutdown
<1>3. ASSUME NEW u \in DOMAIN new
      PROVE  \/ u \in DOMAIN rows /\ new[u] = rows[u]
             \/ \E l \in DueAtShutdown, status \in {"completed", "aborted"} :
                  /\ lobby[l].round = u /\ RowOK(new[u])
                  /\ new[u] = SavedRow(rows, lobby[l], CaptureRemaining(lobby[l]), status)
  <2>1. CASE ~\E l \in saved : lobby[l].round = u
    BY <1>1, <2>1
  <2>2. CASE \E l \in saved : lobby[l].round = u
    <3>1. PICK l : l = of(u) /\ l \in saved /\ lobby[l].round = u
      BY <2>2
    <3>2. new[u] = SaveRow(rows, lobby[l], CaptureRemaining(lobby[l]), TRUE, TRUE)[u]
      BY <1>1, <2>2, <3>1
    <3> HIDE DEF saved, new, of
    <3>3. PICK table, lob, final :
            /\ table = rows /\ lob = lobby[l] /\ final = CaptureRemaining(lobby[l])
      OBVIOUS
    <3>4. LobbyOK(lob) /\ ParticipantTable(final) /\ (\A w \in DOMAIN table : RowOK(table[w]))
      BY <1>2, <3>1, <3>3, CaptureRemainingShape
    <3> DEFINE after == SaveRow(table, lob, final, TRUE, TRUE)
    <3>5. \/ after = table /\ lob.round \in DOMAIN table
          \/ \E status \in {"completed", "aborted"} :
               Saved(table, lob, final, status, after) /\ RowOK(SavedRow(table, lob, final, status))
      BY ONLY <3>4, SaveRowShape
    <3>6. u = lob.round /\ new[u] = after[u]
      BY <3>1, <3>2, <3>3
    <3> HIDE DEF after
    <3>7. \/ u \in DOMAIN table /\ new[u] = table[u]
          \/ \E status \in {"completed", "aborted"} :
               RowOK(new[u]) /\ new[u] = SavedRow(table, lob, final, status)
      BY <3>5, <3>6 DEF Saved
    <3> QED BY <1>2, <3>1, <3>3, <3>7
  <2> QED BY <2>1, <2>2
<1>4. DOMAIN new \subseteq DOMAIN rows \cup {lobby[l].round : l \in DueAtShutdown}
  BY <1>1, <1>2
<1> QED BY <1>3, <1>4

-----------------------------------------------------------------------------
(* ---- Types ------------------------------------------------------------ *)

(* What the players are sent to and what the bots are, as numbers.         *)
LEMMA BotNumbers ==
  ASSUME NEW real \in Nat, NEW bots \in Nat
  PROVE  /\ BotTargetFor(real) \in Nat
         /\ real <= MaxParticipants => BotTargetFor(real) + real <= MaxParticipants
         /\ BotsToRemove(real, bots) \in Nat
         /\ Admits(real, bots) =>
              /\ bots - BotsToRemove(real, bots) \in Nat
              /\ real + 1 + (bots - BotsToRemove(real, bots)) <= MaxParticipants
<1>1. real * BotWeight \in Nat
  BY Numbers
<1>2. /\ BotTargetFor(real) \in Nat
      /\ real <= MaxParticipants => BotTargetFor(real) + real <= MaxParticipants
  BY <1>1, Numbers DEF BotTargetFor
<1> QED BY <1>2, Numbers DEF BotsToRemove, Admits

(* The players of a lobby are counted (CountRealPlayers).                  *)
LEMMA RealPlayersCounted ==
  ASSUME NEW lob
  PROVE  /\ IsFiniteSet(RealPlayers(lob)) /\ Cardinality(RealPlayers(lob)) \in Nat
         /\ IsFiniteSet(Sessions)
<1>1. IsFiniteSet(Sessions)
  BY Numbers, FS_Interval DEF Sessions
<1>2. RealPlayers(lob) \in SUBSET Sessions
  BY DEF RealPlayers
<1> QED BY <1>1, <1>2, FS_Subset, FS_CardinalityType

(* AdjustLobbyBots never adds a bot above the target.                      *)
LEMMA AdjustedBotsShape ==
  ASSUME NEW lob, LobbyOK(lob), NEW bots \in AdjustedBots(lob)
  PROVE  /\ bots \in Nat
         /\ bots <= lob.bots \/ bots <= BotTargetFor(Cardinality(RealPlayers(lob)))
<1>1. lob.bots \in Nat
  BY DEF LobbyOK
<1>2. PICK n : n = Cardinality(RealPlayers(lob)) /\ n \in Nat
  BY RealPlayersCounted
<1>3. BotTargetFor(n) \in Nat
  BY <1>1, <1>2, BotNumbers
<1>4. bots \in {lob.bots} \cup (IF lob.bots < BotTargetFor(n) THEN {lob.bots + 1}
                                ELSE IF lob.bots > BotTargetFor(n) THEN {lob.bots - 1} ELSE {})
  BY <1>2 DEF AdjustedBots
<1> QED BY <1>1, <1>2, <1>3, <1>4

(* main starts with sound records.                                         *)
LEMMA TypeInit == Init => TypeOK
<1> SUFFICES ASSUME Init PROVE TypeOK
  OBVIOUS
<1>1. session \in [Sessions -> SessionRecords]
  BY DEF Init, NoSession, SessionRecords
<1>2. voice \in [Sessions -> [ connected : BOOLEAN, lobby_id : Nat, player_id : PlayerIds \cup {0} ]]
  BY DEF Init
<1>3. DOMAIN lobby = Slots /\ \A l \in Slots : LobbyOK(lobby[l])
  <2>1. \A l \in Slots : lobby[l] = IF l <= DefaultLobbies THEN CreatedLobby(l, FALSE, l) ELSE NoLobby
    BY DEF Init
  <2>2. \A l \in Slots : LobbyOK(CreatedLobby(l, FALSE, l))
    <3>1. PICK no \in BOOLEAN : no = FALSE
      OBVIOUS
    <3>2. \A l \in Nat : LobbyOK(CreatedLobby(l, no, l))
      BY CreatedShape
    <3>3. \A l \in Slots : l \in Nat
      BY Numbers DEF Slots
    <3> QED BY <3>1, <3>2, <3>3, Zenon
  <2> QED BY <2>1, <2>2, NoLobbyShape DEF Init
<1>4. DOMAIN rows \subseteq Nat /\ \A u \in DOMAIN rows : RowOK(rows[u])
  BY NoLobbyShape DEF Init, RowOK
<1>5. /\ next_player_id \in Nat \ {0} /\ next_lobby_id \in Nat \ {0} /\ rounds \in Nat /\ up \in BOOLEAN
      /\ environment \in Environments
  BY Numbers DEF Init
<1> QED BY <1>1, <1>2, <1>3, <1>4, <1>5 DEF TypeOK

(* Another lobby in slot l: the others are untouched.                      *)
LEMMA LobbySet ==
  ASSUME DOMAIN lobby = Slots, \A m \in Slots : LobbyOK(lobby[m]),
         NEW l \in Slots, NEW new, LobbyOK(new), lobby' = [lobby EXCEPT ![l] = new]
  PROVE  DOMAIN lobby' = Slots /\ \A m \in Slots : LobbyOK(lobby'[m])
OBVIOUS

(* The voice relay is told of a session (ShroomVoiceRelaySetPeer).         *)
LEMMA VoiceSet ==
  ASSUME TypeOK, NEW s \in Sessions, NEW id \in Nat, NEW player \in PlayerIds \cup {0}, SetVoice(s, id, player)
  PROVE  voice' \in [Sessions -> [ connected : BOOLEAN, lobby_id : Nat, player_id : PlayerIds \cup {0} ]]
BY DEF TypeOK, SetVoice

(* Packets and connections keep the records sound.                         *)
LEMMA TypeEvent ==
  ASSUME TypeOK, NEW s \in Sessions, Event(s)
  PROVE  TypeOK'
<1> DEFINE c == session[s]
<1>0. /\ c \in SessionRecords /\ c.lobby_id \in Nat /\ c.player_id \in PlayerIds \cup {0}
      /\ 0 \in Nat /\ 0 \in PlayerIds \cup {0} /\ NoSession \in SessionRecords
      /\ next_player_id + 1 \in Nat \ {0} /\ next_lobby_id + 1 \in Nat \ {0}
  BY DEF TypeOK, SessionRecords, NoSession
<1>a. ASSUME NEW l \in Slots
      PROVE  LobbyOK(Depart(lobby[l], session[s]))
  <2>1. PICK d : d = session[s]
    OBVIOUS
  <2>2. LobbyOK(Depart(lobby[l], d))
    BY DepartShape DEF TypeOK
  <2> QED BY <2>1, <2>2
<1>1. CASE Connect(s)
  <2>1. session' \in [Sessions -> SessionRecords]
    BY <1>0, <1>1 DEF Connect, TypeOK, SessionRecords
  <2> QED BY <1>0, <1>1, <2>1, VoiceSet DEF Connect, TypeOK
<1>2. CASE DropPeer(s)
  <2>1. session' \in [Sessions -> SessionRecords]
    BY <1>0, <1>2 DEF DropPeer, TypeOK, SessionRecords
  <2> QED BY <1>2, <2>1 DEF DropPeer, TypeOK
<1>3. CASE Disconnect(s)
  <2>1. session' \in [Sessions -> SessionRecords]
    BY <1>0, <1>3 DEF Disconnect, TypeOK, SessionRecords
  <2>2. DOMAIN lobby' = Slots /\ \A l \in Slots : LobbyOK(lobby'[l])
    BY <1>a, <1>3 DEF Disconnect, TypeOK
  <2>3. voice' \in [Sessions -> [ connected : BOOLEAN, lobby_id : Nat, player_id : PlayerIds \cup {0} ]]
    BY <1>0, <1>3 DEF Disconnect, TypeOK
  <2> QED BY <1>3, <2>1, <2>2, <2>3 DEF Disconnect, TypeOK
<1>4. CASE HandleHello(s)
  <2>1. session' \in [Sessions -> SessionRecords]
    BY <1>0, <1>4 DEF HandleHello, TypeOK, SessionRecords
  <2> QED BY <1>4, <2>1 DEF HandleHello, TypeOK
<1>5. ASSUME NEW account \in Accounts, HandleAuthRequest(s, account)
      PROVE  TypeOK'
  <2>1. session' \in [Sessions -> SessionRecords]
    BY <1>0, <1>5 DEF HandleAuthRequest, TypeOK, SessionRecords
  <2> QED BY <1>5, <2>1 DEF HandleAuthRequest, TypeOK
<1>6. ASSUME NEW ok \in DatabaseOutcomes, HandleLobbyCreate(s, ok)
      PROVE  TypeOK'
  <2>1. CASE UNCHANGED <<lobby, rows, rounds>>
    BY <1>0, <1>6, <2>1, CreateShape DEF TypeOK
  <2>2. CASE ~UNCHANGED <<lobby, rows, rounds>>
    <3>1. PICK id : id = next_lobby_id
      OBVIOUS
    <3>3. PICK l, created, uuid, table :
            /\ l \in Slots /\ created = Fresh(id, uuid) /\ uuid = rounds + 1 /\ table = rows
            /\ ~lobby[l].active /\ rounds' = rounds + 1
            /\ lobby' = [lobby EXCEPT ![l] = created] /\ rows' = BeginRow(table, uuid, created, ok)
      BY <1>6, <2>2, <3>1, CreateShape
    <3>4. LobbyOK(created)
      <4>1. id \in Nat /\ uuid \in Nat
        BY <3>1, <3>3 DEF TypeOK
      <4> QED BY <3>3, <4>1, FreshShape
    <3>5. DOMAIN lobby' = Slots /\ \A m \in Slots : LobbyOK(lobby'[m])
      BY <3>3, <3>4, LobbySet DEF TypeOK
    <3>6. (rows' = table \/ Begun(table, uuid, created, rows')) /\ RowOK(BegunRow(created))
      BY <3>3, <3>4, BeginRowShape
    <3>7. DOMAIN rows' \subseteq Nat /\ \A u \in DOMAIN rows' : RowOK(rows'[u])
      BY <3>3, <3>6 DEF TypeOK, Begun
    <3> QED BY <1>0, <1>6, <3>3, <3>5, <3>7, CreateShape DEF TypeOK
  <2> QED BY <2>1, <2>2
<1>7. ASSUME NEW l \in Slots, JoinAsPlayer(s, l)
      PROVE  TypeOK'
  <2>1. PICK lob, new :
          /\ lob = lobby[l]
          /\ new = [ lob EXCEPT !.bots = @ - BotsToRemove(Cardinality(RealPlayers(lob)), @),
                                !.colonies = @ \cup {next_player_id}, !.stats = @ \cup {next_player_id} ]
    OBVIOUS
  <2>2. LobbyOK(lob)
    BY <2>1 DEF TypeOK
  <2>3. lobby' = [lobby EXCEPT ![l] = new]
    BY <1>7, <2>1 DEF JoinAsPlayer, TypeOK
  <2>4. LobbyOK(new)
    <3>1. next_player_id \in PlayerIds /\ Admits(Cardinality(RealPlayers(lob)), lob.bots)
      BY <1>7, <2>1 DEF JoinAsPlayer
    <3>2. lob.bots - BotsToRemove(Cardinality(RealPlayers(lob)), lob.bots) \in Nat
      BY <2>2, <3>1, BotNumbers, RealPlayersCounted DEF LobbyOK
    <3> QED BY <2>1, <2>2, <3>1, <3>2, ZenonT(60) DEF LobbyOK
  <2>5. session' \in [Sessions -> SessionRecords]
    <3>1. next_player_id \in PlayerIds /\ lob.lobby_id \in Nat
      BY <1>7, <2>2 DEF JoinAsPlayer, LobbyOK
    <3> QED BY <1>0, <1>7, <2>1, <3>1 DEF JoinAsPlayer, TypeOK, SessionRecords
  <2>6. voice' \in [Sessions -> [ connected : BOOLEAN, lobby_id : Nat, player_id : PlayerIds \cup {0} ]]
    <3>1. next_player_id \in PlayerIds \cup {0} /\ lob.lobby_id \in Nat /\ SetVoice(s, lob.lobby_id, next_player_id)
      BY <1>7, <2>1, <2>2 DEF JoinAsPlayer, LobbyOK
    <3> QED BY <3>1, VoiceSet
  <2>7. DOMAIN lobby' = Slots /\ \A m \in Slots : LobbyOK(lobby'[m])
    BY <2>3, <2>4, LobbySet DEF TypeOK
  <2> QED BY <1>0, <1>7, <2>5, <2>6, <2>7 DEF JoinAsPlayer, TypeOK
<1>8. ASSUME NEW l \in Slots, JoinFails(s, l)
      PROVE  TypeOK'
  <2>1. PICK lob, new :
          /\ lob = lobby[l]
          /\ new = [lob EXCEPT !.bots = @ - BotsToRemove(Cardinality(RealPlayers(lob)), @)]
    OBVIOUS
  <2>2. LobbyOK(lob)
    BY <2>1 DEF TypeOK
  <2>3. lobby' = [lobby EXCEPT ![l] = new]
    BY <1>8, <2>1 DEF JoinFails, TypeOK
  <2>4. LobbyOK(new)
    <3>1. Admits(Cardinality(RealPlayers(lob)), lob.bots)
      BY <1>8, <2>1 DEF JoinFails
    <3>2. lob.bots - BotsToRemove(Cardinality(RealPlayers(lob)), lob.bots) \in Nat
      BY <2>2, <3>1, BotNumbers, RealPlayersCounted DEF LobbyOK
    <3> QED BY <2>1, <2>2, <3>2 DEF LobbyOK
  <2>5. session' \in [Sessions -> SessionRecords]
    <3>1. PICK b \in SessionRecords : b = session[s]
      BY <1>0
    <3>2. PICK d : /\ d = [b EXCEPT !.spectating = FALSE, !.is_ready = FALSE, !.entered_match = FALSE]
                   /\ session' = [session EXCEPT ![s] = d]
      BY <1>0, <1>8, <3>1 DEF JoinFails
    <3>3. d \in SessionRecords
      BY ONLY <3>1, <3>2 DEF SessionRecords
    <3>4. session \in [Sessions -> SessionRecords]
      BY DEF TypeOK
    <3> QED BY ONLY <3>2, <3>3, <3>4
  <2>7. DOMAIN lobby' = Slots /\ \A m \in Slots : LobbyOK(lobby'[m])
    BY <2>3, <2>4, LobbySet DEF TypeOK
  <2> QED BY <1>0, <1>8, <2>5, <2>7 DEF JoinFails, TypeOK
<1>9. ASSUME NEW l \in Slots, JoinAsSpectator(s, l)
      PROVE  TypeOK'
  <2>1. lobby[l].lobby_id \in Nat
    BY DEF TypeOK, LobbyOK
  <2>2. session' \in [Sessions -> SessionRecords]
    BY <1>0, <1>9, <2>1 DEF JoinAsSpectator, TypeOK, SessionRecords
  <2> QED BY <1>0, <1>9, <2>1, <2>2, VoiceSet DEF JoinAsSpectator, TypeOK
<1>10. CASE HandleLobbyLeave(s)
  <2>1. session' \in [Sessions -> SessionRecords]
    BY <1>0, <1>10 DEF HandleLobbyLeave, TypeOK, SessionRecords
  <2>2. DOMAIN lobby' = Slots /\ \A l \in Slots : LobbyOK(lobby'[l])
    BY <1>a, <1>10 DEF HandleLobbyLeave, TypeOK
  <2> QED BY <1>0, <1>10, <2>1, <2>2, VoiceSet DEF HandleLobbyLeave, TypeOK
<1>11. ASSUME NEW ready \in BOOLEAN, HandleReadyState(s, ready)
       PROVE  TypeOK'
  <2>1. session' \in [Sessions -> SessionRecords]
    BY <1>0, <1>11 DEF HandleReadyState, TypeOK, SessionRecords
  <2> QED BY <1>11, <2>1 DEF HandleReadyState, TypeOK
<1>12. CASE HandleEnterMatch(s)
  <2>1. session' \in [Sessions -> SessionRecords]
    BY <1>0, <1>12 DEF HandleEnterMatch, TypeOK, SessionRecords
  <2>2. DOMAIN lobby' = Slots /\ \A l \in Slots : LobbyOK(lobby'[l])
    <3>1. ASSUME NEW l \in Slots
          PROVE  LobbyOK([lobby[l] EXCEPT !.participants = Register(@, session[s])])
      <4>1. PICK lob, d, table : lob = lobby[l] /\ d = session[s] /\ table = Register(lob.participants, d)
        OBVIOUS
      <4>2. LobbyOK(lob) /\ ParticipantTable(table)
        BY <1>0, <4>1, RegisterShape DEF TypeOK, LobbyOK
      <4>3. LobbyOK([lob EXCEPT !.participants = table])
        BY <4>2 DEF LobbyOK
      <4>4. [lobby[l] EXCEPT !.participants = Register(@, session[s])] = [lob EXCEPT !.participants = table]
        BY <4>1
      <4> QED BY <4>3, <4>4
    <3> QED BY <1>12, <3>1 DEF HandleEnterMatch, TypeOK
  <2> QED BY <1>12, <2>1, <2>2 DEF HandleEnterMatch, TypeOK
<1>13. ASSUME NEW l \in Slots, NEW round_id, NEW vote, DispatchRematchVote(s, l, round_id, vote)
       PROVE  TypeOK'
  <2>1. PICK lob, ballot, new : /\ lob = lobby[l] /\ ballot = CastVote(lob.intermission, session[s].player_id, vote)
                                /\ new = [lob EXCEPT !.intermission = ballot]
    OBVIOUS
  <2>2. LobbyOK(lob)
    BY <2>1 DEF TypeOK
  <2>3. ballot \in IntermissionStates
    BY <2>1, <2>2, CastVoteShape DEF LobbyOK
  <2>4. lobby' = [lobby EXCEPT ![l] = new] /\ LobbyOK(new)
    BY <1>13, <2>1, <2>2, <2>3 DEF DispatchRematchVote, TypeOK, LobbyOK
  <2> QED BY <1>13, <2>4, LobbySet DEF DispatchRematchVote, TypeOK
<1>14. CASE HandleVoiceFrame(s)
  BY <1>0, <1>14, VoiceSet DEF HandleVoiceFrame, TypeOK
<1> QED BY <1>1, <1>2, <1>3, <1>4, <1>5, <1>6, <1>7, <1>8, <1>9, <1>10, <1>11, <1>12, <1>13, <1>14 DEF Event

(* The electorate of a lobby (BeginIntermission).                          *)
LEMMA ElectorateShape ==
  ASSUME session \in [Sessions -> SessionRecords], NEW lob
  PROVE  /\ Electorate(lob) \in SUBSET PlayerIds
         /\ \A id \in Electorate(lob) : \E s \in Sessions :
              /\ Here(s, lob) /\ session[s].player_id = id
              /\ session[s].entered_match /\ ~session[s].spectating
BY DEF Electorate, SessionRecords, Here

(* A round that is over becomes a round that begins: the vote is resolved, *)
(* the world reset (ResolveIntermission, BeginLobbyRound).                 *)
Resumed(lob, st, retired, uuid, participants) ==
  [ BeginRound(lob, uuid) EXCEPT
      !.intermission = st, !.colonies = @ \ retired, !.stats = {}, !.phase = "running",
      !.results_left = 0, !.participants = participants ]

(* The lobby when the next round begins (BeginLobbyRound).                 *)
LEMMA ResumedShape ==
  ASSUME NEW lob, LobbyOK(lob), NEW st \in IntermissionStates, NEW retired, NEW uuid \in Nat,
         NEW participants, ParticipantTable(participants)
  PROVE  LET new == Resumed(lob, st, retired, uuid, participants) IN
         /\ LobbyOK(new) /\ new.active = lob.active /\ new.lobby_id = lob.lobby_id /\ new.phase = "running"
         /\ new.next_round_id = lob.next_round_id /\ new.round = uuid /\ new.bots = lob.bots
         /\ new.intermission = st /\ new.stats = {}
         /\ new.participants = participants
<1>1. 0 \in 0..ResultsTicks
  BY Numbers
<1> QED BY <1>1 DEF Resumed, BeginRound, LobbyOK

(* The colonies of those who do not continue are gone.                     *)
LEMMA ResumedColonies ==
  ASSUME NEW lob, LobbyOK(lob), NEW st, NEW retired, NEW uuid, NEW participants
  PROVE  Resumed(lob, st, retired, uuid, participants).colonies = lob.colonies \ retired
BY DEF Resumed, BeginRound, LobbyOK

(* What TickResolves does to the sessions, the lobby and the rows.         *)
LEMMA ResolvesShape ==
  ASSUME TypeOK, NEW l \in Slots, NEW bots \in Nat, NEW ok, TickResolves(l, bots, ok)
  PROVE  \E lob, st, participants :
           /\ lob = Ticked(lobby[l], bots) /\ LobbyOK(lob) /\ st = Resolve(lob.intermission)
           /\ st \in IntermissionStates /\ rounds' = rounds + 1
           /\ session' = [s \in Sessions |-> IF Here(s, lob) THEN AfterVote(session[s], st) ELSE session[s]]
           /\ session' \in [Sessions -> SessionRecords]
           /\ participants = RegisterEntered(lob, session') /\ ParticipantTable(participants)
           /\ lobby' = [lobby EXCEPT ![l] = Resumed(lob, st, Retired(lob, st), rounds + 1, participants)]
           /\ \/ rows' = rows
              \/ Begun(rows, rounds + 1, Resumed(lob, st, Retired(lob, st), rounds + 1, NoLobby.participants), rows')
<1>1. PICK lob, st, after :
        /\ lob = Ticked(lobby[l], bots) /\ st = Resolve(lob.intermission)
        /\ after = [s \in Sessions |-> IF Here(s, lob) THEN AfterVote(session[s], st) ELSE session[s]]
  OBVIOUS
<1>2. LobbyOK(lob)
  <2>1. PICK before : before = lobby[l]
    OBVIOUS
  <2> QED BY <1>1, <2>1, TickedShape DEF TypeOK
<1>3. st \in IntermissionStates
  <2>1. CASE lob.intermission.resolved
    BY <1>1, <1>2, <2>1 DEF Resolve, LobbyOK
  <2>2. CASE ~lob.intermission.resolved
    BY <1>1, <1>2, <2>2, ResolveShape DEF LobbyOK
  <2> QED BY <2>1, <2>2
<1>4. after \in [Sessions -> SessionRecords]
  <2>1. \A s \in Sessions : session[s] \in SessionRecords
    BY DEF TypeOK
  <2>2. \A s \in Sessions : AfterVote(session[s], st) \in SessionRecords
    BY <2>1, AfterVoteShape
  <2> QED BY <1>1, <2>1, <2>2
<1>5. PICK participants : participants = RegisterEntered(lob, after) /\ ParticipantTable(participants)
  BY <1>4, RegisterEnteredShape
<1>6. /\ session' = after /\ rounds' = rounds + 1
      /\ lobby' = [lobby EXCEPT ![l] = Resumed(lob, st, Retired(lob, st), rounds + 1, participants)]
      /\ rows' = BeginRow(rows, rounds + 1,
                          Resumed(lob, st, Retired(lob, st), rounds + 1, NoLobby.participants), ok)
  <2> DEFINE reset == [ BeginRound(lob, rounds + 1) EXCEPT
                          !.intermission = st, !.colonies = @ \ Retired(lob, st), !.stats = {},
                          !.phase = "running", !.results_left = 0 ]
  <2>1. /\ session' = after /\ rounds' = rounds + 1 /\ rows' = BeginRow(rows, rounds + 1, reset, ok)
        /\ lobby' = [lobby EXCEPT ![l] = [reset EXCEPT !.participants = participants]]
    BY <1>1, <1>5 DEF TickResolves
  <2>2. reset = Resumed(lob, st, Retired(lob, st), rounds + 1, NoLobby.participants)
    BY <1>2 DEF Resumed, BeginRound, LobbyOK
  <2>3. [reset EXCEPT !.participants = participants] = Resumed(lob, st, Retired(lob, st), rounds + 1, participants)
    BY DEF Resumed
  <2> QED BY <2>1, <2>2, <2>3
<1>7. \/ rows' = rows
      \/ Begun(rows, rounds + 1, Resumed(lob, st, Retired(lob, st), rounds + 1, NoLobby.participants), rows')
  <2>1. PICK table, uuid, retired, nobody, fresh :
          /\ table = rows /\ uuid = rounds + 1 /\ retired = Retired(lob, st) /\ nobody = NoLobby.participants
          /\ fresh = Resumed(lob, st, retired, uuid, nobody)
    OBVIOUS
  <2>2. LobbyOK(fresh)
    <3>1. uuid \in Nat /\ ParticipantTable(nobody)
      BY <2>1, NoLobbyShape DEF TypeOK
    <3> QED BY <1>2, <1>3, <2>1, <3>1, ResumedShape
  <2> QED BY <1>6, <2>1, <2>2, BeginRowShape
<1> QED BY <1>1, <1>2, <1>3, <1>4, <1>5, <1>6, <1>7

(* What TickMatchEnds does to the lobby and the rows.                      *)
LEMMA MatchEndsShape ==
  ASSUME TypeOK, NEW l \in Slots, NEW bots \in Nat, NEW ok, TickMatchEnds(l, bots, ok)
  PROVE  \E lob, final :
           /\ lob = Simulated(lobby[l], bots) /\ LobbyOK(lob) /\ LobbyOK(Ended(lob))
           /\ final = CaptureRemaining(lob) /\ ParticipantTable(final)
           /\ lobby' = [lobby EXCEPT ![l] = Ended(lob)]
           /\ \/ rows' = rows /\ (ok => lob.round \in DOMAIN rows)
              \/ \E status \in {"completed", "aborted"} :
                   Saved(rows, lob, final, status, rows') /\ RowOK(SavedRow(rows, lob, final, status))
<1>1. PICK before, lob, final, table : /\ before = lobby[l] /\ lob = Simulated(before, bots)
                                       /\ final = CaptureRemaining(lob) /\ table = rows
  OBVIOUS
<1>2. LobbyOK(lob) /\ ParticipantTable(final)
  BY <1>1, SimulatedShape, CaptureRemainingShape DEF TypeOK
<1>3. LobbyOK(Ended(lob))
  BY <1>2, ElectorateShape, EndedShape DEF TypeOK
<1>4. lobby' = [lobby EXCEPT ![l] = Ended(lob)] /\ rows' = SaveRow(table, lob, final, FALSE, ok)
  BY <1>1 DEF TickMatchEnds
<1>5. \A u \in DOMAIN table : RowOK(table[u])
  BY <1>1 DEF TypeOK
<1>6. \/ rows' = table /\ (ok => lob.round \in DOMAIN table)
      \/ \E status \in {"completed", "aborted"} :
           Saved(table, lob, final, status, rows') /\ RowOK(SavedRow(table, lob, final, status))
  <2> DEFINE new == SaveRow(table, lob, final, FALSE, ok)
  <2>1. \/ new = table /\ (ok => lob.round \in DOMAIN table)
        \/ \E status \in {"completed", "aborted"} :
             Saved(table, lob, final, status, new) /\ RowOK(SavedRow(table, lob, final, status))
    BY ONLY <1>2, <1>5, SaveRowShape
  <2> HIDE DEF new
  <2>2. rows' = new
    BY <1>4 DEF new
  <2> QED BY <2>1, <2>2
<1> QED BY <1>1, <1>2, <1>3, <1>4, <1>6

(* Ticks keep the records sound.                                           *)
LEMMA TypeTick ==
  ASSUME TypeOK, NEW l \in Slots, Tick(l)
  PROVE  TypeOK'
<1>1. LobbyOK(lobby[l]) /\ (\A b \in AdjustedBots(lobby[l]) : b \in Nat)
  <2>1. PICK lob : lob = lobby[l]
    OBVIOUS
  <2> QED BY <2>1, AdjustedBotsShape DEF TypeOK
<1>2. CASE TickEmpty(l)
  <2>1. LobbyOK([lobby[l] EXCEPT !.empty = TRUE]) /\ LobbyOK([lobby[l] EXCEPT !.active = FALSE])
    BY <1>1 DEF LobbyOK
  <2>2. DOMAIN lobby' = Slots /\ \A m \in Slots : LobbyOK(lobby'[m])
    BY <1>2, <2>1 DEF TickEmpty, TypeOK
  <2> QED BY <1>2, <2>2 DEF TickEmpty, TypeOK
<1>3. ASSUME NEW bots \in Nat, TickRunning(l, bots)
      PROVE  TypeOK'
  <2>1. PICK lob, new : lob = lobby[l] /\ new = Simulated(lob, bots)
    OBVIOUS
  <2>2. LobbyOK(new) /\ lobby' = [lobby EXCEPT ![l] = new]
    BY <1>1, <1>3, <2>1, SimulatedShape DEF TickRunning
  <2> QED BY <1>3, <2>2, LobbySet DEF TickRunning, TypeOK
<1>4. ASSUME NEW bots \in Nat, NEW ok, TickMatchEnds(l, bots, ok)
      PROVE  TypeOK'
  <2>1. PICK lob, final :
          /\ lob = Simulated(lobby[l], bots) /\ LobbyOK(lob) /\ LobbyOK(Ended(lob))
          /\ lobby' = [lobby EXCEPT ![l] = Ended(lob)]
          /\ \/ rows' = rows
             \/ \E status \in {"completed", "aborted"} :
                  Saved(rows, lob, final, status, rows') /\ RowOK(SavedRow(rows, lob, final, status))
    BY <1>4, MatchEndsShape
  <2>2. DOMAIN rows' \subseteq Nat /\ \A u \in DOMAIN rows' : RowOK(rows'[u])
    BY <2>1 DEF TypeOK, Saved, LobbyOK
  <2> QED BY <1>4, <2>1, <2>2, LobbySet DEF TickMatchEnds, TypeOK
<1>5. ASSUME NEW bots \in Nat, TickResults(l, bots)
      PROVE  TypeOK'
  <2>1. PICK lob, ticked : lob = lobby[l] /\ ticked = Ticked(lob, bots)
    OBVIOUS
  <2>2. /\ lobby' = [lobby EXCEPT ![l] = [ticked EXCEPT !.results_left = @ - 1]]
        /\ lob.results_left > 1
    BY <1>5, <2>1 DEF TickResults
  <2>3. LobbyOK(ticked) /\ ticked.results_left = lob.results_left /\ ticked.results_left - 1 \in 0..ResultsTicks
    BY <1>1, <2>1, <2>2, TickedShape, Numbers DEF LobbyOK
  <2>4. LobbyOK([ticked EXCEPT !.results_left = @ - 1])
    BY <2>3 DEF LobbyOK
  <2> QED BY <1>5, <2>2, <2>4, LobbySet DEF TickResults, TypeOK
<1>6. ASSUME NEW bots \in Nat, NEW ok, TickResolves(l, bots, ok)
      PROVE  TypeOK'
  <2>1. PICK lob, st, participants, retired, uuid, nobody, new, begun :
          /\ LobbyOK(lob) /\ st \in IntermissionStates /\ rounds' = rounds + 1
          /\ session' \in [Sessions -> SessionRecords] /\ ParticipantTable(participants)
          /\ retired = Retired(lob, st) /\ uuid = rounds + 1 /\ nobody = NoLobby.participants
          /\ new = Resumed(lob, st, retired, uuid, participants) /\ lobby' = [lobby EXCEPT ![l] = new]
          /\ begun = Resumed(lob, st, retired, uuid, nobody)
          /\ (rows' = rows \/ Begun(rows, uuid, begun, rows'))
    BY <1>6, ResolvesShape
  <2>2. uuid \in Nat /\ ParticipantTable(nobody)
    BY <2>1, NoLobbyShape DEF TypeOK
  <2>3. LobbyOK(new) /\ LobbyOK(begun) /\ RowOK(BegunRow(begun))
    BY <2>1, <2>2, ResumedShape, BeginRowShape
  <2>4. DOMAIN rows' \subseteq Nat /\ \A u \in DOMAIN rows' : RowOK(rows'[u])
    BY <2>1, <2>3 DEF TypeOK, Begun
  <2>5. DOMAIN lobby' = Slots /\ \A m \in Slots : LobbyOK(lobby'[m])
    BY <2>1, <2>3, LobbySet DEF TypeOK
  <2>6. UNCHANGED <<voice, next_player_id, next_lobby_id, up, environment>>
    BY <1>6 DEF TickResolves
  <2> QED BY <2>1, <2>4, <2>5, <2>6 DEF TypeOK
<1> QED BY <1>1, <1>2, <1>3, <1>4, <1>5, <1>6 DEF Tick

(* So does the end of the main loop.                                       *)
LEMMA TypeShutdown ==
  ASSUME TypeOK, NEW oks, Shutdown(oks)
  PROVE  TypeOK'
<1>1. session' \in [Sessions -> SessionRecords]
  <2>1. NoSession \in SessionRecords /\ \A c \in SessionRecords : [c EXCEPT !.peer = "none"] \in SessionRecords
    BY DEF NoSession, SessionRecords
  <2> QED BY <2>1 DEF Shutdown, TypeOK
<1>2. voice' \in [Sessions -> [ connected : BOOLEAN, lobby_id : Nat, player_id : PlayerIds \cup {0} ]]
  BY DEF Shutdown
<1>3. DOMAIN rows' \subseteq Nat /\ \A u \in DOMAIN rows' : RowOK(rows'[u])
  <2>1. rows' = SavedAtShutdown(oks)
    BY DEF Shutdown
  <2>2. /\ DOMAIN rows' \subseteq DOMAIN rows \cup {lobby[l].round : l \in DueAtShutdown}
        /\ \A u \in DOMAIN rows' : RowOK(rows'[u])
    BY <2>1, SavedAtShutdownShape DEF TypeOK
  <2>3. \A l \in DueAtShutdown : lobby[l].round \in Nat
    BY DEF DueAtShutdown, TypeOK, LobbyOK
  <2> QED BY <2>2, <2>3 DEF TypeOK
<1> QED BY <1>1, <1>2, <1>3 DEF Shutdown, TypeOK

(* Every step keeps the records sound.                                     *)
LEMMA TypeStep == TypeOK /\ [Next]_vars => TypeOK'
<1>1. ASSUME TypeOK, UNCHANGED vars
      PROVE  TypeOK'
  BY <1>1 DEF vars, TypeOK
<1> QED BY <1>1, TypeEvent, TypeTick, TypeShutdown DEF Next

(* TypeOK: the server's tables keep the shapes main.c declares, for any    *)
(* numbers of clients, lobbies and accounts.                               *)
THEOREM TypeCorrect == Spec => []TypeOK
BY TypeInit, TypeStep, PTL DEF Spec

-----------------------------------------------------------------------------
(* ---- Where the players are --------------------------------------------- *)

(* A session in a lobby is one that said HELLO, in a lobby that still is;  *)
(* its colony has an id of its own that was given out.                     *)
LiveIds == {lobby[l].lobby_id : l \in {m \in Slots : lobby[m].active}}

Seated(c) ==
  /\ c.active => c.peer # "none"
  /\ c.lobby_id # 0 => c.active /\ c.lobby_id \in LiveIds
  /\ c.lobby_id = 0 => ~c.spectating /\ ~c.entered_match
  /\ c.player_id # 0 => c.lobby_id # 0 /\ c.player_id < next_player_id

SessionsSeated ==
  /\ \A s \in Sessions : Seated(session[s])
  /\ \A s, t \in Sessions : session[s].player_id = session[t].player_id /\ session[s].player_id # 0 => s = t

(* Courteous clients say HELLO before they log in, and once.               *)
AccountsApart ==
  Orderly => /\ \A s \in Sessions : session[s].account # NoAccount => session[s].active
             /\ \A s, t \in Sessions : session[s].account = session[t].account /\ session[s].account # NoAccount => s = t

(* Ids of lobbies and of rounds were given out, each to one lobby.         *)
LobbiesApart ==
  /\ \A l \in Slots : lobby[l].active => /\ lobby[l].lobby_id # 0 /\ lobby[l].lobby_id < next_lobby_id
                                         /\ lobby[l].round # 0 /\ lobby[l].round <= rounds
  /\ \A l, m \in Slots : 
       /\ lobby[l].active /\ lobby[m].active
       /\ lobby[l].lobby_id = lobby[m].lobby_id \/ lobby[l].round = lobby[m].round
       => l = m
  /\ \A l \in Slots : \A id \in lobby[l].colonies : id < next_player_id
  /\ \A u \in DOMAIN rows : u # 0 /\ u <= rounds

(* A packet or a connection changes the session it is of, and of a lobby   *)
(* neither its identity nor its phase nor its round; only a lobby that is  *)
(* made is new.                                                            *)
Settled ==
  /\ UNCHANGED <<rows, next_lobby_id, rounds>>
  /\ \A l \in Slots : Kept(lobby[l], lobby'[l])

EventEffect(s) ==
  /\ up /\ UNCHANGED <<up, environment>>
  /\ \A t \in Sessions : t # s => session'[t] = session[t]
  /\ next_player_id' = next_player_id \/ next_player_id' = next_player_id + 1
  /\ \A l \in Slots : lobby'[l].colonies \subseteq lobby[l].colonies \cup {next_player_id}
  /\ \A l \in Slots : lobby'[l].colonies \subseteq lobby[l].colonies \/ next_player_id' = next_player_id + 1

(* A departure touches one lobby and adds no colony.                       *)
LEMMA DepartedKept ==
  ASSUME TypeOK, NEW s \in Sessions,
         lobby' = [ l \in Slots |-> IF l \in Find(session[s].lobby_id) THEN Depart(lobby[l], session[s])
                                    ELSE lobby[l] ]
  PROVE  \A l \in Slots : Kept(lobby[l], lobby'[l]) /\ lobby'[l].colonies \subseteq lobby[l].colonies
<1> SUFFICES ASSUME NEW l \in Slots
             PROVE  Kept(lobby[l], lobby'[l]) /\ lobby'[l].colonies \subseteq lobby[l].colonies
  OBVIOUS
<1>1. PICK lob, c : lob = lobby[l] /\ c = session[s]
  OBVIOUS
<1>2. Kept(lob, Depart(lob, c)) /\ Depart(lob, c).colonies \subseteq lob.colonies
  <2>1. LobbyOK(lob)
    BY <1>1 DEF TypeOK
  <2>2. /\ Kept(lob, Depart(lob, c)) /\ Depart(lob, c).colonies = lob.colonies \ {c.player_id}
    BY <2>1, DepartShape
  <2> QED BY <2>2
<1> QED BY <1>1, <1>2 DEF Kept

(* Only the creation of a lobby gives out an id of one, or a round.        *)
LEMMA EventEffects ==
  ASSUME TypeOK, NEW s \in Sessions, Event(s)
  PROVE  /\ EventEffect(s)
         /\ Settled \/ \E ok \in DatabaseOutcomes : HandleLobbyCreate(s, ok)
<1>0. \A l \in Slots : LobbyOK(lobby[l]) /\ Kept(lobby[l], lobby[l])
  BY DEF TypeOK, Kept
<1> DEFINE Still == UNCHANGED <<rows, next_lobby_id, rounds, up, environment>>
           Rest == \A t \in Sessions : t # s => session'[t] = session[t]
           Same == \A l \in Slots : Kept(lobby[l], lobby'[l]) /\ lobby'[l].colonies \subseteq lobby[l].colonies
<1>a. ASSUME up, Still, Rest, Same, next_player_id' = next_player_id
      PROVE  EventEffect(s) /\ Settled
  BY <1>a DEF EventEffect, Settled
<1>b. ASSUME UNCHANGED lobby
      PROVE  Same
  BY <1>0, <1>b
<1>1. CASE Connect(s) \/ DropPeer(s) \/ HandleHello(s) \/ (\E account \in Accounts : HandleAuthRequest(s, account))
           \/ (\E l \in Slots : JoinAsSpectator(s, l)) \/ (\E ready \in BOOLEAN : HandleReadyState(s, ready))
           \/ HandleVoiceFrame(s)
  <2>1. up /\ UNCHANGED <<rows, next_lobby_id, rounds, up, environment, lobby, next_player_id>>
    BY <1>1 DEF Connect, DropPeer, HandleHello, HandleAuthRequest, JoinAsSpectator, HandleReadyState,
                HandleVoiceFrame, Connected
  <2>2. Rest
    BY <1>1 DEF Connect, DropPeer, HandleHello, HandleAuthRequest, JoinAsSpectator, HandleReadyState,
                HandleVoiceFrame, TypeOK
  <2> HIDE DEF Rest, Same
  <2> QED BY <1>a, <1>b, <2>1, <2>2
<1>2. CASE Disconnect(s) \/ HandleLobbyLeave(s)
  <2>1. Same
    BY <1>2, DepartedKept DEF Disconnect, HandleLobbyLeave
  <2>2. up /\ Still /\ Rest /\ next_player_id' = next_player_id
    BY <1>2 DEF Disconnect, HandleLobbyLeave, Connected, TypeOK
  <2> HIDE DEF Still, Rest, Same
  <2> QED BY <1>a, <2>1, <2>2
<1>3. CASE HandleEnterMatch(s)
  <2>1. Same
    BY <1>0, <1>3 DEF HandleEnterMatch, Kept, LobbyOK
  <2>2. up /\ Still /\ Rest /\ next_player_id' = next_player_id
    BY <1>3 DEF HandleEnterMatch, Connected, TypeOK
  <2> HIDE DEF Still, Rest, Same
  <2> QED BY <1>a, <2>1, <2>2
<1>4. CASE \E l \in Slots, round_id \in 0..MaxRounds, vote \in ClientVotes :
             DispatchRematchVote(s, l, round_id, vote)
  <2>1. Same
    BY <1>0, <1>4 DEF DispatchRematchVote, Kept, LobbyOK, TypeOK
  <2>2. up /\ Still /\ Rest /\ next_player_id' = next_player_id
    BY <1>4 DEF DispatchRematchVote, Connected
  <2> HIDE DEF Still, Rest, Same
  <2> QED BY <1>a, <2>1, <2>2
<1>5. ASSUME NEW l \in Slots, JoinFails(s, l)
      PROVE  EventEffect(s) /\ Settled
  <2>1. Same
    BY <1>0, <1>5 DEF JoinFails, Kept, LobbyOK, TypeOK
  <2>2. up /\ Still /\ Rest /\ next_player_id' = next_player_id + 1
    BY <1>5 DEF JoinFails, Connected, TypeOK
  <2> QED BY <2>1, <2>2 DEF EventEffect, Settled
<1>6. ASSUME NEW l \in Slots, JoinAsPlayer(s, l)
      PROVE  EventEffect(s) /\ Settled
  <2>1. \A m \in Slots : Kept(lobby[m], lobby'[m]) /\ lobby'[m].colonies \subseteq lobby[m].colonies \cup {next_player_id}
    BY <1>0, <1>6 DEF JoinAsPlayer, Kept, LobbyOK, TypeOK
  <2>2. up /\ Still /\ Rest /\ next_player_id' = next_player_id + 1
    BY <1>6 DEF JoinAsPlayer, Connected, TypeOK
  <2> QED BY <2>1, <2>2 DEF EventEffect, Settled
<1>7. ASSUME NEW ok \in DatabaseOutcomes, HandleLobbyCreate(s, ok)
      PROVE  EventEffect(s)
  <2>1. UNCHANGED <<session, next_player_id, up, environment>> /\ up
    BY <1>7 DEF HandleLobbyCreate, Connected
  <2>2. \A m \in Slots : lobby'[m].colonies \subseteq lobby[m].colonies
    <3>1. CASE UNCHANGED lobby
      BY <3>1
    <3>2. CASE \E l, created : l \in Slots /\ created = Fresh(next_lobby_id, rounds + 1)
                               /\ lobby' = [lobby EXCEPT ![l] = created]
      <4>1. PICK l, created, id, uuid : /\ l \in Slots /\ id = next_lobby_id /\ uuid = rounds + 1
                                        /\ created = Fresh(id, uuid) /\ lobby' = [lobby EXCEPT ![l] = created]
        BY <3>2
      <4>2. created.colonies = {}
        BY <4>1, FreshShape DEF TypeOK
      <4> QED BY <4>1, <4>2 DEF TypeOK
    <3> QED BY <1>7, <3>1, <3>2, CreateShape
  <2> QED BY <2>1, <2>2 DEF EventEffect
<1> QED BY <1>1, <1>2, <1>3, <1>4, <1>5, <1>6, <1>7 DEF Event

(* The tick of a lobby leaves the other lobbies alone, and its own its id; *)
(* it frees an empty lobby, or begins a round in it, or neither.           *)
Unseated(c, d) ==
  /\ d.peer = c.peer /\ d.active = c.active /\ d.account = c.account /\ d.lobby_id = c.lobby_id
  /\ d.player_id = c.player_id

TickEffect(l) ==
  /\ up /\ UNCHANGED <<voice, next_player_id, next_lobby_id, up, environment>>
  /\ lobby[l].active /\ lobby'[l].lobby_id = lobby[l].lobby_id
  /\ \A m \in Slots : m # l => lobby'[m] = lobby[m]
  /\ lobby'[l].colonies \subseteq lobby[l].colonies
  /\ \A s \in Sessions : Unseated(session[s], session'[s])
  /\ \A s \in Sessions : ~Here(s, lobby[l]) => session'[s] = session[s]

Freed(l) ==
  /\ ~lobby'[l].active /\ UNCHANGED <<session, rows, rounds>> /\ \A s \in Sessions : ~Here(s, lobby[l])

Played(l) ==
  /\ lobby'[l].active /\ UNCHANGED <<session, rounds>> /\ lobby'[l].round = lobby[l].round
  /\ DOMAIN rows' \subseteq DOMAIN rows \cup {lobby[l].round}

Resolved(l) ==
  /\ lobby'[l].active /\ lobby'[l].round = rounds + 1 /\ rounds' = rounds + 1
  /\ DOMAIN rows' \subseteq DOMAIN rows \cup {rounds + 1}

(* A tick frees a lobby, plays on or resolves the vote, and seats nobody.  *)
LEMMA TickEffects ==
  ASSUME TypeOK, NEW l \in Slots, Tick(l)
  PROVE  TickEffect(l) /\ (Freed(l) \/ Played(l) \/ Resolved(l))
<1>0. /\ LobbyOK(lobby[l]) /\ (\A b \in AdjustedBots(lobby[l]) : b \in Nat)
      /\ \A s \in Sessions : Unseated(session[s], session[s])
  <2>1. PICK lob : lob = lobby[l]
    OBVIOUS
  <2> QED BY <2>1, AdjustedBotsShape DEF TypeOK, Unseated
<1>1. CASE TickEmpty(l)
  <2>1. \A s \in Sessions : ~Here(s, lobby[l])
    BY <1>1 DEF TickEmpty, RealPlayers, Spectators
  <2>2. \/ lobby' = [lobby EXCEPT ![l].empty = TRUE]
        \/ lobby' = [lobby EXCEPT ![l].active = FALSE]
    BY <1>1 DEF TickEmpty
  <2>3. /\ \A m \in Slots : m # l => lobby'[m] = lobby[m]
        /\ lobby'[l].lobby_id = lobby[l].lobby_id /\ lobby'[l].colonies = lobby[l].colonies
        /\ lobby'[l].round = lobby[l].round /\ lobby'[l].active \in BOOLEAN
    <3>1. PICK lob, new : /\ lob = lobby[l] /\ lobby' = [lobby EXCEPT ![l] = new]
                          /\ new = [lob EXCEPT !.empty = TRUE] \/ new = [lob EXCEPT !.active = FALSE]
      BY <2>2
    <3>2. new.lobby_id = lob.lobby_id /\ new.colonies = lob.colonies /\ new.round = lob.round /\ new.active \in BOOLEAN
      BY <1>0, <3>1 DEF LobbyOK
    <3> QED BY <3>1, <3>2 DEF TypeOK
  <2>4. lobby[l].active /\ up /\ UNCHANGED <<session, voice, rows, next_player_id, next_lobby_id, rounds, up, environment>>
    BY <1>1 DEF TickEmpty
  <2> QED BY <1>0, <2>1, <2>3, <2>4 DEF TickEffect, Freed, Played
<1>2. ASSUME NEW bots \in Nat, TickRunning(l, bots)
      PROVE  TickEffect(l) /\ Played(l)
  <2>1. PICK lob, new : lob = lobby[l] /\ new = Simulated(lob, bots)
    OBVIOUS
  <2>2. Kept(lob, new) /\ new.colonies = lob.colonies
    BY <1>0, <2>1, SimulatedShape
  <2>3. /\ lobby' = [lobby EXCEPT ![l] = new] /\ lob.active /\ up
        /\ UNCHANGED <<session, voice, rows, next_player_id, next_lobby_id, rounds, up, environment>>
    BY <1>2, <2>1 DEF TickRunning, Occupied
  <2> QED BY <1>0, <2>1, <2>2, <2>3 DEF TickEffect, Played, Kept, TypeOK
<1>3. ASSUME NEW bots \in Nat, NEW ok, TickMatchEnds(l, bots, ok)
      PROVE  TickEffect(l) /\ Played(l)
  <2>1. PICK before, lob, final, new :
          /\ before = lobby[l] /\ lob = Simulated(before, bots) /\ LobbyOK(lob) /\ new = Ended(lob)
          /\ lobby' = [lobby EXCEPT ![l] = new]
          /\ \/ rows' = rows
             \/ \E status \in {"completed", "aborted"} : Saved(rows, lob, final, status, rows')
    BY <1>3, MatchEndsShape
  <2>2. Kept(before, lob) /\ lob.colonies = before.colonies
    BY <1>0, <2>1, SimulatedShape
  <2>3. /\ new.active = lob.active /\ new.lobby_id = lob.lobby_id /\ new.round = lob.round
        /\ new.colonies = lob.colonies
    BY <2>1, EndedShape, ElectorateShape DEF TypeOK
  <2>4. DOMAIN rows' \subseteq DOMAIN rows \cup {before.round}
    BY <2>1, <2>2 DEF Saved, Kept
  <2>5. /\ lobby[l].active /\ up
        /\ UNCHANGED <<session, voice, next_player_id, next_lobby_id, rounds, up, environment>>
    BY <1>3 DEF TickMatchEnds, Occupied
  <2> QED BY <1>0, <2>1, <2>2, <2>3, <2>4, <2>5 DEF TickEffect, Played, Kept, TypeOK
<1>4. ASSUME NEW bots \in Nat, TickResults(l, bots)
      PROVE  TickEffect(l) /\ Played(l)
  <2>1. PICK lob, ticked, new : /\ lob = lobby[l] /\ ticked = Ticked(lob, bots)
                                /\ new = [ticked EXCEPT !.results_left = @ - 1]
    OBVIOUS
  <2>2. Kept(lob, ticked) /\ ticked.colonies = lob.colonies /\ LobbyOK(ticked)
    BY <1>0, <2>1, TickedShape
  <2>3. Kept(lob, new) /\ new.colonies = lob.colonies
    BY <2>1, <2>2 DEF Kept, LobbyOK
  <2>4. /\ lobby' = [lobby EXCEPT ![l] = new] /\ lob.active /\ up
        /\ UNCHANGED <<session, voice, rows, next_player_id, next_lobby_id, rounds, up, environment>>
    BY <1>4, <2>1 DEF TickResults, Occupied
  <2> QED BY <1>0, <2>1, <2>3, <2>4 DEF TickEffect, Played, Kept, TypeOK
<1>5. ASSUME NEW bots \in Nat, NEW ok, TickResolves(l, bots, ok)
      PROVE  TickEffect(l) /\ Resolved(l)
  <2>1. PICK before, lob, st, participants, retired, uuid, new, begun :
          /\ before = lobby[l] /\ lob = Ticked(before, bots) /\ LobbyOK(lob) /\ st \in IntermissionStates
          /\ session' = [s \in Sessions |-> IF Here(s, lob) THEN AfterVote(session[s], st) ELSE session[s]]
          /\ ParticipantTable(participants) /\ rounds' = rounds + 1
          /\ retired = Retired(lob, st) /\ uuid = rounds + 1
          /\ new = Resumed(lob, st, retired, uuid, participants) /\ lobby' = [lobby EXCEPT ![l] = new]
          /\ (rows' = rows \/ Begun(rows, uuid, begun, rows'))
    BY <1>5, ResolvesShape
  <2>2. Kept(before, lob) /\ lob.colonies = before.colonies
    BY <1>0, <2>1, TickedShape
  <2>3. new.active = lob.active /\ new.lobby_id = lob.lobby_id /\ new.round = uuid /\ new.colonies \subseteq lob.colonies
    <3>1. /\ uuid \in Nat /\ LobbyOK(lob) /\ st \in IntermissionStates /\ ParticipantTable(participants)
          /\ new = Resumed(lob, st, retired, uuid, participants)
      BY <2>1 DEF TypeOK
    <3>2. /\ new.active = lob.active /\ new.lobby_id = lob.lobby_id /\ new.round = uuid
      BY ONLY <3>1, ResumedShape
    <3>3. new.colonies = lob.colonies \ retired
      BY ONLY <3>1, ResumedColonies
    <3> QED BY <3>2, <3>3
  <2>4. DOMAIN rows' \subseteq DOMAIN rows \cup {rounds + 1}
    BY <2>1 DEF Begun
  <2>5. \A s \in Sessions : Unseated(session[s], session'[s])
    <3> SUFFICES ASSUME NEW s \in Sessions PROVE Unseated(session[s], session'[s])
      OBVIOUS
    <3>1. PICK c : c = session[s] /\ c \in SessionRecords
      BY DEF TypeOK
    <3>2. Unseated(c, AfterVote(c, st))
      BY <3>1, AfterVoteShape DEF Unseated
    <3> QED BY <1>0, <2>1, <3>1, <3>2
  <2>6. /\ lobby[l].active /\ up
        /\ UNCHANGED <<voice, next_player_id, next_lobby_id, up, environment>>
    BY <1>5 DEF TickResolves, Occupied
  <2>7. \A s \in Sessions : ~Here(s, lobby[l]) => session'[s] = session[s]
    <3>1. \A s \in Sessions : Here(s, lob) <=> Here(s, before)
      BY <2>2 DEF Here, Kept
    <3> QED BY <2>1, <3>1
  <2> QED BY <2>1, <2>2, <2>3, <2>4, <2>5, <2>6, <2>7 DEF TickEffect, Resolved, Kept, TypeOK
<1> QED BY <1>0, <1>1, <1>2, <1>3, <1>4, <1>5 DEF Tick

(* Neither a packet nor a tick gives an id or a round out twice.           *)
LEMMA LobbiesApartStep ==
  ASSUME TypeOK, LobbiesApart, Next
  PROVE  LobbiesApart'
<1>0. next_lobby_id \in Nat \ {0} /\ rounds \in Nat /\ next_player_id \in Nat \ {0} /\ \A l \in Slots : LobbyOK(lobby[l])
  BY DEF TypeOK
<1>n. \A l \in Slots : lobby[l].lobby_id \in Nat /\ lobby[l].round \in Nat /\ \A id \in lobby[l].colonies : id \in Nat
  BY <1>0, Numbers DEF LobbyOK
<1>1. ASSUME NEW s \in Sessions, Event(s), Settled
      PROVE  LobbiesApart'
  <2>1. \A l \in Slots : \A id \in lobby'[l].colonies : id < next_player_id'
    BY <1>0, <1>1, <1>n, EventEffects DEF EventEffect, LobbiesApart
  <2> QED BY <1>1, <2>1 DEF LobbiesApart, Settled, Kept
<1>2. ASSUME NEW s \in Sessions, Event(s), NEW ok \in DatabaseOutcomes, HandleLobbyCreate(s, ok)
      PROVE  LobbiesApart'
  <2>1. \A l \in Slots : \A id \in lobby'[l].colonies : id < next_player_id'
    BY <1>0, <1>2, <1>n, EventEffects DEF EventEffect, LobbiesApart
  <2>2. CASE UNCHANGED <<lobby, rows, rounds>>
    BY <1>0, <1>2, <1>n, <2>1, <2>2, CreateShape DEF LobbiesApart
  <2>3. CASE ~UNCHANGED <<lobby, rows, rounds>>
    <3>1. PICK l, created, id, uuid :
            /\ l \in Slots /\ ~lobby[l].active /\ id = next_lobby_id /\ uuid = rounds + 1
            /\ created = Fresh(id, uuid) /\ lobby' = [lobby EXCEPT ![l] = created] /\ rounds' = rounds + 1
            /\ next_lobby_id' = next_lobby_id + 1 /\ rows' = BeginRow(rows, uuid, created, ok)
      BY <1>2, <2>3, CreateShape
    <3>2. id \in Nat /\ uuid \in Nat
      BY <1>0, <3>1
    <3>3. LobbyOK(created) /\ created.lobby_id = id /\ created.round = uuid
      BY <3>1, <3>2, FreshShape
    <3>4. \A u \in DOMAIN rows' : u \in DOMAIN rows \/ u = uuid
      <4>1. PICK table : table = rows
        OBVIOUS
      <4>2. rows' = table \/ Begun(table, uuid, created, rows')
        BY <3>1, <3>3, <4>1, BeginRowShape
      <4> QED BY <4>1, <4>2 DEF Begun
    <3>5. \A u \in DOMAIN rows' : u # 0 /\ u <= rounds'
      BY <1>0, <3>1, <3>4 DEF LobbiesApart, TypeOK
    <3>6. \A m \in Slots : lobby'[m] = IF m = l THEN created ELSE lobby[m]
      BY <3>1 DEF TypeOK
    <3>7. \A m \in Slots : lobby'[m].active =>
            IF m = l THEN lobby'[m].lobby_id = next_lobby_id /\ lobby'[m].round = rounds + 1
            ELSE /\ lobby'[m].lobby_id # 0 /\ lobby'[m].lobby_id < next_lobby_id
                 /\ lobby'[m].round # 0 /\ lobby'[m].round <= rounds
      BY <3>1, <3>3, <3>6 DEF LobbiesApart
    <3>8. \A m \in Slots : lobby'[m].active =>
            /\ lobby'[m].lobby_id # 0 /\ lobby'[m].lobby_id < next_lobby_id'
            /\ lobby'[m].round # 0 /\ lobby'[m].round <= rounds'
      BY <1>0, <1>n, <3>1, <3>6, <3>7
    <3>9. \A m, n \in Slots :
            /\ lobby'[m].active /\ lobby'[n].active
            /\ lobby'[m].lobby_id = lobby'[n].lobby_id \/ lobby'[m].round = lobby'[n].round
            => m = n
      BY <1>0, <1>n, <3>6, <3>7 DEF LobbiesApart
    <3> QED BY <2>1, <3>5, <3>8, <3>9 DEF LobbiesApart
  <2> QED BY <2>2, <2>3
<1>3. ASSUME NEW l \in Slots, Tick(l)
      PROVE  LobbiesApart'
  <2>1. TickEffect(l) /\ (Freed(l) \/ Played(l) \/ Resolved(l))
    BY <1>3, TickEffects
  <2>2. \A m \in Slots : \A id \in lobby'[m].colonies : id < next_player_id'
    BY <2>1 DEF TickEffect, LobbiesApart
  <2>3. \A m \in Slots : m # l => lobby'[m] = lobby[m]
    BY <2>1 DEF TickEffect
  <2>4. lobby[l].active /\ lobby'[l].lobby_id = lobby[l].lobby_id /\ next_lobby_id' = next_lobby_id
    BY <2>1 DEF TickEffect
  <2>5. CASE Freed(l)
    BY <2>2, <2>3, <2>4, <2>5 DEF LobbiesApart, Freed
  <2>6. CASE Played(l)
    <3>1. \A u \in DOMAIN rows' : u # 0 /\ u <= rounds'
      BY <2>4, <2>6 DEF LobbiesApart, Played
    <3> QED BY <2>2, <2>3, <2>4, <2>6, <3>1 DEF LobbiesApart, Played
  <2>7. CASE Resolved(l)
    <3>1. \A u \in DOMAIN rows' : u # 0 /\ u <= rounds'
      BY <1>0, <2>7 DEF LobbiesApart, Resolved, TypeOK
    <3>2. \A m \in Slots : lobby'[m].active =>
            IF m = l THEN lobby'[m].lobby_id = lobby[l].lobby_id /\ lobby'[m].round = rounds + 1
            ELSE lobby'[m] = lobby[m] /\ lobby'[m].round <= rounds
      BY <2>3, <2>4, <2>7 DEF LobbiesApart, Resolved
    <3>3. \A m \in Slots : lobby'[m].active =>
            /\ lobby'[m].lobby_id # 0 /\ lobby'[m].lobby_id < next_lobby_id'
            /\ lobby'[m].round # 0 /\ lobby'[m].round <= rounds'
      BY <1>0, <1>n, <2>3, <2>4, <2>7, <3>2 DEF LobbiesApart, Resolved
    <3>4. \A m, n \in Slots :
            /\ lobby'[m].active /\ lobby'[n].active
            /\ lobby'[m].lobby_id = lobby'[n].lobby_id \/ lobby'[m].round = lobby'[n].round
            => m = n
      BY <1>0, <1>n, <2>3, <2>4, <3>2 DEF LobbiesApart
    <3> QED BY <2>2, <3>1, <3>3, <3>4 DEF LobbiesApart
  <2> QED BY <2>1, <2>5, <2>6, <2>7
<1>4. ASSUME NEW oks, Shutdown(oks)
      PROVE  LobbiesApart'
  <2>1. UNCHANGED <<lobby, next_player_id, next_lobby_id, rounds, environment>> /\ rows' = SavedAtShutdown(oks)
    BY <1>4 DEF Shutdown
  <2>2. DOMAIN rows' \subseteq DOMAIN rows \cup {lobby[l].round : l \in DueAtShutdown}
    BY <2>1, SavedAtShutdownShape DEF TypeOK
  <2>3. \A u \in DOMAIN rows' : u # 0 /\ u <= rounds
    BY <2>2 DEF LobbiesApart, DueAtShutdown
  <2> QED BY <2>1, <2>3 DEF LobbiesApart
<1> QED BY <1>1, <1>2, <1>3, <1>4, EventEffects DEF Next

(* A lobby goes away only when its tick frees it.                          *)
LEMMA LiveIdsStep ==
  ASSUME TypeOK, Next
  PROVE  /\ \A s \in Sessions : Event(s) => LiveIds \subseteq LiveIds'
         /\ \A l \in Slots : Tick(l) => LiveIds \ {lobby[l].lobby_id} \subseteq LiveIds'
         /\ \A l \in Slots : Tick(l) /\ ~Freed(l) => LiveIds \subseteq LiveIds'
<1>1. ASSUME NEW s \in Sessions, Event(s)
      PROVE  LiveIds \subseteq LiveIds'
  <2>1. CASE Settled
    BY <2>1 DEF Settled, Kept, LiveIds
  <2>2. CASE \E ok \in DatabaseOutcomes : HandleLobbyCreate(s, ok)
    <3>1. \/ UNCHANGED lobby
          \/ \E l \in Slots : \E new : ~lobby[l].active /\ lobby' = [lobby EXCEPT ![l] = new]
      BY <2>2, CreateShape
    <3> QED BY <3>1 DEF LiveIds, TypeOK
  <2> QED BY <1>1, <2>1, <2>2, EventEffects
<1>2. ASSUME NEW l \in Slots, Tick(l)
      PROVE  /\ LiveIds \ {lobby[l].lobby_id} \subseteq LiveIds'
             /\ ~Freed(l) => LiveIds \subseteq LiveIds'
  <2>1. TickEffect(l) /\ (Freed(l) \/ Played(l) \/ Resolved(l))
    BY <1>2, TickEffects
  <2>2. \A m \in Slots : m # l => lobby'[m] = lobby[m]
    BY <2>1 DEF TickEffect
  <2>3. lobby'[l].lobby_id = lobby[l].lobby_id /\ (~Freed(l) => lobby'[l].active)
    BY <2>1 DEF TickEffect, Played, Resolved
  <2> QED BY <2>2, <2>3 DEF LiveIds
<1> QED BY <1>1, <1>2

(* What a packet or a connection does to where its session is: it goes, it *)
(* takes a seat with a fresh id or without one, or it stays.               *)
Left(d) ==
  /\ d.lobby_id = 0 /\ d.player_id = 0 /\ ~d.spectating /\ ~d.entered_match
  /\ d.active => d.peer # "none"

Stayed(c, d) ==
  /\ d.lobby_id = c.lobby_id /\ d.player_id = c.player_id /\ (d.spectating <=> c.spectating)
  /\ (c.active => d.active) /\ (d.active => d.peer # "none") /\ (c.entered_match => d.entered_match)
  /\ d.account = c.account \/ c.account = NoAccount

Sat(c, d, l) ==
  /\ c.lobby_id = 0 /\ lobby[l].active /\ d.lobby_id = lobby[l].lobby_id /\ ~d.entered_match
  /\ d.active /\ d.peer = "connected" /\ d.account = c.account

Moved(s, c, d) ==
  \/ (Disconnect(s) \/ HandleLobbyLeave(s)) /\ Left(d)
  \/ \E l \in Slots : /\ JoinAsPlayer(s, l) /\ Sat(c, d, l) /\ ~d.spectating
                      /\ d.player_id = next_player_id /\ next_player_id' = next_player_id + 1
  \/ \E l \in Slots : JoinAsSpectator(s, l) /\ Sat(c, d, l) /\ d.spectating /\ d.player_id = c.player_id
  \/ Stayed(c, d) /\ (d.entered_match => c.entered_match \/ HandleEnterMatch(s))

(* Who disconnects or leaves the lobby keeps no seat.                      *)
LEMMA Leaves ==
  ASSUME TypeOK, NEW s \in Sessions, Seated(session[s]), Disconnect(s) \/ HandleLobbyLeave(s)
  PROVE  Left(session'[s])
<1> DEFINE c == session[s]
           d == session'[s]
<1>0. c \in SessionRecords /\ (c.active => c.peer # "none") /\ (c.lobby_id = 0 => ~c.spectating /\ ~c.entered_match)
  BY DEF TypeOK, Seated
<1>1. CASE Disconnect(s)
  <2>1. d = IF c.active THEN NoSession ELSE [c EXCEPT !.peer = "none"]
    BY <1>1 DEF Disconnect, TypeOK
  <2>2. c.lobby_id # 0 => c.active
    BY DEF Seated
  <2>3. c.player_id # 0 => c.lobby_id # 0
    BY DEF Seated
  <2> QED BY <1>0, <2>1, <2>2, <2>3 DEF NoSession, SessionRecords, Left
<1>2. CASE HandleLobbyLeave(s)
  BY <1>0, <1>2 DEF HandleLobbyLeave, Connected, TypeOK, SessionRecords, Left
<1> QED BY <1>1, <1>2

(* What a packet or a connection does to its own session.                  *)
LEMMA SessionMoves ==
  ASSUME TypeOK, NEW s \in Sessions, Seated(session[s]), Event(s)
  PROVE  Moved(s, session[s], session'[s])
<1> DEFINE c == session[s]
           d == session'[s]
<1>0. c \in SessionRecords /\ (c.active => c.peer # "none") /\ (c.lobby_id = 0 => ~c.spectating /\ ~c.entered_match)
  BY DEF TypeOK, Seated
<1>1. CASE Connect(s) \/ DropPeer(s)
  <2>1. d = [c EXCEPT !.peer = "connected"] \/ d = [c EXCEPT !.peer = "disconnecting"]
    BY <1>1 DEF Connect, DropPeer, TypeOK
  <2> QED BY <1>0, <2>1 DEF Moved, Stayed, SessionRecords
<1>2. CASE HandleHello(s) \/ (\E ready \in BOOLEAN : HandleReadyState(s, ready))
  <2>1. /\ d = [c EXCEPT !.active = TRUE] \/ \E ready \in BOOLEAN : d = [c EXCEPT !.is_ready = ready]
        /\ c.peer = "connected"
    BY <1>2 DEF HandleHello, HandleReadyState, Connected, TypeOK
  <2> QED BY <1>0, <2>1 DEF Moved, Stayed, SessionRecords
<1>3. ASSUME NEW account \in Accounts, HandleAuthRequest(s, account)
      PROVE  Moved(s, c, d)
  <2>1. d = [c EXCEPT !.account = account] /\ c.account = NoAccount
    BY <1>3 DEF HandleAuthRequest, TypeOK
  <2> QED BY <1>0, <2>1 DEF Moved, Stayed, SessionRecords
<1>4. CASE HandleEnterMatch(s)
  <2>1. d = [c EXCEPT !.entered_match = TRUE]
    BY <1>4 DEF HandleEnterMatch, TypeOK
  <2> QED BY <1>0, <1>4, <2>1 DEF Moved, Stayed, SessionRecords
<1>5. CASE \/ HandleVoiceFrame(s)
           \/ (\E l \in Slots, round_id \in 0..MaxRounds, vote \in ClientVotes :
                 DispatchRematchVote(s, l, round_id, vote))
           \/ (\E ok \in DatabaseOutcomes : HandleLobbyCreate(s, ok))
  <2>1. d = c
    BY <1>5 DEF HandleVoiceFrame, DispatchRematchVote, HandleLobbyCreate
  <2> QED BY <1>0, <2>1 DEF Moved, Stayed
<1>6. CASE Disconnect(s) \/ HandleLobbyLeave(s)
  BY <1>6, Leaves DEF Moved
<1>8. ASSUME NEW l \in Slots, JoinAsPlayer(s, l)
      PROVE  Moved(s, c, d)
  <2>1. /\ Sat(c, d, l) /\ ~d.spectating
        /\ d.player_id = next_player_id /\ next_player_id' = next_player_id + 1
    BY <1>0, <1>8 DEF JoinAsPlayer, Connected, TypeOK, SessionRecords, Sat
  <2> QED BY <1>8, <2>1 DEF Moved
<1>9. ASSUME NEW l \in Slots, JoinFails(s, l)
      PROVE  Moved(s, c, d)
  <2>1. /\ d = [c EXCEPT !.spectating = FALSE, !.is_ready = FALSE, !.entered_match = FALSE] /\ c.lobby_id = 0
    BY <1>0, <1>9 DEF JoinFails, TypeOK, SessionRecords
  <2> QED BY <1>0, <2>1 DEF Moved, Stayed, SessionRecords
<1>10. ASSUME NEW l \in Slots, JoinAsSpectator(s, l)
       PROVE  Moved(s, c, d)
  <2>1. Sat(c, d, l) /\ d.spectating /\ d.player_id = c.player_id
    BY <1>0, <1>10 DEF JoinAsSpectator, Connected, TypeOK, SessionRecords, Sat
  <2> QED BY <1>10, <2>1 DEF Moved
<1> QED BY <1>1, <1>2, <1>3, <1>4, <1>5, <1>6, <1>8, <1>9, <1>10 DEF Event

(* One client at a time moves, and takes a fresh id when it plays.         *)
LEMMA SessionsSeatedStep ==
  ASSUME TypeOK, LobbiesApart, SessionsSeated, Next
  PROVE  SessionsSeated'
<1>0. /\ next_player_id \in Nat \ {0} /\ \A s \in Sessions : session[s] \in SessionRecords
      /\ \A s \in Sessions : session[s].player_id \in Nat /\ session[s].player_id # next_player_id
  <2>1. next_player_id \in Nat \ {0} /\ \A s \in Sessions : session[s] \in SessionRecords
    BY DEF TypeOK
  <2>2. \A s \in Sessions : session[s].player_id \in Nat
    <3> SUFFICES ASSUME NEW s \in Sessions PROVE session[s].player_id \in Nat
      OBVIOUS
    <3>1. session[s].player_id \in PlayerIds \cup {0}
      BY <2>1 DEF SessionRecords
    <3>2. PlayerIds \subseteq Nat /\ 0 \in Nat
      BY Numbers
    <3> QED BY <3>1, <3>2, Zenon
  <2> QED BY <2>1, <2>2 DEF SessionsSeated, Seated
<1> DEFINE Live(c, ids, next) ==
             /\ c.active => c.peer # "none"
             /\ c.lobby_id # 0 => c.active /\ c.lobby_id \in ids
             /\ c.lobby_id = 0 => ~c.spectating /\ ~c.entered_match
             /\ c.player_id # 0 => c.lobby_id # 0 /\ c.player_id < next
<1>1. ASSUME NEW s \in Sessions, Event(s)
      PROVE  SessionsSeated'
  <2>1. /\ EventEffect(s) /\ LiveIds \subseteq LiveIds'
        /\ next_player_id' \in Nat /\ next_player_id <= next_player_id'
    BY <1>0, <1>1, EventEffects, LiveIdsStep DEF EventEffect
  <2> DEFINE c == session[s]
             d == session'[s]
  <2>2. c \in SessionRecords /\ Live(c, LiveIds, next_player_id)
    BY <1>0 DEF SessionsSeated, Seated
  <2>3. /\ Live(d, LiveIds, next_player_id')
        /\ d.player_id \in {0, c.player_id} \/ d.player_id = next_player_id
    <3>1. Moved(s, c, d)
      BY <1>1, SessionMoves DEF SessionsSeated
    <3>2. CASE Left(d)
      BY <3>2 DEF Left
    <3>3. ASSUME NEW l \in Slots, Sat(c, d, l), d.player_id \in {c.player_id, next_player_id},
                 d.player_id = next_player_id => next_player_id' = next_player_id + 1
          PROVE  Live(d, LiveIds, next_player_id')
      <4>1. lobby[l].lobby_id \in LiveIds /\ lobby[l].lobby_id # 0
        BY <3>3 DEF LiveIds, LobbiesApart, Sat
      <4>2. c.lobby_id = 0 /\ c.player_id = 0
        BY <2>2, <3>3 DEF Sat
      <4> QED BY <1>0, <3>3, <4>1, <4>2 DEF Sat
    <3>4. CASE Stayed(c, d) /\ (d.entered_match => c.entered_match \/ HandleEnterMatch(s))
      <4>1. HandleEnterMatch(s) => c.lobby_id # 0
        BY DEF HandleEnterMatch
      <4>2. c.player_id # 0 => c.player_id < next_player_id'
        BY <1>0, <2>1, <2>2
      <4> QED BY <2>2, <3>4, <4>1, <4>2 DEF Stayed
    <3> QED BY <1>0, <3>1, <3>2, <3>3, <3>4 DEF Moved, Left, Stayed
  <2>4. \A t \in Sessions : t # s => session'[t] = session[t]
    BY <2>1 DEF EventEffect
  <2>5. \A t \in Sessions : Live(session'[t], LiveIds', next_player_id')
    <3> SUFFICES ASSUME NEW t \in Sessions PROVE Live(session'[t], LiveIds', next_player_id')
      OBVIOUS
    <3>1. CASE t = s
      BY <2>1, <2>3, <3>1
    <3>2. CASE t # s
      <4>1. session'[t] = session[t] /\ Live(session[t], LiveIds, next_player_id) /\ session[t].player_id \in Nat
        BY <1>0, <2>4, <3>2 DEF SessionsSeated, Seated
      <4> QED BY <1>0, <2>1, <4>1
    <3> QED BY <3>1, <3>2
  <2>6. \A t, w \in Sessions : session'[t].player_id = session'[w].player_id /\ session'[t].player_id # 0 => t = w
    BY <1>0, <2>3, <2>4 DEF SessionsSeated
  <2> QED BY <2>5, <2>6 DEF SessionsSeated, Seated
<1>2. ASSUME NEW l \in Slots, Tick(l)
      PROVE  SessionsSeated'
  <2>1. TickEffect(l) /\ (Freed(l) \/ Played(l) \/ Resolved(l))
    BY <1>2, TickEffects
  <2>2. next_player_id' = next_player_id /\ \A t \in Sessions : Unseated(session[t], session'[t])
    BY <2>1 DEF TickEffect
  <2>3. \A t \in Sessions : session[t].lobby_id # 0 => session[t].lobby_id \in LiveIds'
    <3> SUFFICES ASSUME NEW t \in Sessions, session[t].lobby_id # 0 PROVE session[t].lobby_id \in LiveIds'
      OBVIOUS
    <3>1. session[t].active /\ session[t].lobby_id \in LiveIds /\ session[t].peer # "none"
      BY DEF SessionsSeated, Seated
    <3>2. Freed(l) => session[t].lobby_id # lobby[l].lobby_id
      BY <3>1 DEF Freed, Here
    <3> QED BY <1>2, <3>1, <3>2, LiveIdsStep
  <2>4. \A t \in Sessions : Live(session'[t], LiveIds', next_player_id')
    <3> SUFFICES ASSUME NEW t \in Sessions PROVE Live(session'[t], LiveIds', next_player_id')
      OBVIOUS
    <3>1. Live(session[t], LiveIds, next_player_id)
      BY DEF SessionsSeated, Seated
    <3>2. session[t].lobby_id = 0 => session'[t] = session[t]
      <4>1. lobby[l].lobby_id # 0
        BY <2>1 DEF TickEffect, LobbiesApart
      <4> QED BY <2>1, <4>1 DEF TickEffect, Here
    <3> QED BY <2>2, <2>3, <3>1, <3>2 DEF Unseated
  <2> QED BY <2>2, <2>4 DEF SessionsSeated, Seated, Unseated
<1>3. ASSUME NEW oks, Shutdown(oks)
      PROVE  SessionsSeated'
  <2>1. UNCHANGED <<lobby, next_player_id>>
    BY <1>3 DEF Shutdown
  <2>2. ASSUME NEW t \in Sessions
        PROVE  Left(session'[t]) /\ ~session'[t].active
    <3>1. session'[t] = IF session[t].peer # "none" /\ session[t].active THEN NoSession
                        ELSE [session[t] EXCEPT !.peer = "none"]
      BY <1>3 DEF Shutdown
    <3>2. session[t] \in SessionRecords /\ Live(session[t], LiveIds, next_player_id)
      BY <1>0 DEF SessionsSeated, Seated
    <3> QED BY <3>1, <3>2 DEF NoSession, SessionRecords, Left
  <2> QED BY <2>2 DEF SessionsSeated, Seated, Left
<1> QED BY <1>1, <1>2, <1>3 DEF Next

(* In an orderly environment an account is seated once.                    *)
LEMMA AccountsApartStep ==
  ASSUME TypeOK, AccountsApart, Next
  PROVE  AccountsApart'
<1>0. \A s \in Sessions : session[s] \in SessionRecords
  BY DEF TypeOK
<1> DEFINE Polite == \A s \in Sessions : session[s].account # NoAccount => session[s].active
           Once == \A s, t \in Sessions : session[s].account = session[t].account /\ session[s].account # NoAccount => s = t
<1>1. environment' = environment
  BY EventEffects, TickEffects DEF Next, EventEffect, TickEffect, Shutdown
<1> SUFFICES ASSUME Orderly, Polite, Once PROVE Polite' /\ Once'
  BY <1>1 DEF AccountsApart, Orderly
<1>2. ASSUME NEW s \in Sessions, Event(s)
      PROVE  Polite' /\ Once'
  <2> DEFINE c == session[s]
             d == session'[s]
  <2>1. \A t \in Sessions : t # s => session'[t] = session[t]
    BY <1>2, EventEffects DEF EventEffect
  <2>2. c \in SessionRecords
    BY <1>0
  <2>3. CASE \E account \in Accounts : HandleAuthRequest(s, account)
    <3>1. PICK account : /\ d.account = account /\ d.active
                         /\ \A t \in Sessions : session[t].account # account
      BY <2>2, <2>3 DEF HandleAuthRequest, TypeOK, SessionRecords
    <3> QED BY <2>1, <3>1
  <2>4. CASE ~\E account \in Accounts : HandleAuthRequest(s, account)
    <3>1. d.account = NoAccount \/ (d.account = c.account /\ (c.active => d.active))
      <4>1. CASE Connect(s) \/ DropPeer(s)
        <5>1. d = [c EXCEPT !.peer = "connected"] \/ d = [c EXCEPT !.peer = "disconnecting"]
          BY <4>1 DEF Connect, DropPeer, TypeOK
        <5> QED BY <2>2, <5>1 DEF SessionRecords
      <4>8. CASE HandleHello(s) \/ HandleEnterMatch(s) \/ (\E ready \in BOOLEAN : HandleReadyState(s, ready))
        <5>1. \/ d = [c EXCEPT !.active = TRUE] \/ d = [c EXCEPT !.entered_match = TRUE]
              \/ \E ready \in BOOLEAN : d = [c EXCEPT !.is_ready = ready]
          BY <4>8 DEF HandleHello, HandleEnterMatch, HandleReadyState, TypeOK
        <5> QED BY <2>2, <5>1 DEF SessionRecords
      <4>5. CASE HandleLobbyLeave(s)
        BY <2>2, <4>5 DEF HandleLobbyLeave, TypeOK, SessionRecords
      <4>2. CASE \/ HandleVoiceFrame(s)
                 \/ (\E l \in Slots, round_id \in 0..MaxRounds, vote \in ClientVotes :
                       DispatchRematchVote(s, l, round_id, vote))
                 \/ (\E ok \in DatabaseOutcomes : HandleLobbyCreate(s, ok))
        BY <4>2 DEF HandleVoiceFrame, DispatchRematchVote, HandleLobbyCreate
      <4>3. ASSUME NEW l \in Slots, JoinAsPlayer(s, l)
            PROVE  d.account = c.account /\ d.active = c.active
        BY <2>2, <4>3 DEF JoinAsPlayer, TypeOK, SessionRecords
      <4>6. ASSUME NEW l \in Slots, JoinFails(s, l)
            PROVE  d.account = c.account /\ d.active = c.active
        BY <2>2, <4>6 DEF JoinFails, TypeOK, SessionRecords
      <4>7. ASSUME NEW l \in Slots, JoinAsSpectator(s, l)
            PROVE  d.account = c.account /\ d.active = c.active
        BY <2>2, <4>7 DEF JoinAsSpectator, TypeOK, SessionRecords
      <4>4. CASE Disconnect(s)
        <5>1. d = IF c.active THEN NoSession ELSE [c EXCEPT !.peer = "none"]
          BY <4>4 DEF Disconnect, TypeOK
        <5> QED BY <2>2, <5>1 DEF NoSession, SessionRecords
      <4> QED BY <1>2, <2>4, <4>1, <4>2, <4>3, <4>4, <4>5, <4>6, <4>7, <4>8 DEF Event
    <3> QED BY <2>1, <3>1
  <2> QED BY <2>3, <2>4
<1>3. ASSUME NEW l \in Slots, Tick(l)
      PROVE  Polite' /\ Once'
  <2>1. \A t \in Sessions : Unseated(session[t], session'[t])
    BY <1>3, TickEffects DEF TickEffect
  <2> QED BY <2>1 DEF Unseated
<1>4. ASSUME NEW oks, Shutdown(oks)
      PROVE  Polite' /\ Once'
  <2>1. ASSUME NEW t \in Sessions
        PROVE  \/ session'[t].account = NoAccount
               \/ session'[t].account = session[t].account /\ (session[t].active => session'[t].active)
    <3>1. session'[t] = IF session[t].peer # "none" /\ session[t].active THEN NoSession
                        ELSE [session[t] EXCEPT !.peer = "none"]
      BY <1>4 DEF Shutdown
    <3>2. PICK c \in SessionRecords : c = session[t]
      BY <1>0
    <3>3. CASE session'[t] = NoSession
      BY <3>3 DEF NoSession
    <3>4. CASE session'[t] = [c EXCEPT !.peer = "none"]
      BY <3>2, <3>4 DEF SessionRecords
    <3> QED BY <3>1, <3>2, <3>3, <3>4
  <2> QED BY <2>1
<1> QED BY <1>2, <1>3, <1>4 DEF Next

(* main makes the default lobbies; the other slots are empty.              *)
LEMMA InitLobbies ==
  ASSUME Init, NEW l \in Slots
  PROVE  /\ lobby[l].colonies = {} /\ lobby[l].stats = {} /\ lobby[l].phase = "running"
         /\ DOMAIN lobby[l].participants = {}
         /\ lobby[l].active => /\ l <= DefaultLobbies /\ lobby[l].lobby_id = l /\ lobby[l].round = l
                               /\ lobby[l].next_round_id = 0 /\ lobby[l].bots = BotTargetFor(0)
<1>1. PICK no \in BOOLEAN : no = FALSE
  OBVIOUS
<1>2. lobby[l] = IF l <= DefaultLobbies THEN CreatedLobby(l, FALSE, l) ELSE NoLobby
  BY DEF Init
<1>3. (l <= DefaultLobbies /\ lobby[l] = CreatedLobby(l, no, l)) \/ lobby[l] = NoLobby
  BY <1>1, <1>2, Zenon
<1>4. l \in Nat
  BY Numbers DEF Slots
<1> QED BY <1>3, <1>4, NoLobbyShape, CreatedShape

(* main starts with nobody seated and a lobby per default id.              *)
LEMMA PlacesInit == Init => SessionsSeated /\ AccountsApart /\ LobbiesApart
<1> SUFFICES ASSUME Init PROVE SessionsSeated /\ AccountsApart /\ LobbiesApart
  OBVIOUS
<1>1. \A s \in Sessions : session[s].lobby_id = 0 /\ session[s].player_id = 0 /\ ~session[s].active
                          /\ session[s].account = NoAccount
                          /\ ~session[s].spectating /\ ~session[s].entered_match
  BY DEF Init, NoSession
<1>2. SessionsSeated /\ AccountsApart
  BY <1>1 DEF SessionsSeated, Seated, AccountsApart
<1>3. \A l \in Slots : lobby[l].colonies = {} /\ (lobby[l].active => l <= DefaultLobbies)
                       /\ (lobby[l].active => lobby[l].lobby_id = l /\ lobby[l].round = l)
  BY InitLobbies
<1>4. /\ rounds = DefaultLobbies /\ next_lobby_id = DefaultLobbies + 1 /\ DOMAIN rows = 1..DefaultLobbies
      /\ \A l \in Slots : l \in Nat /\ l # 0
  BY Numbers DEF Init, Slots
<1>5. LobbiesApart
  BY <1>3, <1>4, Numbers DEF LobbiesApart
<1> QED BY <1>2, <1>5

(* The invariant so far, with its types.                                   *)
Places == TypeOK /\ LobbiesApart /\ SessionsSeated /\ AccountsApart

(* Every step keeps the places.                                            *)
LEMMA PlacesStep == Places /\ [Next]_vars => Places'
<1>1. ASSUME Places, UNCHANGED vars
      PROVE  Places'
  <2>1. TypeOK'
    BY <1>1, TypeStep DEF Places
  <2> QED BY <1>1, <2>1 DEF Places, vars, LobbiesApart, SessionsSeated, Seated, LiveIds, AccountsApart, Orderly
<1> QED BY <1>1, TypeStep, LobbiesApartStep, SessionsSeatedStep, AccountsApartStep DEF Places

(* In every state sessions sit in lobbies that are there, under ids of     *)
(* their own (HandleLobbyJoin, DisconnectSession).                         *)
THEOREM PlacesHold == Spec => []Places
BY TypeInit, PlacesInit, PlacesStep, PTL DEF Spec, Places

(* SessionsInLiveLobbies: no step takes a lobby away from under a session  *)
(* (DisconnectSession, TickLobby), or gives two lobbies one id.            *)
THEOREM LiveLobbies == Spec => []SessionsInLiveLobbies
<1>1. Places => SessionsInLiveLobbies
  BY DEF Places, LobbiesApart, SessionsSeated, Seated, LiveIds, SessionsInLiveLobbies, Find
<1> QED BY <1>1, PlacesHold, PTL

(* What a packet or a connection does to one lobby: a session leaves it,   *)
(* joins it, enters its match or votes in it.                              *)
LeftBy(s, l) ==
  /\ Disconnect(s) \/ HandleLobbyLeave(s)
  /\ l \in Find(session[s].lobby_id) /\ lobby'[l] = Depart(lobby[l], session[s])

JoinedBy(s, l) ==
  /\ JoinAsPlayer(s, l) /\ lobby'[l].intermission = lobby[l].intermission
  /\ lobby'[l].participants = lobby[l].participants
  /\ lobby'[l].colonies = lobby[l].colonies \cup {next_player_id}
  /\ lobby'[l].stats = lobby[l].stats \cup {next_player_id}
  /\ lobby'[l].bots = lobby[l].bots - BotsToRemove(Cardinality(RealPlayers(lobby[l])), lobby[l].bots)

FailedBy(s, l) ==
  /\ JoinFails(s, l) /\ lobby'[l].intermission = lobby[l].intermission
  /\ lobby'[l].participants = lobby[l].participants
  /\ lobby'[l].colonies = lobby[l].colonies /\ lobby'[l].stats = lobby[l].stats
  /\ lobby'[l].bots = lobby[l].bots - BotsToRemove(Cardinality(RealPlayers(lobby[l])), lobby[l].bots)

EnteredBy(s, l) ==
  /\ HandleEnterMatch(s) /\ l \in Find(session[s].lobby_id)
  /\ lobby'[l].intermission = lobby[l].intermission
  /\ lobby'[l].participants = Register(lobby[l].participants, session[s])
  /\ lobby'[l].colonies = lobby[l].colonies /\ lobby'[l].stats = lobby[l].stats /\ lobby'[l].bots = lobby[l].bots

VotedBy(s, l) ==
  /\ lobby'[l].intermission.eligible = lobby[l].intermission.eligible
  /\ lobby'[l].intermission.round_id = lobby[l].intermission.round_id
  /\ lobby'[l].intermission.resolved = lobby[l].intermission.resolved
  /\ \E round_id \in 0..MaxRounds, vote \in ClientVotes : DispatchRematchVote(s, l, round_id, vote)
  /\ lobby'[l].participants = lobby[l].participants
  /\ lobby'[l].colonies = lobby[l].colonies /\ lobby'[l].stats = lobby[l].stats /\ lobby'[l].bots = lobby[l].bots

CreatedBy(s, l) ==
  /\ \E ok \in DatabaseOutcomes : HandleLobbyCreate(s, ok)
  /\ ~lobby[l].active /\ rounds' = rounds + 1
  /\ lobby'[l].active /\ lobby'[l].lobby_id = next_lobby_id /\ lobby'[l].phase = "running"
  /\ lobby'[l].round = rounds + 1 /\ lobby'[l].next_round_id = 0 /\ lobby'[l].bots = BotTargetFor(0)
  /\ lobby'[l].colonies = {} /\ lobby'[l].stats = {} /\ DOMAIN lobby'[l].participants = {}

LobbyMove(s, l) ==
  \/ lobby'[l] = lobby[l]
  \/ CreatedBy(s, l)
  \/ /\ Settled /\ Kept(lobby[l], lobby'[l])
     /\ LeftBy(s, l) \/ JoinedBy(s, l) \/ FailedBy(s, l) \/ EnteredBy(s, l) \/ VotedBy(s, l)

(* A packet or a connection does one of six things to a lobby.             *)
LEMMA LobbyMoves ==
  ASSUME TypeOK, NEW s \in Sessions, Event(s), NEW l \in Slots
  PROVE  LobbyMove(s, l)
<1>0. LobbyOK(lobby[l]) /\ Kept(lobby[l], lobby[l])
  BY DEF TypeOK, Kept
<1>1. CASE Connect(s) \/ DropPeer(s) \/ HandleHello(s) \/ (\E account \in Accounts : HandleAuthRequest(s, account))
           \/ (\E m \in Slots : JoinAsSpectator(s, m)) \/ (\E ready \in BOOLEAN : HandleReadyState(s, ready))
           \/ HandleVoiceFrame(s)
  BY <1>1 DEF Connect, DropPeer, HandleHello, HandleAuthRequest, JoinAsSpectator, HandleReadyState,
              HandleVoiceFrame, LobbyMove
<1>2. CASE ~\E ok \in DatabaseOutcomes : HandleLobbyCreate(s, ok)
  <2>1. Settled /\ Kept(lobby[l], lobby'[l])
    BY <1>2, EventEffects DEF Settled
  <2>2. CASE Disconnect(s) \/ HandleLobbyLeave(s)
    <3>1. lobby'[l] = lobby[l] \/ LeftBy(s, l)
      BY <2>2 DEF Disconnect, HandleLobbyLeave, LeftBy
    <3> QED BY <2>1, <3>1 DEF LobbyMove
  <2>3. CASE HandleEnterMatch(s)
    <3>1. PICK lob, table : lob = lobby[l] /\ table = Register(lob.participants, session[s])
      OBVIOUS
    <3>2. \/ lobby'[l] = lobby[l]
          \/ l \in Find(session[s].lobby_id) /\ lobby'[l] = [lob EXCEPT !.participants = table]
      BY <2>3, <3>1 DEF HandleEnterMatch
    <3>3. lobby'[l] = lobby[l] \/ EnteredBy(s, l)
      BY <1>0, <2>3, <3>1, <3>2 DEF EnteredBy, LobbyOK
    <3> QED BY <2>1, <3>3 DEF LobbyMove
  <2>4. ASSUME NEW m \in Slots, NEW round_id \in 0..MaxRounds, NEW vote \in ClientVotes,
               DispatchRematchVote(s, m, round_id, vote)
        PROVE  LobbyMove(s, l)
    <3>1. PICK lob, ballot : lob = lobby[m] /\ ballot = CastVote(lob.intermission, session[s].player_id, vote)
      OBVIOUS
    <3>2. LobbyOK(lob) /\ lobby' = [lobby EXCEPT ![m] = [lob EXCEPT !.intermission = ballot]]
      BY <2>4, <3>1 DEF DispatchRematchVote, TypeOK
    <3>3. CASE m # l
      BY <3>2, <3>3 DEF LobbyMove, TypeOK
    <3>4. CASE m = l
      <4>1. /\ ballot.eligible = lob.intermission.eligible /\ ballot.round_id = lob.intermission.round_id
            /\ ballot.resolved = lob.intermission.resolved
        BY <3>1, <3>2, CastVoteShape DEF LobbyOK
      <4>2. lobby'[l] = [lob EXCEPT !.intermission = ballot] /\ lob = lobby[l]
        BY <3>1, <3>2, <3>4 DEF TypeOK
      <4>3. VotedBy(s, l)
        BY <2>4, <3>2, <3>4, <4>1, <4>2 DEF VotedBy, LobbyOK
      <4> QED BY <2>1, <4>3 DEF LobbyMove
    <3> QED BY <3>3, <3>4
  <2>5. ASSUME NEW m \in Slots, JoinFails(s, m)
        PROVE  LobbyMove(s, l)
    <3>1. PICK lob, fewer : /\ lob = lobby[m] /\ fewer = lob.bots - BotsToRemove(Cardinality(RealPlayers(lob)), lob.bots)
      OBVIOUS
    <3>2. LobbyOK(lob) /\ lobby' = [lobby EXCEPT ![m] = [lob EXCEPT !.bots = fewer]]
      BY <2>5, <3>1 DEF JoinFails, TypeOK
    <3>3. CASE m # l
      BY <3>2, <3>3 DEF LobbyMove, TypeOK
    <3>4. CASE m = l
      <4>1. lobby'[l] = [lob EXCEPT !.bots = fewer] /\ lob = lobby[l]
        BY <3>1, <3>2, <3>4 DEF TypeOK
      <4>2. FailedBy(s, l)
        BY <2>5, <3>1, <3>2, <3>4, <4>1 DEF FailedBy, LobbyOK
      <4> QED BY <2>1, <4>2 DEF LobbyMove
    <3> QED BY <3>3, <3>4
  <2>6. ASSUME NEW m \in Slots, JoinAsPlayer(s, m)
        PROVE  LobbyMove(s, l)
    <3>1. PICK lob, fewer, id : /\ lob = lobby[m] /\ id = next_player_id
                                /\ fewer = lob.bots - BotsToRemove(Cardinality(RealPlayers(lob)), lob.bots)
      OBVIOUS
    <3>2. /\ LobbyOK(lob)
          /\ lobby' = [lobby EXCEPT ![m] = [lob EXCEPT !.bots = fewer, !.colonies = lob.colonies \cup {id},
                                                       !.stats = lob.stats \cup {id}]]
      BY <2>6, <3>1 DEF JoinAsPlayer, TypeOK
    <3>3. CASE m # l
      BY <3>2, <3>3 DEF LobbyMove, TypeOK
    <3>4. CASE m = l
      <4>1. /\ lobby'[l] = [lob EXCEPT !.bots = fewer, !.colonies = lob.colonies \cup {id}, !.stats = lob.stats \cup {id}]
            /\ lob = lobby[l]
        BY <3>1, <3>2, <3>4 DEF TypeOK
      <4>2. /\ lobby'[l].intermission = lob.intermission /\ lobby'[l].participants = lob.participants
            /\ lobby'[l].colonies = lob.colonies \cup {id} /\ lobby'[l].stats = lob.stats \cup {id}
            /\ lobby'[l].bots = fewer
        <5>1. PICK new : /\ new = lobby'[l]
                         /\ new = [lob EXCEPT !.bots = fewer, !.colonies = lob.colonies \cup {id}, !.stats = lob.stats \cup {id}]
          BY <4>1
        <5>2. /\ new.intermission = lob.intermission /\ new.participants = lob.participants
              /\ new.colonies = lob.colonies \cup {id} /\ new.stats = lob.stats \cup {id} /\ new.bots = fewer
          BY <3>2, <5>1 DEF LobbyOK
        <5> QED BY <5>1, <5>2
      <4>3. JoinedBy(s, l)
        BY <2>6, <3>1, <3>4, <4>1, <4>2 DEF JoinedBy
      <4> QED BY <2>1, <4>3 DEF LobbyMove
    <3> QED BY <3>3, <3>4
  <2> QED BY <1>1, <1>2, <2>2, <2>3, <2>4, <2>5, <2>6 DEF Event
<1>3. ASSUME NEW ok \in DatabaseOutcomes, HandleLobbyCreate(s, ok)
      PROVE  LobbyMove(s, l)
  <2>1. CASE lobby'[l] = lobby[l]
    BY <2>1 DEF LobbyMove
  <2>2. CASE lobby'[l] # lobby[l]
    <3>1. PICK id, uuid, m, created :
            /\ id = next_lobby_id /\ uuid = rounds + 1 /\ m \in Slots /\ created = Fresh(id, uuid)
            /\ ~lobby[m].active /\ rounds' = uuid /\ lobby' = [lobby EXCEPT ![m] = created]
      <4>1. PICK m \in Slots : /\ ~lobby[m].active /\ rounds' = rounds + 1
                               /\ lobby' = [lobby EXCEPT ![m] = Fresh(next_lobby_id, rounds + 1)]
        BY <1>3, <2>2, CreateShape
      <4> QED BY <4>1
    <3>2. id \in Nat /\ uuid \in Nat
      BY <3>1 DEF TypeOK
    <3>3. /\ created.active /\ created.lobby_id = id /\ created.phase = "running" /\ created.round = uuid
          /\ created.next_round_id = 0 /\ created.bots = BotTargetFor(0)
          /\ created.colonies = {} /\ created.stats = {} /\ DOMAIN created.participants = {}
      BY <3>1, <3>2, FreshShape
    <3>4. m = l /\ lobby'[l] = created
      BY <2>2, <3>1 DEF TypeOK
    <3>5. CreatedBy(s, l)
      BY <1>3, <3>1, <3>3, <3>4 DEF CreatedBy
    <3> QED BY <3>5 DEF LobbyMove
  <2> QED BY <2>1, <2>2
<1> QED BY <1>2, <1>3

(* What the tick of a lobby does to it: nothing that matters, a step of    *)
(* its match, the end of the match, or the end of the vote.                *)
Alike(lob, new) ==
  /\ new.lobby_id = lob.lobby_id /\ new.phase = lob.phase /\ new.next_round_id = lob.next_round_id
  /\ new.round = lob.round /\ new.intermission = lob.intermission /\ new.participants = lob.participants
  /\ new.colonies = lob.colonies /\ new.stats = lob.stats

Lived(lob, new) ==
  /\ Kept(lob, new) /\ new.intermission = lob.intermission
  /\ new.colonies = lob.colonies /\ new.stats = lob.colonies
  /\ DOMAIN new.participants = DOMAIN lob.participants
  /\ \A a \in DOMAIN lob.participants :
       /\ new.participants[a].runtime = lob.participants[a].runtime
       /\ new.participants[a].disconnected = lob.participants[a].disconnected
       /\ new.participants[a].counted = lob.participants[a].counted
       /\ new.participants[a].lives = lob.participants[a].lives \cup ({lob.participants[a].runtime} \cap lob.colonies)

Idled(l) == UNCHANGED <<session, rows, rounds>> /\ Alike(lobby[l], lobby'[l])

Ran(l) == UNCHANGED <<session, rows, rounds>> /\ Lived(lobby[l], lobby'[l]) /\ lobby[l].phase = "running"

EndedBy(l) ==
  /\ UNCHANGED <<session, rounds>> /\ lobby[l].phase = "running" /\ lobby'[l].phase = "results"
  /\ lobby'[l].active = lobby[l].active /\ lobby'[l].lobby_id = lobby[l].lobby_id /\ lobby'[l].round = lobby[l].round
  /\ lobby'[l].next_round_id = lobby[l].next_round_id + 1
  /\ lobby'[l].intermission = Begin(Electorate(lobby[l]), lobby[l].next_round_id + 1)
  /\ lobby'[l].colonies = lobby[l].colonies /\ lobby'[l].stats = lobby[l].colonies
  /\ \E lob, final :
       /\ Lived(lobby[l], lob) /\ LobbyOK(lob) /\ final = CaptureRemaining(lob) /\ ParticipantTable(final)
       /\ rows' = rows \/ \E status \in {"completed", "aborted"} : Saved(rows, lob, final, status, rows')

ResolvedBy(l) ==
  \E lob, st, participants :
    /\ Kept(lobby[l], lob) /\ LobbyOK(lob) /\ lobby[l].phase = "results"
    /\ st = Resolve(lobby[l].intermission) /\ st \in IntermissionStates /\ rounds' = rounds + 1
    /\ session' = [s \in Sessions |-> IF Here(s, lob) THEN AfterVote(session[s], st) ELSE session[s]]
    /\ session' \in [Sessions -> SessionRecords]
    /\ participants = RegisterEntered(lob, session') /\ ParticipantTable(participants)
    /\ lobby'[l].active = lobby[l].active /\ lobby'[l].lobby_id = lobby[l].lobby_id /\ lobby'[l].phase = "running"
    /\ lobby'[l].next_round_id = lobby[l].next_round_id /\ lobby'[l].round = rounds + 1
    /\ lobby'[l].intermission = st /\ lobby'[l].stats = {} /\ lobby'[l].participants = participants
    /\ lobby'[l].colonies = lobby[l].colonies \ Retired(lob, st)
    /\ \/ rows' = rows
       \/ \E new : /\ new.lobby_id = lobby[l].lobby_id /\ new.next_round_id = lobby[l].next_round_id
                   /\ Begun(rows, rounds + 1, new, rows')

TickMove(l) == Idled(l) \/ Ran(l) \/ EndedBy(l) \/ ResolvedBy(l)

(* A tick idles, simulates, ends the match or resolves the vote.           *)
LEMMA TickMoves ==
  ASSUME TypeOK, NEW l \in Slots, Tick(l)
  PROVE  TickMove(l)
<1>0. LobbyOK(lobby[l]) /\ (\A b \in AdjustedBots(lobby[l]) : b \in Nat)
  <2>1. PICK lob : lob = lobby[l]
    OBVIOUS
  <2> QED BY <2>1, AdjustedBotsShape DEF TypeOK
<1>1. CASE TickEmpty(l)
  <2>1. PICK lob, new : /\ lob = lobby[l] /\ lobby' = [lobby EXCEPT ![l] = new]
                        /\ new = [lob EXCEPT !.empty = TRUE] \/ new = [lob EXCEPT !.active = FALSE]
    BY <1>1 DEF TickEmpty
  <2>2. Alike(lob, new)
    BY <1>0, <2>1 DEF LobbyOK, Alike
  <2> QED BY <1>1, <2>1, <2>2 DEF TickEmpty, Idled, TickMove, TypeOK
<1>2. ASSUME NEW bots \in Nat, TickRunning(l, bots)
      PROVE  TickMove(l)
  <2>1. PICK lob, new : lob = lobby[l] /\ new = Simulated(lob, bots) /\ LobbyOK(lob)
    BY <1>0
  <2>2. Lived(lob, new)
    BY <2>1, SimulatedShape DEF Lived
  <2> QED BY <1>2, <2>1, <2>2 DEF TickRunning, Ran, TickMove, TypeOK
<1>3. ASSUME NEW bots \in Nat, NEW ok, TickMatchEnds(l, bots, ok)
      PROVE  TickMove(l)
  <2>1. PICK before, lob, final, new :
          /\ before = lobby[l] /\ lob = Simulated(before, bots) /\ LobbyOK(lob) /\ new = Ended(lob)
          /\ final = CaptureRemaining(lob) /\ ParticipantTable(final)
          /\ lobby' = [lobby EXCEPT ![l] = new]
          /\ \/ rows' = rows
             \/ \E status \in {"completed", "aborted"} : Saved(rows, lob, final, status, rows')
    BY <1>3, MatchEndsShape
  <2>2. Lived(before, lob)
    BY <1>0, <2>1, SimulatedShape DEF Lived
  <2>3. Electorate(lob) = Electorate(before)
    BY <2>2 DEF Electorate, Lived, Kept
  <2>4. /\ new.active = lob.active /\ new.lobby_id = lob.lobby_id /\ new.round = lob.round
        /\ new.colonies = lob.colonies /\ new.phase = "results" /\ new.next_round_id = lob.next_round_id + 1
        /\ new.intermission = Begin(Electorate(lob), lob.next_round_id + 1)
    BY <2>1, EndedShape, ElectorateShape DEF TypeOK
  <2>5. new.stats = lob.stats
    BY <2>1 DEF Ended, LobbyOK
  <2>6. /\ new.active = before.active /\ new.lobby_id = before.lobby_id /\ new.round = before.round
        /\ new.colonies = before.colonies /\ new.stats = before.colonies
        /\ new.phase = "results" /\ new.next_round_id = before.next_round_id + 1
        /\ new.intermission = Begin(Electorate(before), before.next_round_id + 1)
    BY <2>2, <2>3, <2>4, <2>5 DEF Lived, Kept
  <2>7. UNCHANGED <<session, rounds>> /\ before.phase = "running"
    BY <1>3, <2>1 DEF TickMatchEnds
  <2>8. lobby'[l] = new
    BY <2>1 DEF TypeOK
  <2>9. EndedBy(l)
    BY <2>1, <2>2, <2>6, <2>7, <2>8 DEF EndedBy
  <2> QED BY <2>9 DEF TickMove
<1>4. ASSUME NEW bots \in Nat, TickResults(l, bots)
      PROVE  TickMove(l)
  <2>1. PICK lob, ticked, new : /\ lob = lobby[l] /\ ticked = Ticked(lob, bots) /\ LobbyOK(lob)
                                /\ new = [ticked EXCEPT !.results_left = @ - 1]
    BY <1>0
  <2>2. LobbyOK(ticked) /\ Alike(lob, ticked)
    BY <2>1, TickedShape DEF Alike, Kept
  <2>3. Alike(lob, new)
    BY <2>1, <2>2 DEF Alike, LobbyOK
  <2> QED BY <1>4, <2>1, <2>3 DEF TickResults, Idled, TickMove, TypeOK
<1>5. ASSUME NEW bots \in Nat, NEW ok, TickResolves(l, bots, ok)
      PROVE  TickMove(l)
  <2>1. PICK before, lob, st, participants, retired, uuid, new, nobody, fresh :
          /\ before = lobby[l] /\ lob = Ticked(before, bots) /\ LobbyOK(lob)
          /\ st = Resolve(lob.intermission) /\ st \in IntermissionStates
          /\ session' = [s \in Sessions |-> IF Here(s, lob) THEN AfterVote(session[s], st) ELSE session[s]]
          /\ session' \in [Sessions -> SessionRecords]
          /\ participants = RegisterEntered(lob, session') /\ ParticipantTable(participants) /\ rounds' = rounds + 1
          /\ retired = Retired(lob, st) /\ uuid = rounds + 1
          /\ new = Resumed(lob, st, retired, uuid, participants) /\ lobby' = [lobby EXCEPT ![l] = new]
          /\ nobody = NoLobby.participants /\ fresh = Resumed(lob, st, retired, uuid, nobody)
          /\ (rows' = rows \/ Begun(rows, uuid, fresh, rows'))
    BY <1>5, ResolvesShape
  <2>2. Kept(before, lob) /\ lob.colonies = before.colonies /\ lob.intermission = before.intermission
    BY <1>0, <2>1, TickedShape
  <2>3. /\ uuid \in Nat /\ LobbyOK(lob) /\ st \in IntermissionStates /\ ParticipantTable(participants)
        /\ new = Resumed(lob, st, retired, uuid, participants) /\ fresh = Resumed(lob, st, retired, uuid, nobody)
        /\ ParticipantTable(nobody)
    BY <2>1, NoLobbyShape DEF TypeOK
  <2>4. /\ new.active = lob.active /\ new.lobby_id = lob.lobby_id /\ new.phase = "running"
        /\ new.next_round_id = lob.next_round_id /\ new.round = uuid
        /\ new.intermission = st /\ new.stats = {} /\ new.participants = participants
    BY ONLY <2>3, ResumedShape
  <2>5. new.colonies = lob.colonies \ retired
    BY ONLY <2>3, ResumedColonies
  <2>6. fresh.lobby_id = lob.lobby_id /\ fresh.next_round_id = lob.next_round_id
    BY ONLY <2>3, ResumedShape
  <2>7. lobby'[l] = new /\ before.phase = "results"
    BY <1>5, <2>1 DEF TickResolves, TypeOK
  <2>8. /\ fresh.lobby_id = before.lobby_id /\ fresh.next_round_id = before.next_round_id
        /\ new.active = before.active /\ new.lobby_id = before.lobby_id /\ new.next_round_id = before.next_round_id
        /\ new.colonies = before.colonies \ retired /\ st = Resolve(before.intermission)
    <3>1. /\ lob.lobby_id = before.lobby_id /\ lob.next_round_id = before.next_round_id
          /\ lob.active = before.active /\ st = Resolve(before.intermission)
      BY <2>1, <2>2 DEF Kept
    <3> QED BY ONLY <2>2, <2>4, <2>5, <2>6, <3>1
  <2>9. ResolvedBy(l)
    <3>1. \/ rows' = rows
          \/ \E made : /\ made.lobby_id = lobby[l].lobby_id /\ made.next_round_id = lobby[l].next_round_id
                       /\ Begun(rows, rounds + 1, made, rows')
      BY ONLY <2>1, <2>8
    <3>2. /\ Kept(lobby[l], lob) /\ lobby[l].phase = "results" /\ st = Resolve(lobby[l].intermission)
          /\ lobby'[l].active = lobby[l].active /\ lobby'[l].lobby_id = lobby[l].lobby_id
          /\ lobby'[l].phase = "running" /\ lobby'[l].next_round_id = lobby[l].next_round_id
          /\ lobby'[l].round = rounds + 1 /\ lobby'[l].intermission = st /\ lobby'[l].stats = {}
          /\ lobby'[l].participants = participants /\ lobby'[l].colonies = lobby[l].colonies \ Retired(lob, st)
      <4>1. before = lobby[l] /\ uuid = rounds + 1 /\ retired = Retired(lob, st)
        BY ONLY <2>1
      <4> QED BY ONLY <2>2, <2>4, <2>7, <2>8, <4>1
    <3>3. /\ LobbyOK(lob) /\ st \in IntermissionStates /\ rounds' = rounds + 1
          /\ session' = [s \in Sessions |-> IF Here(s, lob) THEN AfterVote(session[s], st) ELSE session[s]]
          /\ session' \in [Sessions -> SessionRecords]
          /\ participants = RegisterEntered(lob, session') /\ ParticipantTable(participants)
      BY ONLY <2>1
    <3> QED BY ONLY <3>1, <3>2, <3>3, Zenon DEF ResolvedBy
  <2> QED BY <2>9 DEF TickMove
<1> QED BY <1>0, <1>1, <1>2, <1>3, <1>4, <1>5 DEF Tick

-----------------------------------------------------------------------------
(* ---- How many fit ------------------------------------------------------ *)

(* A session that plays in the lobby with this id.                         *)
Playing(c, id) == c.peer # "none" /\ c.active /\ c.lobby_id = id /\ ~c.spectating

(* Fewer players and no more bots fit where more did.                      *)
LEMMA FewerFit ==
  ASSUME NEW before, NEW after \in SUBSET before, before \in SUBSET Sessions, NEW m \in Nat, NEW n \in Nat,
         Cardinality(before) + m <= MaxParticipants,
         n <= m \/ n <= BotTargetFor(Cardinality(before))
  PROVE  Cardinality(after) + n <= MaxParticipants
<1>1. IsFiniteSet(Sessions)
  BY RealPlayersCounted
<1>2. IsFiniteSet(before)
  BY <1>1, FS_Subset
<1>3. PICK real, left : /\ real = Cardinality(before) /\ left = Cardinality(after)
                        /\ real \in Nat /\ left \in Nat /\ left <= real
  BY <1>2, FS_Subset, FS_CardinalityType
<1>4. real <= MaxParticipants => BotTargetFor(real) + real <= MaxParticipants /\ BotTargetFor(real) \in Nat
  BY <1>3, BotNumbers
<1> QED BY <1>3, <1>4, Numbers

(* A lobby with bots to its target alone fits.                             *)
LEMMA NobodyFits == BotTargetFor(0) <= MaxParticipants /\ Cardinality({}) = 0
BY BotNumbers, FS_EmptySet, Numbers

(* The default lobbies hold bots alone.                                    *)
LEMMA CapacityInit == Init => CapacityRespected
<1> SUFFICES ASSUME Init, NEW l \in Slots, lobby[l].active
             PROVE  Cardinality(RealPlayers(lobby[l])) + lobby[l].bots <= MaxParticipants
  BY DEF CapacityRespected
<1>1. RealPlayers(lobby[l]) = {}
  BY DEF Init, RealPlayers, Here, NoSession
<1>2. lobby[l].bots = BotTargetFor(0)
  BY InitLobbies
<1>3. BotTargetFor(0) \in Nat
  BY BotNumbers
<1> QED BY <1>1, <1>2, <1>3, NobodyFits

(* A packet or a connection brings at most its own session into a lobby,   *)
(* and that by HandleLobbyJoin.                                            *)
LEMMA PlayersOfEvent ==
  ASSUME Places, NEW s \in Sessions, Event(s), NEW id, id # 0
  PROVE  /\ \A t \in Sessions : t # s => session'[t] = session[t]
         /\ Playing(session'[s], id) =>
              \/ Playing(session[s], id)
              \/ \E l \in Slots : JoinAsPlayer(s, l) /\ lobby[l].lobby_id = id /\ session[s].lobby_id = 0
<1>1. Moved(s, session[s], session'[s]) /\ Seated(session[s])
  BY SessionMoves DEF Places, SessionsSeated
<1>2. \A t \in Sessions : t # s => session'[t] = session[t]
  BY EventEffects DEF Places, EventEffect
<1> QED BY <1>1, <1>2 DEF Playing, Moved, Left, Sat, Stayed, Seated

(* The players of a lobby after a packet or a connection: the session it   *)
(* is of may have joined.                                                  *)
LEMMA OneMore ==
  ASSUME NEW before \in SUBSET Sessions, NEW s, NEW after \in SUBSET (before \cup {s})
  PROVE  /\ Cardinality(before) \in Nat /\ Cardinality(after) \in Nat
         /\ Cardinality(after) <= Cardinality(before) + 1
<1>1. IsFiniteSet(before)
  BY RealPlayersCounted, FS_Subset
<1>2. /\ IsFiniteSet(before \cup {s})
      /\ Cardinality(before \cup {s}) = Cardinality(before) \/ Cardinality(before \cup {s}) = Cardinality(before) + 1
  BY <1>1, FS_AddElement
<1>3. IsFiniteSet(after) /\ Cardinality(after) <= Cardinality(before \cup {s})
  BY <1>2, FS_Subset
<1>4. Cardinality(before) \in Nat /\ Cardinality(after) \in Nat /\ Cardinality(before \cup {s}) \in Nat
  BY <1>1, <1>2, <1>3, FS_CardinalityType
<1> QED BY <1>2, <1>3, <1>4

(* A join fits: the plan of admission leaves it a place.                   *)
LEMMA CapacityEvent ==
  ASSUME Places, CapacityRespected, NEW s \in Sessions, Event(s)
  PROVE  CapacityRespected'
<1>0. /\ \A l \in Slots : lobby[l].active => lobby[l].lobby_id # 0
      /\ TypeOK /\ next_lobby_id # 0
  BY DEF Places, LobbiesApart, TypeOK
<1> SUFFICES ASSUME NEW l \in Slots, lobby'[l].active
             PROVE  Cardinality(RealPlayers(lobby[l])') + lobby'[l].bots <= MaxParticipants
  BY DEF CapacityRespected
<1> DEFINE before == {t \in Sessions : Playing(session[t], lobby[l].lobby_id)}
           after == {t \in Sessions : Playing(session'[t], lobby'[l].lobby_id)}
<1>1. RealPlayers(lobby[l])' = after /\ RealPlayers(lobby[l]) = before
  BY DEF RealPlayers, Here, Playing
<1>2. lobby[l].bots \in Nat /\ LobbyOK(lobby[l])
  BY <1>0 DEF TypeOK, LobbyOK
<1>3. /\ \A t \in Sessions : t # s => session'[t] = session[t]
      /\ lobby[l].active => /\ lobby[l].lobby_id # 0
                            /\ Cardinality(before) + lobby[l].bots <= MaxParticipants
  BY <1>0, <1>1, EventEffects DEF CapacityRespected, EventEffect
<1>4. ASSUME lobby[l].active, lobby'[l].lobby_id = lobby[l].lobby_id, lobby'[l].bots \in Nat,
             lobby'[l].bots <= lobby[l].bots, ~JoinAsPlayer(s, l)
      PROVE  Cardinality(after) + lobby'[l].bots <= MaxParticipants
  <2>1. PICK id : id = lobby[l].lobby_id /\ id # 0
    BY <1>3, <1>4
  <2>2. ~\E k \in Slots : JoinAsPlayer(s, k) /\ lobby[k].lobby_id = id
    <3>1. \A k \in Slots : JoinAsPlayer(s, k) => lobby[k].active
      BY DEF JoinAsPlayer
    <3> QED BY <1>4, <2>1, <3>1 DEF Places, LobbiesApart
  <2>3. after \in SUBSET before
    BY <1>4, <2>1, <2>2, PlayersOfEvent
  <2>4. before \in SUBSET Sessions
    OBVIOUS
  <2> HIDE DEF before, after
  <2> QED BY <1>2, <1>3, <1>4, <2>3, <2>4, FewerFit
<1>5. PICK real : real = Cardinality(before) /\ real \in Nat
  BY <1>1, RealPlayersCounted
<1>6. Admits(real, lobby[l].bots) =>
        /\ lobby[l].bots - BotsToRemove(real, lobby[l].bots) \in Nat
        /\ lobby[l].bots - BotsToRemove(real, lobby[l].bots) <= lobby[l].bots
        /\ real + 1 + (lobby[l].bots - BotsToRemove(real, lobby[l].bots)) <= MaxParticipants
  <2>1. PICK bots, removed : bots = lobby[l].bots /\ removed = BotsToRemove(real, bots)
    OBVIOUS
  <2>2. /\ removed \in Nat /\ bots \in Nat
        /\ Admits(real, bots) => bots - removed \in Nat /\ real + 1 + (bots - removed) <= MaxParticipants
    BY <1>2, <1>5, <2>1, BotNumbers
  <2> QED BY <2>1, <2>2
<1>7. CASE JoinedBy(s, l) /\ Kept(lobby[l], lobby'[l])
  <2>1. /\ lobby[l].active /\ Admits(real, lobby[l].bots) /\ lobby'[l].lobby_id = lobby[l].lobby_id
        /\ lobby'[l].bots = lobby[l].bots - BotsToRemove(real, lobby[l].bots)
    BY <1>1, <1>5, <1>7 DEF JoinedBy, JoinAsPlayer, Kept
  <2>2. before \in SUBSET Sessions /\ after \in SUBSET (before \cup {s})
    BY <1>3, <2>1
  <2> HIDE DEF before, after
  <2>3. Cardinality(after) \in Nat /\ Cardinality(after) <= real + 1
    BY <1>5, <2>2, OneMore
  <2>4. PICK left : left = lobby[l].bots - BotsToRemove(real, lobby[l].bots) /\ left \in Nat /\ real + 1 + left <= MaxParticipants
    BY <1>6, <2>1
  <2> QED BY <1>1, <1>5, <2>1, <2>3, <2>4, Numbers
<1>8. CASE Kept(lobby[l], lobby'[l]) /\ ~JoinAsPlayer(s, l) /\
           (lobby'[l].bots = lobby[l].bots \/ FailedBy(s, l))
  <2>1. lobby[l].active /\ lobby'[l].lobby_id = lobby[l].lobby_id
    BY <1>8 DEF Kept
  <2>2. FailedBy(s, l) => /\ Admits(real, lobby[l].bots)
                          /\ lobby'[l].bots = lobby[l].bots - BotsToRemove(real, lobby[l].bots)
    BY <1>1, <1>5 DEF FailedBy, JoinFails
  <2>3. lobby'[l].bots \in Nat /\ lobby'[l].bots <= lobby[l].bots
    BY <1>2, <1>6, <1>8, <2>2
  <2> QED BY <1>1, <1>4, <1>8, <2>1, <2>3
<1>9. CASE CreatedBy(s, l)
  <2>1. session' = session /\ lobby'[l].lobby_id = next_lobby_id /\ lobby'[l].bots = BotTargetFor(0)
    BY <1>9 DEF CreatedBy, HandleLobbyCreate
  <2>2. \A t \in Sessions : session[t].lobby_id # next_lobby_id
    <3>1. \A m \in Slots : lobby[m].active => lobby[m].lobby_id # next_lobby_id
      BY <1>0 DEF Places, LobbiesApart, TypeOK, LobbyOK
    <3> QED BY <1>0, <3>1 DEF Places, SessionsSeated, Seated, LiveIds
  <2>3. after = {}
    BY <2>1, <2>2 DEF Playing
  <2>4. PICK bots : bots = BotTargetFor(0) /\ bots \in Nat /\ bots <= MaxParticipants
    BY BotNumbers, NobodyFits
  <2> HIDE DEF after, before
  <2> QED BY <1>1, <2>1, <2>3, <2>4, NobodyFits
<1>10. lobby'[l].colonies \subseteq lobby[l].colonies => ~JoinAsPlayer(s, l)
  <2>1. JoinAsPlayer(s, l) => next_player_id \in lobby'[l].colonies
    BY <1>0, <1>2 DEF JoinAsPlayer, TypeOK, LobbyOK
  <2>2. next_player_id \notin lobby[l].colonies
    BY <1>0 DEF Places, LobbiesApart, TypeOK
  <2> QED BY <2>1, <2>2
<1>11. LeftBy(s, l) => lobby'[l].bots = lobby[l].bots /\ lobby'[l].colonies \subseteq lobby[l].colonies
  <2>1. PICK lob, c : lob = lobby[l] /\ c = session[s]
    OBVIOUS
  <2>2. Depart(lob, c).bots = lob.bots /\ Depart(lob, c).colonies = lob.colonies \ {c.player_id}
    <3>1. LobbyOK(lob)
      BY <1>2, <2>1
    <3> QED BY <3>1, DepartShape
  <2> QED BY <2>1, <2>2 DEF LeftBy
<1>12. CASE Kept(lobby[l], lobby'[l]) /\ (LeftBy(s, l) \/ FailedBy(s, l) \/ EnteredBy(s, l) \/ VotedBy(s, l))
  BY <1>8, <1>10, <1>11, <1>12 DEF FailedBy, EnteredBy, VotedBy
<1>13. CASE lobby'[l] = lobby[l]
  BY <1>8, <1>10, <1>13 DEF Kept
<1>14. LobbyMove(s, l)
  BY <1>0, LobbyMoves
<1> QED BY <1>7, <1>9, <1>12, <1>13, <1>14 DEF LobbyMove

(* The tick of a lobby takes players out of it and moves its bots at most  *)
(* to their target (AdjustLobbyBots).                                      *)
BotsMoved(l) ==
  lobby'[l].bots = lobby[l].bots \/ \E bots \in AdjustedBots(lobby[l]) : lobby'[l].bots = bots

(* What a tick does to the bots of its lobby (AdjustLobbyBots).            *)
LEMMA TickBots ==
  ASSUME TypeOK, NEW l \in Slots, Tick(l)
  PROVE  BotsMoved(l)
<1>0. LobbyOK(lobby[l]) /\ (\A b \in AdjustedBots(lobby[l]) : b \in Nat)
  <2>1. PICK lob : lob = lobby[l]
    OBVIOUS
  <2> QED BY <2>1, AdjustedBotsShape DEF TypeOK
<1>1. CASE TickEmpty(l)
  <2>1. PICK lob, new : /\ lob = lobby[l] /\ lobby' = [lobby EXCEPT ![l] = new]
                        /\ new = [lob EXCEPT !.empty = TRUE] \/ new = [lob EXCEPT !.active = FALSE]
    BY <1>1 DEF TickEmpty
  <2>2. new.bots = lob.bots
    BY <1>0, <2>1 DEF LobbyOK
  <2> QED BY <2>1, <2>2 DEF BotsMoved, TypeOK
<1>2. ASSUME NEW bots \in AdjustedBots(lobby[l]), TickRunning(l, bots)
      PROVE  lobby'[l].bots = bots
  <2>1. PICK lob, new : lob = lobby[l] /\ new = Simulated(lob, bots)
    OBVIOUS
  <2>2. new.bots = bots
    BY <1>0, <2>1, SimulatedShape
  <2> QED BY <1>2, <2>1, <2>2 DEF TickRunning, TypeOK
<1>3. ASSUME NEW bots \in AdjustedBots(lobby[l]), NEW ok, TickMatchEnds(l, bots, ok)
      PROVE  lobby'[l].bots = bots
  <2>1. PICK before, lob, new :
          /\ before = lobby[l] /\ lob = Simulated(before, bots) /\ LobbyOK(lob) /\ new = Ended(lob)
          /\ lobby' = [lobby EXCEPT ![l] = new]
    BY <1>0, <1>3, MatchEndsShape
  <2>2. lob.bots = bots
    BY <1>0, <2>1, SimulatedShape
  <2>3. new.bots = lob.bots
    BY <2>1, EndedShape, ElectorateShape DEF TypeOK
  <2> QED BY <2>1, <2>2, <2>3 DEF TypeOK
<1>4. ASSUME NEW bots \in AdjustedBots(lobby[l]), TickResults(l, bots)
      PROVE  lobby'[l].bots = bots
  <2>1. PICK lob, ticked, new : /\ lob = lobby[l] /\ ticked = Ticked(lob, bots)
                                /\ new = [ticked EXCEPT !.results_left = @ - 1]
    OBVIOUS
  <2>2. ticked.bots = bots /\ LobbyOK(ticked)
    BY <1>0, <2>1, TickedShape
  <2>3. new.bots = bots
    BY <2>1, <2>2 DEF LobbyOK
  <2> QED BY <1>4, <2>1, <2>3 DEF TickResults, TypeOK
<1>5. ASSUME NEW bots \in AdjustedBots(lobby[l]), NEW ok, TickResolves(l, bots, ok)
      PROVE  lobby'[l].bots = bots
  <2>1. PICK before, lob, st, participants, retired, uuid, new :
          /\ before = lobby[l] /\ lob = Ticked(before, bots) /\ LobbyOK(lob) /\ st \in IntermissionStates
          /\ ParticipantTable(participants) /\ uuid = rounds + 1
          /\ new = Resumed(lob, st, retired, uuid, participants) /\ lobby' = [lobby EXCEPT ![l] = new]
    BY <1>0, <1>5, ResolvesShape
  <2>2. lob.bots = bots
    BY <1>0, <2>1, TickedShape
  <2>3. /\ uuid \in Nat /\ LobbyOK(lob) /\ st \in IntermissionStates /\ ParticipantTable(participants)
        /\ new = Resumed(lob, st, retired, uuid, participants)
    BY <2>1 DEF TypeOK
  <2>4. new.bots = lob.bots
    BY ONLY <2>3, ResumedShape
  <2> QED BY <2>1, <2>2, <2>4 DEF TypeOK
<1> QED BY <1>1, <1>2, <1>3, <1>4, <1>5 DEF Tick, BotsMoved

(* Nobody stops spectating in a tick (ResolveIntermission).                *)
LEMMA StillSpectating ==
  ASSUME TypeOK, NEW l \in Slots, Tick(l), NEW s \in Sessions, session[s].spectating
  PROVE  session'[s].spectating
<1>1. ASSUME NEW bots \in Nat, NEW ok, TickResolves(l, bots, ok)
      PROVE  session'[s].spectating
  <2>1. PICK lob, st :
          session' = [t \in Sessions |-> IF Here(t, lob) THEN AfterVote(session[t], st) ELSE session[t]]
    BY <1>1, ResolvesShape
  <2>2. PICK c : c = session[s] /\ c \in SessionRecords
    BY DEF TypeOK
  <2>3. AfterVote(c, st).spectating
    BY <2>2, AfterVoteShape
  <2> QED BY <2>1, <2>2, <2>3
<1>2. \A b \in AdjustedBots(lobby[l]) : b \in Nat
  <2>1. PICK lob : lob = lobby[l]
    OBVIOUS
  <2> QED BY <2>1, AdjustedBotsShape DEF TypeOK
<1> QED BY <1>1, <1>2 DEF Tick, TickEmpty, TickRunning, TickMatchEnds, TickResults

(* A tick seats nobody and adds a bot only below the target.               *)
LEMMA CapacityTick ==
  ASSUME Places, CapacityRespected, NEW l \in Slots, Tick(l)
  PROVE  CapacityRespected'
<1>0. TypeOK /\ TickEffect(l) /\ BotsMoved(l)
  BY TickEffects, TickBots DEF Places
<1> SUFFICES ASSUME NEW m \in Slots, lobby'[m].active
             PROVE  Cardinality(RealPlayers(lobby[m])') + lobby'[m].bots <= MaxParticipants
  BY DEF CapacityRespected
<1> DEFINE before == {t \in Sessions : Playing(session[t], lobby[m].lobby_id)}
           after == {t \in Sessions : Playing(session'[t], lobby'[m].lobby_id)}
<1>1. RealPlayers(lobby[m])' = after /\ RealPlayers(lobby[m]) = before
  BY DEF RealPlayers, Here, Playing
<1>2. lobby'[m].lobby_id = lobby[m].lobby_id /\ lobby[m].active
  BY <1>0 DEF TickEffect
<1>3. before \in SUBSET Sessions /\ after \in SUBSET before
  BY <1>0, <1>2, StillSpectating DEF TickEffect, Playing, Unseated
<1>4. PICK lob, left : /\ lob = lobby[m] /\ LobbyOK(lob) /\ lob.bots \in Nat /\ left = lobby'[m].bots
                       /\ left = lob.bots \/ left \in AdjustedBots(lob)
  BY <1>0 DEF TypeOK, LobbyOK, TickEffect, BotsMoved
<1>5. RealPlayers(lob) = before /\ Cardinality(before) + lob.bots <= MaxParticipants
  BY <1>1, <1>2, <1>4 DEF CapacityRespected
<1>6. left \in Nat /\ (left <= lob.bots \/ left <= BotTargetFor(Cardinality(before)))
  <2>1. left \in AdjustedBots(lob) => left \in Nat /\ (left <= lob.bots \/ left <= BotTargetFor(Cardinality(RealPlayers(lob))))
    BY <1>4, AdjustedBotsShape
  <2> QED BY <1>4, <1>5, <2>1
<1> HIDE DEF before, after
<1>7. Cardinality(after) + left <= MaxParticipants
  BY <1>3, <1>4, <1>5, <1>6, FewerFit
<1> QED BY <1>1, <1>4, <1>7

(* At the end of the main loop nobody plays.                               *)
LEMMA CapacityShutdown ==
  ASSUME Places, CapacityRespected, NEW oks, Shutdown(oks)
  PROVE  CapacityRespected'
<1> SUFFICES ASSUME NEW m \in Slots, lobby'[m].active
             PROVE  Cardinality(RealPlayers(lobby[m])') + lobby'[m].bots <= MaxParticipants
  BY DEF CapacityRespected
<1>1. lobby' = lobby /\ TypeOK
  BY DEF Shutdown, Places
<1>2. \A s \in Sessions : session'[s].peer = "none"
  BY <1>1 DEF Shutdown, NoSession, TypeOK, SessionRecords
<1>3. RealPlayers(lobby[m])' = {}
  BY <1>2 DEF RealPlayers, Here
<1>4. PICK real, bots : /\ real = Cardinality(RealPlayers(lobby[m])) /\ real \in Nat
                        /\ bots = lobby[m].bots /\ bots \in Nat /\ real + bots <= MaxParticipants
  BY <1>1, RealPlayersCounted DEF CapacityRespected, TypeOK, LobbyOK
<1> QED BY <1>1, <1>3, <1>4, NobodyFits, Numbers

(* CapacityRespected: players that join while bots are added never         *)
(* overfill a lobby (ShroomLobbyPlanAdmission, AdjustLobbyBots).           *)
THEOREM CapacityHolds == Spec => []CapacityRespected
<1>1. Places /\ CapacityRespected /\ [Next]_vars => CapacityRespected'
  <2>1. ASSUME CapacityRespected, UNCHANGED vars PROVE CapacityRespected'
    BY <2>1 DEF vars, CapacityRespected, RealPlayers, Here
  <2> QED BY <2>1, CapacityEvent, CapacityTick, CapacityShutdown DEF Next
<1> QED BY <1>1, PlacesHold, CapacityInit, PTL DEF Spec

-----------------------------------------------------------------------------
(* ---- Who votes --------------------------------------------------------- *)

(* A vote under way has no result, and no spectator has a colony.          *)
VotesOpen ==
  \A l \in Slots : lobby[l].active =>
    /\ lobby[l].phase = "results" => ~lobby[l].intermission.resolved
    /\ \A s \in Sessions : session[s].spectating /\ session[s].lobby_id = lobby[l].lobby_id =>
         session[s].player_id \notin lobby[l].colonies

(* A session in the match of the lobby with this id, under its player id.  *)
Voter(c, lobby_id, id) ==
  /\ c.peer # "none" /\ c.active /\ c.lobby_id = lobby_id /\ c.player_id = id
  /\ c.entered_match /\ ~c.spectating

(* The invariant on the voters, in terms of single sessions.               *)
LEMMA VotersAre ==
  VotersArePresent <=>
    (up => \A l \in Slots : lobby[l].active /\ lobby[l].phase = "results" =>
       \A id \in lobby[l].intermission.eligible :
         \E s \in Sessions : Voter(session[s], lobby[l].lobby_id, id))
BY DEF VotersArePresent, Voter, Here

(* No lobby starts with a vote.                                            *)
LEMMA VotesInit == Init => VotesOpen /\ VotersArePresent
<1> SUFFICES ASSUME Init PROVE VotesOpen /\ VotersArePresent
  OBVIOUS
<1>1. \A l \in Slots : lobby[l].phase = "running" /\ lobby[l].colonies = {}
  BY InitLobbies
<1> QED BY <1>1 DEF VotesOpen, VotersArePresent

(* A player that leaves is no voter any more; nobody else stops being one. *)
LEMMA VotersEvent ==
  ASSUME Places, VotesOpen, VotersArePresent, NEW s \in Sessions, Event(s)
  PROVE  VotersArePresent'
<1>0. TypeOK /\ EventEffect(s) /\ Moved(s, session[s], session'[s])
  BY EventEffects, SessionMoves DEF Places, SessionsSeated
<1>1. up /\ (\A t \in Sessions : t # s => session'[t] = session[t])
  BY <1>0 DEF EventEffect
<1> SUFFICES ASSUME NEW l \in Slots, lobby'[l].active, lobby'[l].phase = "results",
                    NEW id \in lobby'[l].intermission.eligible
             PROVE  \E t \in Sessions : Voter(session'[t], lobby'[l].lobby_id, id)
  BY DEF VotersArePresent, Voter, Here
<1>2. LobbyOK(lobby[l]) /\ id # 0 /\ LobbyMove(s, l)
  <2>1. LobbyOK(lobby'[l])
    BY <1>0, TypeEvent DEF TypeOK
  <2> QED BY <1>0, <2>1, LobbyMoves, Numbers DEF TypeOK, LobbyOK, IntermissionStates
<1>3. Kept(lobby[l], lobby'[l])
  BY <1>2 DEF LobbyMove, CreatedBy, Kept
<1>4. /\ lobby[l].active /\ lobby[l].phase = "results" /\ lobby'[l].lobby_id = lobby[l].lobby_id
      /\ ~lobby[l].intermission.resolved /\ lobby[l].lobby_id # 0
  BY <1>3 DEF Kept, VotesOpen, Places, LobbiesApart
<1>5. LeftBy(s, l) => lobby'[l].intermission.eligible = lobby[l].intermission.eligible \ {session[s].player_id}
  <2>1. PICK lob, c : lob = lobby[l] /\ c = session[s] /\ LobbyOK(lob) /\ lob.intermission \in IntermissionStates
    BY <1>2 DEF LobbyOK
  <2>2. Depart(lob, c).intermission = RemoveVoter(lob.intermission, c.player_id)
    <3>1. LobbyOK(lob)
      BY <2>1
    <3> QED BY <3>1, DepartShape
  <2>3. RemoveVoter(lob.intermission, c.player_id).eligible = lob.intermission.eligible \ {c.player_id}
    BY <1>4, <2>1, RemoveVoterShape
  <2> QED BY <2>1, <2>2, <2>3 DEF LeftBy
<1>6. ~LeftBy(s, l) => lobby'[l].intermission.eligible = lobby[l].intermission.eligible
  BY <1>2, <1>4 DEF LobbyMove, CreatedBy, JoinedBy, FailedBy, EnteredBy, VotedBy
<1>7. PICK t \in Sessions : Voter(session[t], lobby[l].lobby_id, id)
  BY <1>1, <1>4, <1>5, <1>6, VotersAre
<1>8. CASE t # s
  BY <1>1, <1>4, <1>7, <1>8
<1>9. CASE t = s
  <2>1. ~LeftBy(s, l)
    BY <1>5, <1>7, <1>9 DEF Voter
  <2>2. l \in Find(session[s].lobby_id)
    BY <1>4, <1>7, <1>9 DEF Find, Voter
  <2>3. ~Disconnect(s) /\ ~HandleLobbyLeave(s)
    BY <2>1, <2>2 DEF LeftBy, Disconnect, HandleLobbyLeave
  <2>4. session[s].lobby_id # 0
    BY <1>4, <1>7, <1>9 DEF Voter
  <2>5. Stayed(session[s], session'[s])
    BY <1>0, <2>3, <2>4 DEF Moved, Sat
  <2> QED BY <1>4, <1>7, <1>9, <2>5 DEF Stayed, Voter
<1> QED BY <1>8, <1>9

(* The electorate of a new vote is in the match; the voters of one under   *)
(* way are left alone by the ticks.                                        *)
LEMMA VotersTick ==
  ASSUME Places, VotersArePresent, NEW m \in Slots, Tick(m)
  PROVE  VotersArePresent'
<1>0. TypeOK /\ TickEffect(m) /\ TickMove(m)
  BY TickEffects, TickMoves DEF Places
<1> SUFFICES ASSUME NEW l \in Slots, lobby'[l].active, lobby'[l].phase = "results",
                    NEW id \in lobby'[l].intermission.eligible
             PROVE  \E t \in Sessions : Voter(session'[t], lobby'[l].lobby_id, id)
  BY DEF VotersArePresent, Voter, Here
<1>1. up /\ lobby'[l].lobby_id = lobby[l].lobby_id /\ lobby[l].active /\ lobby[m].active
  BY <1>0 DEF TickEffect
<1>2. CASE l # m
  <2>1. lobby'[l] = lobby[l]
    BY <1>0, <1>2 DEF TickEffect
  <2>2. PICK t \in Sessions : Voter(session[t], lobby[l].lobby_id, id)
    BY <1>1, <2>1, VotersAre
  <2>3. lobby[l].lobby_id # lobby[m].lobby_id
    BY <1>1, <1>2 DEF Places, LobbiesApart
  <2>4. session'[t] = session[t]
    BY <1>0, <2>2, <2>3 DEF TickEffect, Voter, Here
  <2> QED BY <1>1, <2>2, <2>4
<1>3. CASE l = m /\ (Idled(m) \/ Ran(m))
  <2>1. session' = session /\ lobby'[l].intermission = lobby[l].intermission /\ lobby[l].phase = "results"
    BY <1>3 DEF Idled, Ran, Alike, Lived, Kept
  <2> QED BY <1>1, <2>1, VotersAre
<1>4. CASE l = m /\ EndedBy(m)
  <2>1. PICK lob, number : /\ lob = lobby[l] /\ number = lobby[l].next_round_id + 1 /\ number \in Nat
                           /\ lobby'[l].intermission = Begin(Electorate(lob), number) /\ session' = session
    BY <1>0, <1>4 DEF EndedBy, TypeOK, LobbyOK
  <2>2. id \in Electorate(lob)
    BY <1>0, <2>1, BeginShape, ElectorateShape DEF TypeOK
  <2>3. PICK t \in Sessions : /\ Here(t, lob) /\ session[t].player_id = id
                              /\ session[t].entered_match /\ ~session[t].spectating
    BY <1>0, <2>2, ElectorateShape DEF TypeOK
  <2> QED BY <1>1, <2>1, <2>3 DEF Voter, Here
<1>5. CASE l = m /\ ResolvedBy(m)
  BY <1>5 DEF ResolvedBy
<1> QED BY <1>0, <1>2, <1>3, <1>4, <1>5 DEF TickMove

(* No packet closes a vote or gives a spectator a colony.                  *)
LEMMA VotesOpenEvent ==
  ASSUME Places, VotesOpen, NEW s \in Sessions, Event(s)
  PROVE  VotesOpen'
<1>0. TypeOK /\ TypeOK' /\ EventEffect(s) /\ Moved(s, session[s], session'[s])
  BY EventEffects, SessionMoves, TypeEvent DEF Places, SessionsSeated
<1> SUFFICES ASSUME NEW l \in Slots, lobby'[l].active
             PROVE  /\ lobby'[l].phase = "results" => ~lobby'[l].intermission.resolved
                    /\ \A t \in Sessions : session'[t].spectating /\ session'[t].lobby_id = lobby'[l].lobby_id =>
                         session'[t].player_id \notin lobby'[l].colonies
  BY DEF VotesOpen
<1>1. LobbyMove(s, l) /\ LobbyOK(lobby[l]) /\ LobbyOK(lobby'[l])
  BY <1>0, LobbyMoves DEF TypeOK
<1>2. CASE CreatedBy(s, l)
  BY <1>2 DEF CreatedBy
<1>3. CASE ~CreatedBy(s, l)
  <2>1. Kept(lobby[l], lobby'[l])
    BY <1>1, <1>3 DEF LobbyMove, Kept
  <2>2. lobby[l].active /\ lobby'[l].lobby_id = lobby[l].lobby_id /\ lobby'[l].phase = lobby[l].phase
    BY <2>1 DEF Kept
  <2>3. lobby'[l].intermission.resolved = lobby[l].intermission.resolved
    <3>1. CASE LeftBy(s, l)
      <4>1. PICK lob, c : lob = lobby[l] /\ c = session[s] /\ lobby'[l] = Depart(lob, c)
        BY <3>1 DEF LeftBy
      <4>2. LobbyOK(lob) /\ lob.intermission \in IntermissionStates
        BY <1>1, <4>1 DEF LobbyOK
      <4>3. Depart(lob, c).intermission = RemoveVoter(lob.intermission, c.player_id)
        <5>1. LobbyOK(lob)
          BY <4>2
        <5> QED BY <5>1, DepartShape
      <4>4. RemoveVoter(lob.intermission, c.player_id).resolved = lob.intermission.resolved
        BY <4>2, RemoveVoterShape
      <4> QED BY <4>1, <4>3, <4>4
    <3>2. CASE ~LeftBy(s, l)
      BY <1>1, <1>3, <3>2 DEF LobbyMove, JoinedBy, FailedBy, EnteredBy, VotedBy
    <3> QED BY <3>1, <3>2
  <2>4. ASSUME NEW t \in Sessions, session'[t].spectating, session'[t].lobby_id = lobby'[l].lobby_id
        PROVE  session'[t].player_id \notin lobby'[l].colonies
    <3>1. lobby'[l].colonies \subseteq lobby[l].colonies \cup {next_player_id}
      BY <1>0 DEF EventEffect
    <3>2. CASE session'[t].player_id = session[t].player_id /\ session'[t].lobby_id = session[t].lobby_id /\ session[t].spectating
      <4>1. session[t].player_id \notin lobby[l].colonies
        BY <2>2, <2>4, <3>2 DEF VotesOpen
      <4>2. session[t].player_id # next_player_id
        BY <1>0 DEF Places, SessionsSeated, Seated, TypeOK
      <4> QED BY <3>1, <3>2, <4>1, <4>2
    <3>3. CASE session'[t].player_id = 0
      BY <1>1, <3>3, Numbers DEF LobbyOK
    <3>4. t # s => session'[t] = session[t]
      BY <1>0 DEF EventEffect
    <3>5. Seated(session[s])
      BY DEF Places, SessionsSeated
    <3>6. t = s => \/ session'[t].player_id = 0
                   \/ /\ session'[t].player_id = session[t].player_id /\ session'[t].lobby_id = session[t].lobby_id
                      /\ session[t].spectating
      BY <1>0, <2>4, <3>5 DEF Moved, Left, Sat, Stayed, Seated
    <3> QED BY <2>4, <3>2, <3>3, <3>4, <3>6
  <2> QED BY <2>2, <2>3, <2>4 DEF VotesOpen
<1> QED BY <1>2, <1>3

(* A lobby that goes to watch takes the colonies of its players out of the *)
(* world; no other step makes a spectator.                                 *)
LEMMA VotesOpenTick ==
  ASSUME Places, VotesOpen, NEW m \in Slots, Tick(m)
  PROVE  VotesOpen'
<1>0. TypeOK /\ TickEffect(m) /\ TickMove(m)
  BY TickEffects, TickMoves DEF Places
<1> SUFFICES ASSUME NEW l \in Slots, lobby'[l].active
             PROVE  /\ lobby'[l].phase = "results" => ~lobby'[l].intermission.resolved
                    /\ \A t \in Sessions : session'[t].spectating /\ session'[t].lobby_id = lobby'[l].lobby_id =>
                         session'[t].player_id \notin lobby'[l].colonies
  BY DEF VotesOpen
<1>1. lobby[l].active /\ lobby'[l].lobby_id = lobby[l].lobby_id /\ lobby'[l].colonies \subseteq lobby[l].colonies
  BY <1>0 DEF TickEffect
<1>2. ASSUME lobby'[l].phase = "results"
      PROVE  ~lobby'[l].intermission.resolved
  <2>1. CASE l # m
    BY <1>0, <1>1, <1>2, <2>1 DEF TickEffect, VotesOpen
  <2>2. CASE l = m /\ (Idled(m) \/ Ran(m))
    BY <1>1, <1>2, <2>2 DEF Idled, Ran, Alike, Lived, Kept, VotesOpen
  <2>3. CASE l = m /\ EndedBy(m)
    <3>1. PICK lob, number : /\ lob = lobby[l] /\ number = lobby[l].next_round_id + 1 /\ number \in Nat
                             /\ lobby'[l].intermission = Begin(Electorate(lob), number)
      BY <1>0, <2>3 DEF EndedBy, TypeOK, LobbyOK
    <3> QED BY <1>0, <3>1, BeginShape, ElectorateShape DEF TypeOK
  <2>4. CASE l = m /\ ResolvedBy(m)
    BY <1>2, <2>4 DEF ResolvedBy
  <2> QED BY <1>0, <2>1, <2>2, <2>3, <2>4 DEF TickMove
<1>3. ASSUME NEW t \in Sessions, session'[t].spectating, session'[t].lobby_id = lobby'[l].lobby_id
      PROVE  session'[t].player_id \notin lobby'[l].colonies
  <2>1. session'[t].player_id = session[t].player_id /\ session'[t].lobby_id = session[t].lobby_id
    BY <1>0 DEF TickEffect, Unseated
  <2>2. CASE session[t].spectating
    BY <1>1, <1>3, <2>1, <2>2 DEF VotesOpen
  <2>3. CASE ~session[t].spectating
    <3>1. session' # session
      BY <1>3, <2>3
    <3>2. PICK lob, st, participants :
            /\ Kept(lobby[m], lob) /\ lobby'[m].colonies = lobby[m].colonies \ Retired(lob, st)
            /\ session' = [s \in Sessions |-> IF Here(s, lob) THEN AfterVote(session[s], st) ELSE session[s]]
            /\ participants = lobby'[m].participants
      BY <1>0, <3>1 DEF TickMove, Idled, Ran, EndedBy, ResolvedBy
    <3>3. Here(t, lob) /\ AfterVote(session[t], st).spectating
      BY <1>3, <2>3, <3>2
    <3>4. PICK c : c = session[t] /\ c \in SessionRecords
      BY <1>0 DEF TypeOK
    <3>5. st.decision = "spectate"
      BY <2>3, <3>3, <3>4, AfterVoteShape
    <3>6. session[t].player_id \in Retired(lob, st)
      BY <2>3, <3>3, <3>5 DEF Retired, RealPlayers
    <3>7. l = m
      BY <1>0, <1>1, <1>3, <2>1, <3>2, <3>3 DEF Here, Kept, TickEffect, Places, LobbiesApart
    <3> QED BY <2>1, <3>2, <3>6, <3>7
  <2> QED BY <2>2, <2>3
<1> QED BY <1>2, <1>3

Voting == Places /\ VotesOpen /\ VotersArePresent

(* Every step keeps the votes.                                             *)
LEMMA VotingStep == Voting /\ [Next]_vars => Voting'
<1> SUFFICES ASSUME Voting, [Next]_vars PROVE VotesOpen' /\ VotersArePresent'
  BY PlacesStep DEF Voting
<1>1. CASE UNCHANGED vars
  BY <1>1 DEF vars, Voting, VotesOpen, VotersArePresent, Here
<1>2. ASSUME NEW s \in Sessions, Event(s)
      PROVE  VotesOpen' /\ VotersArePresent'
  BY <1>2, VotesOpenEvent, VotersEvent DEF Voting
<1>3. ASSUME NEW l \in Slots, Tick(l)
      PROVE  VotesOpen' /\ VotersArePresent'
  BY <1>3, VotesOpenTick, VotersTick DEF Voting
<1>4. ASSUME NEW oks, Shutdown(oks)
      PROVE  VotesOpen' /\ VotersArePresent'
  <2>1. lobby' = lobby /\ up' = FALSE /\ TypeOK
    BY <1>4 DEF Shutdown, Voting, Places
  <2>2. \A s \in Sessions : session'[s].spectating =>
          /\ session[s].spectating /\ session'[s].lobby_id = session[s].lobby_id
          /\ session'[s].player_id = session[s].player_id
    BY <1>4, <2>1 DEF Shutdown, NoSession, TypeOK, SessionRecords
  <2> QED BY <2>1, <2>2 DEF Voting, VotesOpen, VotersArePresent
<1> QED BY <1>1, <1>2, <1>3, <1>4 DEF Next

(* While the server runs a vote has no result yet, nobody watches over a   *)
(* colony, and whoever is still to vote is in the match.                   *)
THEOREM VotingHolds == Spec => []Voting
<1>1. Init => Voting
  BY TypeInit, PlacesInit, VotesInit DEF Voting, Places
<1> QED BY <1>1, VotingStep, PTL DEF Spec

(* VotersArePresent: nobody waits for the vote of a session that is not    *)
(* there to cast it (DisconnectSession, HandleLobbyLeave,                  *)
(* BeginIntermission).                                                     *)
THEOREM VotersHere == Spec => []VotersArePresent
<1>1. Voting => VotersArePresent
  BY DEF Voting
<1> QED BY <1>1, VotingHolds, PTL

(* Who may still vote does not watch, under whatever id it is known.       *)
LEMMA VotersPlay ==
  ASSUME Voting, up, NEW l \in Slots, lobby[l].active, lobby[l].phase = "results",
         NEW s \in Sessions, session[s].player_id \in lobby[l].intermission.eligible
  PROVE  ~session[s].spectating
<1>1. PICK t \in Sessions : session[t].player_id = session[s].player_id /\ ~session[t].spectating
  BY DEF Voting, VotersArePresent
<1>2. session[s].player_id # 0
  BY Numbers DEF Voting, Places, TypeOK, LobbyOK, IntermissionStates
<1> QED BY <1>1, <1>2 DEF Voting, Places, SessionsSeated

(* What the vote of a lobby decided, for each session that is there.       *)
Continues(l, s) ==
  /\ session'[s].entered_match <=>
       /\ lobby'[l].intermission.decision = "play_again"
       /\ session[s].player_id \in lobby[l].intermission.eligible
  /\ ~session'[s].is_ready
  /\ session'[s].spectating => session[s].player_id \notin lobby'[l].colonies

(* Where a match resumes, whoever stays in its world voted to continue.    *)
LEMMA VoteDecides ==
  ASSUME Voting, Voting', Next, NEW l \in Slots,
         lobby[l].active, lobby[l].phase = "results", lobby'[l].phase = "running",
         NEW s \in Sessions, Here(s, lobby[l])
  PROVE  Continues(l, s)
<1>0. TypeOK
  BY DEF Voting, Places
<1>1. \A t \in Sessions : ~Event(t)
  <2> SUFFICES ASSUME NEW t \in Sessions, Event(t) PROVE FALSE
    OBVIOUS
  <2> QED BY <1>0, LobbyMoves DEF LobbyMove, CreatedBy, Kept
<1>2. \A oks : ~Shutdown(oks)
  BY DEF Shutdown
<1>3. PICK m \in Slots : Tick(m)
  BY <1>1, <1>2 DEF Next
<1>4. TickEffect(m) /\ TickMove(m)
  BY <1>0, <1>3, TickEffects, TickMoves
<1>5. m = l /\ ResolvedBy(l) /\ up
  BY <1>4 DEF TickEffect, TickMove, Idled, Ran, EndedBy, Alike, Lived, Kept
<1>6. PICK lob, st, c :
        /\ Kept(lobby[l], lob) /\ st = Resolve(lobby[l].intermission) /\ lobby'[l].intermission = st
        /\ session' = [t \in Sessions |-> IF Here(t, lob) THEN AfterVote(session[t], st) ELSE session[t]]
        /\ c = session[s]
  BY <1>5 DEF ResolvedBy
<1>7. c \in SessionRecords /\ session'[s] = AfterVote(c, st)
  BY <1>0, <1>6 DEF TypeOK, Here, Kept
<1>8. st.resolved /\ st.eligible = lobby[l].intermission.eligible
  BY <1>0, <1>6, ResolveShape DEF Voting, VotesOpen, TypeOK, LobbyOK
<1>9. /\ AfterVote(c, st).entered_match <=> ~c.spectating /\ ContinuesMatch(st, c.player_id)
      /\ ~AfterVote(c, st).is_ready
      /\ AfterVote(c, st).player_id = c.player_id /\ AfterVote(c, st).lobby_id = c.lobby_id
  BY <1>7, AfterVoteShape
<1>10. c.player_id \in lobby[l].intermission.eligible => ~c.spectating
  BY <1>5, <1>6, VotersPlay
<1>11. session'[s].entered_match <=> /\ lobby'[l].intermission.decision = "play_again"
                                     /\ session[s].player_id \in lobby[l].intermission.eligible
  BY <1>6, <1>7, <1>8, <1>9, <1>10 DEF ContinuesMatch
<1>12. session'[s].spectating => session[s].player_id \notin lobby'[l].colonies
  <2>1. session'[s].lobby_id = lobby'[l].lobby_id /\ lobby'[l].active
    BY <1>5, <1>6, <1>7, <1>9 DEF Here, ResolvedBy
  <2> QED BY <1>6, <1>7, <1>9, <2>1 DEF Voting, VotesOpen
<1> QED BY <1>7, <1>9, <1>11, <1>12 DEF Continues

(* OnlyVotersContinue: after a vote the match holds the frozen voters that *)
(* are still there if it plays again, and nobody otherwise                 *)
(* (ResolveIntermission).                                                  *)
THEOREM VotersContinue == Spec => OnlyVotersContinue
<1>1. Voting /\ Voting' /\ [Next]_vars =>
        [ \A l \in Slots :
            lobby[l].active /\ lobby[l].phase = "results" /\ lobby'[l].phase = "running" =>
              \A s \in Sessions : Here(s, lobby[l]) => Continues(l, s) ]_vars
  BY VoteDecides
<1> QED BY <1>1, VotingHolds, PTL DEF Spec, OnlyVotersContinue, Continues

-----------------------------------------------------------------------------
(* ---- The rows of the rounds ------------------------------------------- *)

(* A vote has the number of the match before it.                           *)
RoundNumbered ==
  \A l \in Slots : lobby[l].active /\ lobby[l].phase = "results" =>
    lobby[l].intermission.round_id = lobby[l].next_round_id

(* The row, if there is one, of the round that a lobby plays.              *)
RowFollows(lob, table) ==
  lob.round \in DOMAIN table =>
    /\ table[lob.round].lobby_id = lob.lobby_id
    /\ table[lob.round].round_id = IF lob.phase = "results" THEN lob.next_round_id ELSE lob.next_round_id + 1
    /\ up /\ lob.phase = "running" => table[lob.round].status = "active"

Numbered == RoundNumbered /\ \A l \in Slots : lobby[l].active => RowFollows(lobby[l], rows)

(* What the numbers of the lobbies say of the rows.                        *)
LEMMA NumberedRows ==
  ASSUME Places, Numbered
  PROVE  RowsFollowRounds
BY DEF Places, LobbiesApart, Numbered, RoundNumbered, RowFollows, RowsFollowRounds

(* main inserts the first row of each default lobby, or fails to.          *)
LEMMA NumberedInit == Init => Numbered
<1> SUFFICES ASSUME Init, NEW l \in Slots
             PROVE  lobby[l].phase = "running" /\ (lobby[l].active => RowFollows(lobby[l], rows))
  BY DEF Numbered, RoundNumbered
<1>1. lobby[l].phase = "running"
  BY InitLobbies
<1>2. ASSUME lobby[l].active
      PROVE  RowFollows(lobby[l], rows)
  <2>1. lobby[l].round = l /\ lobby[l].next_round_id = 0 /\ lobby[l].lobby_id = l
    BY <1>2, InitLobbies
  <2>2. l \in DOMAIN rows => rows[l].lobby_id = l /\ rows[l].round_id = 1 /\ rows[l].status = "active"
    BY DEF Init
  <2> QED BY <1>1, <2>1, <2>2 DEF RowFollows
<1> QED BY <1>1, <1>2

(* Only the creation of a lobby writes a row outside a tick.               *)
LEMMA NumberedEvent ==
  ASSUME Places, Numbered, NEW s \in Sessions, Event(s)
  PROVE  Numbered'
<1>0. TypeOK /\ EventEffect(s)
  BY EventEffects DEF Places
<1>1. up' = up
  BY <1>0 DEF EventEffect
<1> SUFFICES ASSUME NEW l \in Slots, lobby'[l].active
             PROVE  /\ lobby'[l].phase = "results" => lobby'[l].intermission.round_id = lobby'[l].next_round_id
                    /\ RowFollows(lobby[l], rows)'
  BY DEF Numbered, RoundNumbered
<1>2. LobbyMove(s, l) /\ LobbyOK(lobby[l])
  BY <1>0, LobbyMoves DEF TypeOK
<1>3. \/ rows' = rows
      \/ \E new : /\ Begun(rows, rounds + 1, new, rows') /\ new.lobby_id = next_lobby_id /\ new.next_round_id = 0
  <2>1. CASE Settled
    BY <2>1 DEF Settled
  <2>2. ASSUME NEW ok \in DatabaseOutcomes, HandleLobbyCreate(s, ok), rows' # rows
        PROVE  \E new : Begun(rows, rounds + 1, new, rows') /\ new.lobby_id = next_lobby_id /\ new.next_round_id = 0
    <3>1. PICK id, uuid, created, table :
            /\ id = next_lobby_id /\ uuid = rounds + 1 /\ created = Fresh(id, uuid) /\ table = rows
            /\ rows' = BeginRow(table, uuid, created, ok)
      BY <2>2, CreateShape
    <3>2. id \in Nat /\ uuid \in Nat
      BY <1>0, <3>1 DEF TypeOK
    <3>3. LobbyOK(created) /\ created.lobby_id = id /\ created.next_round_id = 0
      <4>1. PICK new : new = Fresh(id, uuid)
        OBVIOUS
      <4>2. LobbyOK(new) /\ new.lobby_id = id /\ new.next_round_id = 0
        BY ONLY <3>2, <4>1, FreshShape
      <4> QED BY ONLY <3>1, <4>1, <4>2
    <3>4. rows' = table \/ Begun(table, uuid, created, rows')
      BY <3>1, <3>3, BeginRowShape
    <3> QED BY <2>2, <3>1, <3>3, <3>4
  <2> QED BY <1>0, <2>1, <2>2, EventEffects
<1>4. \A u \in DOMAIN rows' : u # rounds + 1 => u \in DOMAIN rows /\ rows'[u] = rows[u]
  BY <1>3 DEF Begun
<1>5. CASE CreatedBy(s, l)
  <2>1. rounds + 1 \notin DOMAIN rows
    BY <1>0 DEF Places, LobbiesApart, TypeOK
  <2>2. rounds + 1 \in DOMAIN rows' =>
          /\ rows'[rounds + 1].lobby_id = next_lobby_id /\ rows'[rounds + 1].round_id = 1
          /\ rows'[rounds + 1].status = "active"
    BY <1>3, <2>1 DEF Begun, BegunRow
  <2> QED BY <1>5, <2>2 DEF CreatedBy, RowFollows
<1>6. CASE ~CreatedBy(s, l)
  <2>1. /\ lobby[l].active /\ lobby'[l].lobby_id = lobby[l].lobby_id /\ lobby'[l].phase = lobby[l].phase
        /\ lobby'[l].round = lobby[l].round /\ lobby'[l].next_round_id = lobby[l].next_round_id
    BY <1>2, <1>6 DEF LobbyMove, Kept
  <2>2. lobby'[l].intermission.round_id = lobby[l].intermission.round_id
    <3>1. CASE LeftBy(s, l)
      <4>1. PICK lob, c : lob = lobby[l] /\ c = session[s] /\ lobby'[l] = Depart(lob, c)
        BY <3>1 DEF LeftBy
      <4>2. LobbyOK(lob)
        BY <1>2, <4>1
      <4>3. Depart(lob, c).intermission = RemoveVoter(lob.intermission, c.player_id)
        BY <4>2, DepartShape
      <4>4. RemoveVoter(lob.intermission, c.player_id).round_id = lob.intermission.round_id
        BY <4>2, RemoveVoterShape DEF LobbyOK
      <4> QED BY <4>1, <4>3, <4>4
    <3>2. CASE ~LeftBy(s, l)
      BY <1>2, <1>6, <3>2 DEF LobbyMove, JoinedBy, FailedBy, EnteredBy, VotedBy
    <3> QED BY <3>1, <3>2
  <2>3. lobby[l].round # rounds + 1
    BY <1>0, <2>1 DEF Places, LobbiesApart, TypeOK, LobbyOK
  <2> QED BY <1>1, <1>4, <2>1, <2>2, <2>3 DEF Numbered, RoundNumbered, RowFollows
<1> QED BY <1>5, <1>6

(* A match that ends saves the row of its round; the next takes a new one. *)
LEMMA NumberedTick ==
  ASSUME Places, Numbered, NEW m \in Slots, Tick(m)
  PROVE  Numbered'
<1>0. TypeOK /\ TickEffect(m) /\ TickMove(m)
  BY TickEffects, TickMoves DEF Places
<1> SUFFICES ASSUME NEW l \in Slots, lobby'[l].active
             PROVE  /\ lobby'[l].phase = "results" => lobby'[l].intermission.round_id = lobby'[l].next_round_id
                    /\ RowFollows(lobby[l], rows)'
  BY DEF Numbered, RoundNumbered
<1>1. /\ up' = up /\ lobby[l].active /\ lobby'[l].lobby_id = lobby[l].lobby_id /\ lobby[m].active
      /\ (l # m => lobby'[l] = lobby[l])
  BY <1>0 DEF TickEffect
<1>2. /\ RowFollows(lobby[l], rows) /\ LobbyOK(lobby[l])
      /\ lobby[l].phase = "results" => lobby[l].intermission.round_id = lobby[l].next_round_id
      /\ lobby[l].round # rounds + 1 /\ rounds + 1 \notin DOMAIN rows
      /\ (l # m => lobby[l].round # lobby[m].round)
  BY <1>0, <1>1 DEF Numbered, RoundNumbered, Places, LobbiesApart, TypeOK, LobbyOK
<1>3. CASE Idled(m) \/ Ran(m)
  <2>1. /\ rows' = rows /\ lobby'[l].phase = lobby[l].phase /\ lobby'[l].round = lobby[l].round
        /\ lobby'[l].next_round_id = lobby[l].next_round_id /\ lobby'[l].intermission = lobby[l].intermission
    BY <1>1, <1>3 DEF Idled, Ran, Alike, Lived, Kept
  <2> QED BY <1>1, <1>2, <2>1 DEF RowFollows
<1>4. CASE EndedBy(m)
  <2>1. PICK lob, final :
          /\ Kept(lobby[m], lob)
          /\ rows' = rows \/ \E status \in {"completed", "aborted"} : Saved(rows, lob, final, status, rows')
    BY <1>4 DEF EndedBy, Lived
  <2>2. lob.round = lobby[m].round /\ lob.lobby_id = lobby[m].lobby_id /\ lob.next_round_id = lobby[m].next_round_id
    BY <2>1 DEF Kept
  <2>3. \A u \in DOMAIN rows' : u # lobby[m].round => u \in DOMAIN rows /\ rows'[u] = rows[u]
    BY <2>1, <2>2 DEF Saved
  <2>4. CASE l # m
    BY <1>1, <1>2, <2>3, <2>4 DEF RowFollows
  <2>5. CASE l = m
    <3>1. PICK before, number : /\ before = lobby[l] /\ number = before.next_round_id + 1 /\ number \in Nat
                                /\ lobby'[l].phase = "results" /\ lobby'[l].next_round_id = number
                                /\ lobby'[l].round = before.round /\ before.phase = "running"
                                /\ lobby'[l].intermission = Begin(Electorate(before), number)
      BY <1>2, <1>4, <2>5 DEF EndedBy, LobbyOK
    <3>2. lobby'[l].intermission.round_id = number
      BY <1>0, <3>1, BeginShape, ElectorateShape DEF TypeOK
    <3>3. before.round \in DOMAIN rows =>
            rows[before.round].lobby_id = before.lobby_id /\ rows[before.round].round_id = number
      BY <1>2, <3>1 DEF RowFollows
    <3>4. before.round \in DOMAIN rows' =>
            rows'[before.round].lobby_id = before.lobby_id /\ rows'[before.round].round_id = number
      BY <2>1, <2>2, <2>5, <3>1, <3>3 DEF Saved, SavedRow
    <3> QED BY <1>1, <3>1, <3>2, <3>4 DEF RowFollows
  <2> QED BY <2>4, <2>5
<1>5. CASE ResolvedBy(m)
  <2>1. \/ rows' = rows
        \/ \E new : /\ new.lobby_id = lobby[m].lobby_id /\ new.next_round_id = lobby[m].next_round_id
                    /\ Begun(rows, rounds + 1, new, rows')
    BY <1>5 DEF ResolvedBy
  <2>2. \A u \in DOMAIN rows' : u # rounds + 1 => u \in DOMAIN rows /\ rows'[u] = rows[u]
    BY <2>1 DEF Begun
  <2>3. rounds + 1 \in DOMAIN rows' =>
          /\ rows'[rounds + 1].lobby_id = lobby[m].lobby_id
          /\ rows'[rounds + 1].round_id = lobby[m].next_round_id + 1 /\ rows'[rounds + 1].status = "active"
    BY <1>2, <2>1 DEF Begun, BegunRow
  <2>4. CASE l # m
    BY <1>1, <1>2, <2>2, <2>4 DEF RowFollows
  <2>5. CASE l = m
    BY <1>1, <1>5, <2>3, <2>5 DEF ResolvedBy, RowFollows
  <2> QED BY <2>4, <2>5
<1> QED BY <1>0, <1>3, <1>4, <1>5 DEF TickMove

(* A round that the end of the main loop interrupts gets the row it would  *)
(* have got at its own end.                                                *)
LEMMA NumberedShutdown ==
  ASSUME Places, Numbered, NEW oks, Shutdown(oks)
  PROVE  Numbered'
<1>1. lobby' = lobby /\ up' = FALSE /\ rows' = SavedAtShutdown(oks) /\ TypeOK /\ up
  BY DEF Shutdown, Places
<1> SUFFICES ASSUME NEW l \in Slots, lobby[l].active
             PROVE  RowFollows(lobby[l], rows)'
  BY <1>1 DEF Numbered, RoundNumbered
<1>2. /\ RowFollows(lobby[l], rows)
      /\ \A k \in Slots : lobby[k].active /\ lobby[k].round = lobby[l].round => k = l
  BY DEF Numbered, Places, LobbiesApart
<1>3. \A u \in DOMAIN rows' :
        \/ u \in DOMAIN rows /\ rows'[u] = rows[u]
        \/ \E k \in DueAtShutdown, status \in {"completed", "aborted"} :
             /\ lobby[k].round = u
             /\ rows'[u] = SavedRow(rows, lobby[k], CaptureRemaining(lobby[k]), status)
  BY <1>1, SavedAtShutdownShape DEF TypeOK
<1>4. lobby[l].round \in DOMAIN rows' =>
        \/ lobby[l].round \in DOMAIN rows /\ rows'[lobby[l].round] = rows[lobby[l].round]
        \/ \E status : /\ lobby[l].phase = "running"
                       /\ rows'[lobby[l].round] = SavedRow(rows, lobby[l], CaptureRemaining(lobby[l]), status)
  BY <1>2, <1>3 DEF DueAtShutdown
<1>5. PICK lob, table, new : lob = lobby[l] /\ table = rows /\ new = rows'
  OBVIOUS
<1>6. lob.round \in DOMAIN new =>
        /\ new[lob.round].lobby_id = lob.lobby_id
        /\ new[lob.round].round_id = IF lob.phase = "results" THEN lob.next_round_id ELSE lob.next_round_id + 1
  <2> SUFFICES ASSUME lob.round \in DOMAIN new
               PROVE  /\ new[lob.round].lobby_id = lob.lobby_id
                      /\ new[lob.round].round_id = IF lob.phase = "results" THEN lob.next_round_id
                                                   ELSE lob.next_round_id + 1
    OBVIOUS
  <2>1. RowFollows(lob, table)
    BY <1>2, <1>5
  <2>2. PICK participants : participants = CaptureRemaining(lob)
    OBVIOUS
  <2>3. \/ lob.round \in DOMAIN table /\ new[lob.round] = table[lob.round]
        \/ lob.phase = "running" /\ \E status : new[lob.round] = SavedRow(table, lob, participants, status)
    BY <1>4, <1>5, <2>2
  <2>4. CASE lob.round \in DOMAIN table /\ new[lob.round] = table[lob.round]
    BY <2>1, <2>4 DEF RowFollows
  <2>5. ASSUME lob.phase = "running", NEW status, new[lob.round] = SavedRow(table, lob, participants, status)
        PROVE  new[lob.round].lobby_id = lob.lobby_id /\ new[lob.round].round_id = lob.next_round_id + 1
    <3>1. PICK row : row = new[lob.round] /\ row = SavedRow(table, lob, participants, status)
      BY <2>5
    <3>2. lob.round \in DOMAIN table => table[lob.round].round_id = lob.next_round_id + 1
      BY <2>1, <2>5 DEF RowFollows
    <3>3. row.lobby_id = lob.lobby_id /\ row.round_id = lob.next_round_id + 1
      BY <3>1, <3>2 DEF SavedRow
    <3> QED BY <3>1, <3>3
  <2> QED BY <2>3, <2>4, <2>5
<1> QED BY <1>1, <1>5, <1>6 DEF RowFollows

(* RowsFollowRounds: the row a lobby writes is the row of the round it     *)
(* plays, numbered as its vote, and no other lobby's                       *)
(* (BeginLobbyPersistenceRound, PersistLobbyRound).                        *)
THEOREM RowsFollow == Spec => []RowsFollowRounds
<1>1. Places /\ Numbered /\ [Next]_vars => Numbered'
  <2>1. ASSUME Numbered, UNCHANGED vars PROVE Numbered'
    BY <2>1 DEF vars, Numbered, RoundNumbered, RowFollows
  <2> QED BY <2>1, NumberedEvent, NumberedTick, NumberedShutdown DEF Next
<1>2. Places /\ Numbered => RowsFollowRounds
  BY NumberedRows
<1> QED BY <1>1, <1>2, PlacesHold, NumberedInit, PTL DEF Spec

-----------------------------------------------------------------------------
(* ---- The statistics of the rounds -------------------------------------- *)

CountedIds(p) == {p.counted[i] : i \in DOMAIN p.counted}

CountsOnce(p) == \A i, j \in DOMAIN p.counted : p.counted[i] = p.counted[j] => i = j

(* What a saved participant should be.                                     *)
Total(p) == CountsOnce(p) /\ p.lives \subseteq CountedIds(p)

(* The property of the rows, entry by entry.                               *)
LEMMA TotalRows ==
  StatsCountedOnce <=>
    (Orderly => \A u \in DOMAIN rows : \A a \in DOMAIN rows[u].participants : Total(rows[u].participants[a]))
BY DEF StatsCountedOnce, Total, CountsOnce, CountedIds

(* An id that was given out and that no session has any more.              *)
Gone(id) == id < next_player_id /\ \A s \in Sessions : session[s].player_id # id

(* The session that plays in the lobby for a participant.                  *)
Plays(c, a, id, lobby_id) ==
  c.account = a /\ c.player_id = id /\ c.lobby_id = lobby_id /\ c.entered_match

(* The entry of an account a in a round under way: the ids counted for it  *)
(* are gone; what is still to be counted is the life it leads, for which   *)
(* the world holds statistics.                                             *)
Tracked(lob, a) ==
  LET p == lob.participants[a]
  IN /\ CountsOnce(p) /\ \A id \in CountedIds(p) : Gone(id)
     /\ p.disconnected => p.lives \subseteq CountedIds(p) /\ Gone(p.runtime) /\ p.runtime \notin lob.colonies
     /\ ~p.disconnected => /\ p.lives \subseteq CountedIds(p) \cup {p.runtime}
                           /\ p.runtime \in p.lives => p.runtime \in lob.stats
                           /\ \E s \in Sessions : Plays(session[s], a, p.runtime, lob.lobby_id)

StatsTracked ==
  /\ \A l \in Slots : lobby[l].stats \subseteq lobby[l].colonies
  /\ up /\ Orderly => \A l \in Slots : lobby[l].active /\ lobby[l].phase = "running" =>
       \A a \in DOMAIN lobby[l].participants : Tracked(lobby[l], a)
  /\ StatsCountedOnce

(* A life that is counted once more.                                       *)
LEMMA CountedOnceMore ==
  ASSUME NEW p \in ParticipantRecords, NEW q \in ParticipantRecords, CountsOnce(p),
         NEW id \in PlayerIds, id \notin CountedIds(p), q.counted = Append(p.counted, id)
  PROVE  CountsOnce(q) /\ CountedIds(q) = CountedIds(p) \cup {id}
<1>1. PICK c, n : c = p.counted /\ c \in Seq(PlayerIds) /\ n = Len(c) /\ n \in Nat /\ DOMAIN c = 1..n
  BY DEF ParticipantRecords
<1>2. PICK d : d = q.counted /\ d = Append(c, id)
  BY <1>1
<1>3. DOMAIN d = 1..(n + 1) /\ d[n + 1] = id /\ \A i \in 1..n : d[i] = c[i]
  BY <1>1, <1>2
<1>4. \A i \in 1..n : c[i] # id
  BY <1>1 DEF CountedIds
<1>5. \A i, j \in 1..n : c[i] = c[j] => i = j
  BY <1>1 DEF CountsOnce
<1>6. \A i \in 1..(n + 1) : i = n + 1 \/ i \in 1..n
  BY <1>1
<1>7. CountsOnce(q)
  <2>1. \A i, j \in 1..(n + 1) : d[i] = d[j] => i = j
    BY <1>3, <1>4, <1>5, <1>6
  <2> QED BY ONLY <1>2, <1>3, <2>1 DEF CountsOnce
<1>8. CountedIds(q) = {d[i] : i \in 1..(n + 1)} /\ CountedIds(p) = {c[i] : i \in 1..n}
  BY <1>1, <1>2, <1>3 DEF CountedIds
<1>9. n + 1 \in 1..(n + 1) /\ 1..n \subseteq 1..(n + 1)
  BY <1>1
<1> QED BY <1>3, <1>6, <1>7, <1>8, <1>9

(* The capture of a life that the world has statistics of completes the    *)
(* entry (CapturePersistenceParticipant).                                  *)
LEMMA CaptureCompletes ==
  ASSUME NEW p \in ParticipantRecords, NEW q, NEW stats, Captured(p, q, stats), CountsOnce(p),
         p.runtime \notin CountedIds(p), p.lives \subseteq CountedIds(p) \cup {p.runtime},
         p.runtime \in p.lives => p.runtime \in stats
  PROVE  Total(q) /\ CountedIds(q) \subseteq CountedIds(p) \cup {p.runtime}
<1>1. p.runtime \in PlayerIds /\ q \in ParticipantRecords /\ q.lives = p.lives
  BY DEF ParticipantRecords, Captured
<1>2. CASE p.runtime \in stats
  <2>1. q.counted = Append(p.counted, p.runtime)
    BY <1>2 DEF Captured
  <2>2. CountsOnce(q) /\ CountedIds(q) = CountedIds(p) \cup {p.runtime}
    BY <1>1, <2>1, CountedOnceMore
  <2> QED BY <1>1, <2>2 DEF Total
<1>3. CASE p.runtime \notin stats
  <2>1. q.counted = p.counted
    BY <1>3 DEF Captured
  <2>2. CountsOnce(q) /\ CountedIds(q) = CountedIds(p)
    BY <2>1 DEF CountsOnce, CountedIds
  <2> QED BY <1>1, <1>3, <2>2 DEF Total
<1> QED BY <1>2, <1>3

(* A round whose entries are tracked is saved as it should be              *)
(* (PersistLobbyRound).                                                    *)
LEMMA SavedTotals ==
  ASSUME NEW lob, LobbyOK(lob), \A a \in DOMAIN lob.participants : Tracked(lob, a)
  PROVE  \A a \in DOMAIN CaptureRemaining(lob) : Total(CaptureRemaining(lob)[a])
<1> SUFFICES ASSUME NEW a \in DOMAIN CaptureRemaining(lob)
             PROVE  Total(CaptureRemaining(lob)[a])
  OBVIOUS
<1>1. PICK final : final = CaptureRemaining(lob) /\ a \in DOMAIN lob.participants
  BY CaptureRemainingShape
<1>2. PICK p, q : /\ p = lob.participants[a] /\ q = final[a]
                  /\ IF p.disconnected THEN q = p ELSE Captured(p, q, lob.stats)
  BY <1>1, CaptureRemainingShape
<1>3. p \in ParticipantRecords /\ Tracked(lob, a)
  BY <1>1, <1>2 DEF LobbyOK, ParticipantTable
<1>4. CASE p.disconnected
  BY <1>1, <1>2, <1>3, <1>4 DEF Tracked, Total
<1>5. CASE ~p.disconnected
  <2>1. p.runtime \notin CountedIds(p)
    BY <1>2, <1>3, <1>5 DEF Tracked, Plays, Gone
  <2>2. /\ CountsOnce(p) /\ p.lives \subseteq CountedIds(p) \cup {p.runtime}
        /\ p.runtime \in p.lives => p.runtime \in lob.stats
    BY <1>2, <1>3, <1>5 DEF Tracked
  <2>3. Captured(p, q, lob.stats)
    BY <1>2, <1>5
  <2>4. Total(q)
    BY <1>3, <2>1, <2>2, <2>3, CaptureCompletes
  <2> QED BY <1>1, <1>2, <2>4
<1> QED BY <1>4, <1>5

(* A tick of a match tracks the life that it simulates (ShroomWorldStep).  *)
LEMMA LivedTracked ==
  ASSUME NEW lob, LobbyOK(lob), lob.stats \subseteq lob.colonies, NEW new, Lived(lob, new),
         NEW a \in DOMAIN lob.participants, Tracked(lob, a)
  PROVE  Tracked(new, a)
<1>1. PICK p, q : p = lob.participants[a] /\ q = new.participants[a]
  OBVIOUS
<1>2. /\ q.runtime = p.runtime /\ q.disconnected = p.disconnected /\ q.counted = p.counted
      /\ q.lives = p.lives \cup ({p.runtime} \cap lob.colonies)
      /\ new.colonies = lob.colonies /\ new.stats = lob.colonies /\ new.lobby_id = lob.lobby_id
  BY <1>1 DEF Lived, Kept
<1>3. CountsOnce(q) <=> CountsOnce(p)
  BY <1>2 DEF CountsOnce
<1>4. CountedIds(q) = CountedIds(p)
  BY <1>2 DEF CountedIds
<1>5. CountsOnce(p) /\ (\A id \in CountedIds(p) : Gone(id))
  BY <1>1 DEF Tracked
<1>6. CASE p.disconnected
  <2>1. p.lives \subseteq CountedIds(p) /\ Gone(p.runtime) /\ p.runtime \notin lob.colonies
    BY <1>1, <1>6 DEF Tracked
  <2>2. q.lives = p.lives
    BY <1>2, <2>1
  <2> QED BY <1>1, <1>2, <1>3, <1>4, <1>5, <1>6, <2>1, <2>2 DEF Tracked
<1>7. CASE ~p.disconnected
  <2>1. /\ p.lives \subseteq CountedIds(p) \cup {p.runtime}
        /\ p.runtime \in p.lives => p.runtime \in lob.stats
    BY <1>1, <1>7 DEF Tracked
  <2>2. PICK s \in Sessions : Plays(session[s], a, p.runtime, lob.lobby_id)
    BY <1>1, <1>7 DEF Tracked
  <2>3. /\ q.lives \subseteq CountedIds(q) \cup {q.runtime}
        /\ q.runtime \in q.lives => q.runtime \in new.stats
    BY <1>2, <1>4, <2>1
  <2> QED BY <1>1, <1>2, <1>3, <1>4, <1>5, <1>7, <2>2, <2>3 DEF Tracked
<1> QED BY <1>6, <1>7

(* An id that is gone does not come back.                                  *)
LEMMA GoneStays ==
  ASSUME Places, NEW s \in Sessions, Event(s), NEW id \in PlayerIds, Gone(id)
  PROVE  Gone(id)'
<1>1. TypeOK /\ EventEffect(s) /\ Moved(s, session[s], session'[s]) /\ Seated(session[s])
  BY EventEffects, SessionMoves DEF Places, SessionsSeated
<1>2. id < next_player_id' /\ id # next_player_id
  <2>1. next_player_id \in Nat /\ (next_player_id' = next_player_id \/ next_player_id' = next_player_id + 1)
    BY <1>1 DEF TypeOK, EventEffect
  <2>2. id < next_player_id
    BY DEF Gone
  <2>3. id \in Nat
    BY Numbers
  <2> QED BY <2>1, <2>2, <2>3
<1>3. session'[s].player_id # id
  BY <1>1, <1>2, Numbers DEF Moved, Left, Sat, Stayed, Gone
<1>4. \A t \in Sessions : t # s => session'[t].player_id # id
  BY <1>1 DEF EventEffect, Gone
<1> QED BY <1>2, <1>3, <1>4 DEF Gone

(* An entry that nothing happens to, while its session does not leave.     *)
LEMMA StaysTracked ==
  ASSUME Places, Orderly, NEW s \in Sessions, Event(s), NEW l \in Slots, lobby[l].active,
         ~LeftBy(s, l), NEW a \in DOMAIN lobby[l].participants, Tracked(lobby[l], a),
         a \in DOMAIN lobby'[l].participants,
         lobby'[l].participants[a] = lobby[l].participants[a], lobby'[l].lobby_id = lobby[l].lobby_id,
         lobby[l].stats \subseteq lobby'[l].stats,
         lobby'[l].colonies \subseteq lobby[l].colonies \cup {next_player_id}
  PROVE  Tracked(lobby[l], a)'
<1>1. /\ TypeOK /\ EventEffect(s) /\ Moved(s, session[s], session'[s]) /\ Seated(session[s])
      /\ lobby[l].lobby_id # 0
  BY EventEffects, SessionMoves DEF Places, SessionsSeated, LobbiesApart
<1>2. PICK p : p = lobby[l].participants[a] /\ p \in ParticipantRecords /\ a \in Accounts
  BY <1>1 DEF TypeOK, LobbyOK, ParticipantTable
<1>3. p.runtime \in PlayerIds /\ (\A id \in CountedIds(p) : id \in PlayerIds)
  BY <1>2 DEF ParticipantRecords, CountedIds
<1>4. CountsOnce(p) /\ \A id \in CountedIds(p) : Gone(id)'
  BY <1>2, <1>3, GoneStays DEF Tracked
<1>5. CASE p.disconnected
  <2>1. p.lives \subseteq CountedIds(p) /\ Gone(p.runtime) /\ p.runtime \notin lobby[l].colonies
    BY <1>2, <1>5 DEF Tracked
  <2>2. Gone(p.runtime)' /\ p.runtime # next_player_id
    <3>1. next_player_id \in Nat
      BY <1>1 DEF TypeOK
    <3> QED BY <1>3, <2>1, <3>1, GoneStays DEF Gone
  <2>3. p.runtime \notin lobby'[l].colonies
    BY <2>1, <2>2
  <2> QED BY <1>2, <1>4, <1>5, <2>1, <2>2, <2>3 DEF Tracked
<1>6. CASE ~p.disconnected
  <2>1. /\ p.lives \subseteq CountedIds(p) \cup {p.runtime}
        /\ p.runtime \in p.lives => p.runtime \in lobby'[l].stats
    BY <1>2, <1>6 DEF Tracked
  <2>2. PICK t \in Sessions : Plays(session[t], a, p.runtime, lobby[l].lobby_id)
    BY <1>2, <1>6 DEF Tracked
  <2>3. Plays(session'[t], a, p.runtime, lobby[l].lobby_id)
    <3>1. CASE t # s
      BY <1>1, <2>2, <3>1 DEF EventEffect
    <3>2. CASE t = s
      <4>1. session[s].lobby_id # 0 /\ l \in Find(session[s].lobby_id) /\ session[s].account # NoAccount
        BY <1>1, <1>2, <2>2, <3>2, Numbers DEF Plays, Find
      <4>2. ~Disconnect(s) /\ ~HandleLobbyLeave(s)
        BY <4>1 DEF LeftBy, Disconnect, HandleLobbyLeave
      <4>3. Stayed(session[s], session'[s])
        BY <1>1, <4>1, <4>2 DEF Moved, Sat
      <4> QED BY <2>2, <3>2, <4>1, <4>3 DEF Plays, Stayed
    <3> QED BY <3>1, <3>2
  <2> QED BY <1>2, <1>4, <1>6, <2>1, <2>3 DEF Tracked
<1> QED BY <1>5, <1>6

(* A player that leaves in the match is captured under its colony's id; an *)
(* entry of another stays as it is (DisconnectSession, HandleLobbyLeave).  *)
LEMMA DepartTracked ==
  ASSUME Places, Orderly, NEW s \in Sessions, Event(s), NEW l \in Slots, lobby[l].active, LeftBy(s, l),
         NEW a \in DOMAIN lobby'[l].participants,
         \A b \in DOMAIN lobby[l].participants : Tracked(lobby[l], b)
  PROVE  Tracked(lobby[l], a)'
<1>1. /\ TypeOK /\ EventEffect(s) /\ Moved(s, session[s], session'[s]) /\ Seated(session[s])
      /\ lobby[l].lobby_id # 0
  BY EventEffects, SessionMoves DEF Places, SessionsSeated, LobbiesApart
<1>2. PICK lob, new, c, id : /\ lob = lobby[l] /\ new = lobby'[l] /\ c = session[s] /\ new = Depart(lob, c)
                             /\ id = c.player_id
  BY DEF LeftBy
<1>3. LobbyOK(lob)
  BY <1>1, <1>2 DEF TypeOK
<1>4. Kept(lob, new) /\ new.colonies = lob.colonies \ {id} /\ new.stats = lob.stats \ {id}
  <2>1. /\ Kept(lob, Depart(lob, c)) /\ Depart(lob, c).colonies = lob.colonies \ {c.player_id}
        /\ Depart(lob, c).stats = lob.stats \ {c.player_id}
    BY ONLY <1>3, DepartShape
  <2> QED BY <1>2, <2>1
<1>5. PICK yes \in BOOLEAN : yes = TRUE
  OBVIOUS
<1>6. /\ c.entered_match => new.participants = Capture(lob, id, yes)
      /\ ~c.entered_match => new.participants = lob.participants
  <2>1. Depart(lob, c).participants = IF c.entered_match THEN Capture(lob, c.player_id, TRUE) ELSE lob.participants
    BY <1>3, DepartShape, Zenon
  <2> QED BY <1>2, <1>5, <2>1, Zenon
<1>7. DOMAIN Capture(lob, id, yes) = DOMAIN lob.participants
  BY <1>3, CaptureShape
<1>8. a \in DOMAIN lob.participants
  BY <1>2, <1>6, <1>7
<1>9. PICK p, q : /\ p = lob.participants[a] /\ q = new.participants[a] /\ p \in ParticipantRecords
  BY <1>3, <1>8 DEF LobbyOK, ParticipantTable
<1>10. Tracked(lob, a) /\ p.runtime \in PlayerIds /\ p.runtime # 0 /\ (\A i \in CountedIds(p) : i \in PlayerIds)
  BY <1>2, <1>8, <1>9, Numbers DEF ParticipantRecords, CountedIds
<1>11. CountsOnce(p) /\ (\A i \in CountedIds(p) : Gone(i) /\ Gone(i)')
  BY <1>9, <1>10, GoneStays DEF Tracked
<1>12. \A t \in Sessions : t # s => session'[t] = session[t]
  BY <1>1 DEF EventEffect
<1>13. new.lobby_id = lob.lobby_id
  BY <1>4 DEF Kept
<1>14. CASE p.disconnected
  <2>1. p.lives \subseteq CountedIds(p) /\ Gone(p.runtime) /\ p.runtime \notin lob.colonies /\ Gone(p.runtime)'
    BY <1>9, <1>10, <1>14, GoneStays DEF Tracked
  <2>2. p.runtime # id
    BY <1>2, <2>1 DEF Gone
  <2>3. q = p
    BY <1>3, <1>6, <1>8, <1>9, <2>2, CaptureShape
  <2> QED BY <1>2, <1>4, <1>9, <1>11, <1>14, <2>1, <2>3 DEF Tracked
<1>15. CASE ~p.disconnected /\ ~(c.entered_match /\ p.runtime = id)
  <2>1. /\ p.lives \subseteq CountedIds(p) \cup {p.runtime}
        /\ p.runtime \in p.lives => p.runtime \in lob.stats
    BY <1>9, <1>10, <1>15 DEF Tracked
  <2>2. PICK t \in Sessions : Plays(session[t], a, p.runtime, lob.lobby_id)
    BY <1>9, <1>10, <1>15 DEF Tracked
  <2>3. t # s
    BY <1>2, <1>15, <2>2 DEF Plays
  <2>4. p.runtime # id
    BY <1>2, <1>10, <2>2, <2>3 DEF Plays, Places, SessionsSeated
  <2>5. q = p
    BY <1>3, <1>6, <1>8, <1>9, <2>4, CaptureShape
  <2>6. Plays(session'[t], a, p.runtime, new.lobby_id)
    BY <1>12, <1>13, <2>2, <2>3
  <2>7. p.runtime \in p.lives => p.runtime \in new.stats
    BY <1>4, <2>1, <2>4
  <2> QED BY <1>2, <1>9, <1>11, <1>15, <2>1, <2>5, <2>6, <2>7 DEF Tracked
<1>16. CASE ~p.disconnected /\ c.entered_match /\ p.runtime = id
  <2>1. /\ p.lives \subseteq CountedIds(p) \cup {p.runtime}
        /\ p.runtime \in p.lives => p.runtime \in lob.stats
    BY <1>9, <1>10, <1>16 DEF Tracked
  <2>2. p.runtime \notin CountedIds(p)
    BY <1>2, <1>11, <1>16 DEF Gone
  <2>3. Captured(p, q, lob.stats) /\ q.disconnected
    <3>1. PICK table : table = Capture(lob, id, yes) /\ q = table[a]
      BY <1>6, <1>9, <1>16
    <3>2. Captured(lob.participants[a], table[a], lob.stats) /\ (yes => table[a].disconnected)
      BY <1>3, <1>8, <1>9, <1>16, <3>1, CaptureShape
    <3> QED BY <1>5, <1>9, <3>1, <3>2
  <2>4. Total(q) /\ CountedIds(q) \subseteq CountedIds(p) \cup {p.runtime}
    BY <1>9, <1>11, <2>1, <2>2, <2>3, CaptureCompletes
  <2>5. session'[s].player_id = 0
    BY <1>1, Leaves DEF LeftBy, Left
  <2>6. Gone(p.runtime)'
    <3>1. p.runtime < next_player_id'
      <4>1. p.runtime < next_player_id /\ p.runtime \in Nat /\ next_player_id \in Nat
        BY <1>1, <1>2, <1>10, <1>16, Numbers DEF Seated, TypeOK
      <4>2. next_player_id' = next_player_id \/ next_player_id' = next_player_id + 1
        BY <1>1 DEF EventEffect
      <4> QED BY <4>1, <4>2
    <3>2. \A t \in Sessions : t # s => session[t].player_id # id
      BY <1>2, <1>10, <1>16 DEF Places, SessionsSeated
    <3> QED BY <1>10, <1>12, <1>16, <2>5, <3>1, <3>2 DEF Gone
  <2>7. q.runtime = p.runtime
    BY <2>3 DEF Captured
  <2>8. p.runtime \notin new.colonies
    BY <1>4, <1>16
  <2>9. \A i \in CountedIds(q) : Gone(i)'
    BY <1>11, <2>4, <2>6
  <2> QED BY <1>2, <1>9, <2>3, <2>4, <2>6, <2>7, <2>8, <2>9 DEF Tracked, Total
<1> QED BY <1>14, <1>15, <1>16

(* A session that enters the match takes over the entry its account left,  *)
(* or gets one (RegisterPersistenceParticipant): while accounts are in one *)
(* session at a time, nobody plays for the entry it takes over.            *)
LEMMA EnterTracked ==
  ASSUME Places, Orderly, NEW s \in Sessions, Event(s), NEW l \in Slots, lobby[l].active, EnteredBy(s, l),
         Kept(lobby[l], lobby'[l]), NEW a \in DOMAIN lobby'[l].participants,
         \A b \in DOMAIN lobby[l].participants : Tracked(lobby[l], b)
  PROVE  Tracked(lobby[l], a)'
<1>1. /\ TypeOK /\ EventEffect(s) /\ Moved(s, session[s], session'[s]) /\ Seated(session[s])
      /\ lobby[l].lobby_id # 0
  BY EventEffects, SessionMoves DEF Places, SessionsSeated, LobbiesApart
<1>2. PICK ps, qs, c : /\ ps = lobby[l].participants /\ qs = lobby'[l].participants /\ c = session[s]
                       /\ qs = Register(ps, c) /\ ParticipantTable(ps) /\ c \in SessionRecords
  BY <1>1 DEF EnteredBy, TypeOK, LobbyOK
<1>3. \/ a \in DOMAIN ps /\ qs[a] = ps[a]
      \/ a = c.account /\ EntryOf(ps, qs[a], c)
  BY <1>2, RegisterShape
<1>4. lobby'[l].lobby_id = lobby[l].lobby_id /\ lobby'[l].colonies = lobby[l].colonies /\ lobby'[l].stats = lobby[l].stats
  BY DEF Kept, EnteredBy
<1>5. ~LeftBy(s, l)
  <2>1. HandleEnterMatch(s) => session'[s].entered_match
    BY <1>1 DEF HandleEnterMatch, TypeOK, SessionRecords
  <2>2. Disconnect(s) \/ HandleLobbyLeave(s) => ~session'[s].entered_match
    BY <1>1, Leaves DEF Left
  <2> QED BY <2>1, <2>2 DEF EnteredBy, LeftBy
<1>6. CASE a \in DOMAIN ps /\ qs[a] = ps[a]
  BY <1>2, <1>4, <1>5, <1>6, StaysTracked
<1>7. CASE a = c.account /\ EntryOf(ps, qs[a], c)
  <2>1. PICK q : /\ q = qs[a] /\ q \in ParticipantRecords /\ q.runtime = c.player_id /\ ~q.disconnected
                 /\ c.player_id # 0 /\ c.account # NoAccount
    BY <1>7 DEF EntryOf
  <2>2. \A b \in DOMAIN ps : ps[b].runtime # c.player_id
    BY <1>7 DEF EntryOf
  <2>3. CountsOnce(q) /\ q.lives \subseteq CountedIds(q) /\ \A id \in CountedIds(q) : id \in PlayerIds /\ Gone(id)
    <3>1. CASE a \in DOMAIN ps
      <4>1. PICK p : p = ps[a] /\ q.counted = p.counted /\ q.lives = p.lives /\ p \in ParticipantRecords
        BY <1>2, <1>7, <2>1, <3>1 DEF EntryOf, ParticipantTable
      <4>2. CountedIds(q) = CountedIds(p) /\ (CountsOnce(q) <=> CountsOnce(p))
        BY <4>1 DEF CountedIds, CountsOnce
      <4>3. Tracked(lobby[l], a) /\ p = lobby[l].participants[a]
        BY <1>2, <3>1, <4>1
      <4>4. p.disconnected
        <5> SUFFICES ASSUME ~p.disconnected PROVE FALSE
          OBVIOUS
        <5>1. PICK t \in Sessions : session[t].account = a /\ session[t].player_id = p.runtime
          BY <4>3 DEF Tracked, Plays
        <5>2. t = s
          BY <1>2, <1>7, <2>1, <5>1 DEF Places, AccountsApart
        <5> QED BY <1>2, <2>2, <3>1, <4>1, <5>1, <5>2
      <4>5. CountsOnce(p) /\ p.lives \subseteq CountedIds(p) /\ \A id \in CountedIds(p) : Gone(id)
        BY <4>3, <4>4 DEF Tracked
      <4>6. \A id \in CountedIds(p) : id \in PlayerIds
        BY <4>1 DEF ParticipantRecords, CountedIds
      <4> QED BY <4>1, <4>2, <4>5, <4>6
    <3>2. CASE a \notin DOMAIN ps
      <4>1. q.counted = <<>> /\ q.lives = {}
        BY <1>7, <2>1, <3>2 DEF EntryOf
      <4>2. DOMAIN q.counted = {}
        BY <4>1
      <4> QED BY <4>1, <4>2 DEF CountsOnce, CountedIds
    <3> QED BY <3>1, <3>2
  <2>4. \A id \in CountedIds(q) : Gone(id)'
    BY <2>3, GoneStays
  <2>5. q.runtime \notin q.lives
    BY <1>2, <2>1, <2>3 DEF Gone
  <2>6. Plays(session'[s], a, q.runtime, lobby'[l].lobby_id)
    <3>1. session'[s] = [c EXCEPT !.entered_match = TRUE] /\ l \in Find(c.lobby_id)
      BY <1>1, <1>2 DEF EnteredBy, HandleEnterMatch, TypeOK
    <3> QED BY <1>2, <1>4, <1>7, <2>1, <3>1 DEF Plays, SessionRecords, Find
  <2> QED BY <1>2, <2>1, <2>3, <2>4, <2>5, <2>6 DEF Tracked
<1> QED BY <1>3, <1>6, <1>7

(* The entries of a lobby through a packet or a connection.                *)
LEMMA EventTracked ==
  ASSUME Places, StatsTracked, NEW s \in Sessions, Event(s), up, Orderly,
         NEW l \in Slots, lobby'[l].active, lobby'[l].phase = "running",
         NEW a \in DOMAIN lobby'[l].participants
  PROVE  Tracked(lobby[l], a)'
<1>1. LobbyMove(s, l) /\ EventEffect(s)
  BY LobbyMoves, EventEffects DEF Places
<1>2. ~CreatedBy(s, l)
  BY DEF CreatedBy
<1>3. Kept(lobby[l], lobby'[l])
  BY <1>1, <1>2 DEF LobbyMove, Kept
<1>4. lobby[l].active /\ lobby'[l].lobby_id = lobby[l].lobby_id /\ \A b \in DOMAIN lobby[l].participants : Tracked(lobby[l], b)
  BY <1>3 DEF Kept, StatsTracked
<1>5. CASE LeftBy(s, l)
  BY <1>4, <1>5, DepartTracked
<1>6. CASE EnteredBy(s, l)
  BY <1>3, <1>4, <1>6, EnterTracked
<1>7. CASE ~LeftBy(s, l) /\ ~EnteredBy(s, l)
  <2>1. lobby'[l].participants = lobby[l].participants /\ lobby[l].stats \subseteq lobby'[l].stats
    BY <1>1, <1>2, <1>7 DEF LobbyMove, JoinedBy, FailedBy, VotedBy
  <2>2. lobby'[l].colonies \subseteq lobby[l].colonies \cup {next_player_id}
    BY <1>1 DEF EventEffect
  <2> QED BY <1>4, <1>7, <2>1, <2>2, StaysTracked
<1> QED BY <1>5, <1>6, <1>7

(* World statistics are of colonies in the world.                          *)
LEMMA StatsWithin ==
  ASSUME Places, StatsTracked, NEW s \in Sessions, Event(s), NEW l \in Slots
  PROVE  lobby'[l].stats \subseteq lobby'[l].colonies
<1>1. LobbyMove(s, l) /\ lobby[l].stats \subseteq lobby[l].colonies /\ LobbyOK(lobby[l])
  BY LobbyMoves DEF Places, StatsTracked, TypeOK
<1>2. CASE LeftBy(s, l)
  <2>1. PICK lob, c : lob = lobby[l] /\ c = session[s] /\ lobby'[l] = Depart(lob, c) /\ LobbyOK(lob)
    BY <1>1, <1>2 DEF LeftBy
  <2>2. LobbyOK(lob)
    BY <2>1
  <2>3. Depart(lob, c).colonies = lob.colonies \ {c.player_id} /\ Depart(lob, c).stats = lob.stats \ {c.player_id}
    BY <2>2, DepartShape
  <2> QED BY <1>1, <2>1, <2>3
<1>3. CASE ~LeftBy(s, l)
  BY <1>1, <1>3 DEF LobbyMove, CreatedBy, JoinedBy, FailedBy, EnteredBy, VotedBy
<1> QED BY <1>2, <1>3

(* The entries of a lobby through its tick and those of the others.        *)
LEMMA TickTracked ==
  ASSUME Places, StatsTracked, NEW m \in Slots, Tick(m), up, Orderly,
         NEW l \in Slots, lobby'[l].active, lobby'[l].phase = "running",
         NEW a \in DOMAIN lobby'[l].participants
  PROVE  Tracked(lobby[l], a)'
<1>0. TypeOK /\ TickEffect(m) /\ TickMove(m)
  BY TickEffects, TickMoves DEF Places
<1>1. /\ lobby[l].active /\ lobby[m].active /\ lobby'[l].lobby_id = lobby[l].lobby_id
      /\ (l # m => lobby'[l] = lobby[l]) /\ next_player_id' = next_player_id
      /\ \A s \in Sessions : Unseated(session[s], session'[s])
      /\ \A s \in Sessions : ~Here(s, lobby[m]) => session'[s] = session[s]
  BY <1>0 DEF TickEffect
<1>2. \A id : Gone(id) => Gone(id)'
  BY <1>1 DEF Gone, Unseated
<1>3. CASE l # m
  <2>1. Tracked(lobby[l], a) /\ lobby'[l] = lobby[l]
    BY <1>1, <1>3 DEF StatsTracked
  <2>2. lobby[l].lobby_id # lobby[m].lobby_id
    BY <1>1, <1>3 DEF Places, LobbiesApart
  <2>3. \A s \in Sessions : session[s].lobby_id = lobby[l].lobby_id => session'[s] = session[s]
    BY <1>1, <2>2 DEF Here
  <2>4. \A s \in Sessions : \A id : Plays(session[s], a, id, lobby[l].lobby_id) => Plays(session'[s], a, id, lobby[l].lobby_id)
    BY <2>3 DEF Plays
  <2> QED BY <1>2, <2>1, <2>4 DEF Tracked
<1>4. CASE l = m /\ Idled(m)
  <2>1. /\ session' = session /\ lobby'[l].participants = lobby[l].participants /\ lobby'[l].colonies = lobby[l].colonies
        /\ lobby'[l].stats = lobby[l].stats /\ lobby[l].phase = "running"
    BY <1>4 DEF Idled, Alike
  <2>2. Tracked(lobby[l], a)
    BY <1>1, <2>1 DEF StatsTracked
  <2> QED BY <1>1, <2>1, <2>2 DEF Tracked, Gone
<1>5. CASE l = m /\ Ran(m)
  <2>1. PICK lob, new : /\ lob = lobby[l] /\ new = lobby'[l] /\ Lived(lob, new) /\ lob.phase = "running"
                        /\ session' = session
    BY <1>5 DEF Ran
  <2>2. a \in DOMAIN lob.participants /\ LobbyOK(lob) /\ lob.stats \subseteq lob.colonies
    BY <1>0, <2>1 DEF Lived, StatsTracked, TypeOK
  <2>3. Tracked(lob, a)
    BY <1>1, <2>1, <2>2 DEF StatsTracked
  <2>4. Tracked(new, a)
    BY <2>1, <2>2, <2>3, LivedTracked
  <2> QED BY <1>1, <2>1, <2>4 DEF Tracked, Gone
<1>6. CASE l = m /\ EndedBy(m)
  BY <1>6 DEF EndedBy
<1>7. CASE l = m /\ ResolvedBy(m)
  <2>1. PICK lob, after, participants :
          /\ Kept(lobby[l], lob) /\ after = session' /\ after \in [Sessions -> SessionRecords]
          /\ participants = RegisterEntered(lob, after) /\ lobby'[l].participants = participants
    BY <1>7 DEF ResolvedBy
  <2>2. PICK s \in Sessions :
          /\ Staying(lob, after, s) /\ after[s].account = a
          /\ participants[a] = [ runtime |-> after[s].player_id, disconnected |-> FALSE, counted |-> <<>>, lives |-> {} ]
    BY <2>1, RegisterEnteredShape
  <2>3. PICK p : /\ p = lobby'[l].participants[a] /\ p.runtime = after[s].player_id /\ ~p.disconnected
                 /\ p.counted = <<>> /\ p.lives = {}
    BY <2>1, <2>2
  <2>4. DOMAIN p.counted = {}
    BY <2>3
  <2>5. CountsOnce(p) /\ CountedIds(p) = {}
    BY <2>4 DEF CountsOnce, CountedIds
  <2>6. Plays(session'[s], a, p.runtime, lobby'[l].lobby_id)
    <3>1. session'[s].lobby_id = session[s].lobby_id /\ session[s].lobby_id = lob.lobby_id /\ lob.lobby_id = lobby[l].lobby_id
      BY <1>1, <2>1, <2>2 DEF Unseated, Staying, Here, Kept
    <3> QED BY <1>1, <2>1, <2>2, <2>3, <3>1 DEF Plays, Staying
  <2> QED BY <2>3, <2>5, <2>6 DEF Tracked
<1> QED BY <1>0, <1>3, <1>4, <1>5, <1>6, <1>7 DEF TickMove

(* The first rows have no participants.                                    *)
LEMMA StatsInit == Init => StatsTracked
<1> SUFFICES ASSUME Init PROVE StatsTracked
  OBVIOUS
<1>1. \A l \in Slots : lobby[l].stats = {} /\ DOMAIN lobby[l].participants = {}
  BY InitLobbies
<1>2. PICK nobody : nobody = NoLobby.participants /\ DOMAIN nobody = {}
  BY NoLobbyShape
<1>3. \A u \in DOMAIN rows : rows[u].participants = nobody
  BY <1>2 DEF Init
<1> QED BY <1>1, <1>2, <1>3, TotalRows DEF StatsTracked

(* A row that begins has no participants; a row that ends, only complete   *)
(* ones.                                                                   *)
LEMMA BegunTotals ==
  ASSUME StatsCountedOnce, UNCHANGED environment, NEW uuid, NEW new, rows' = rows \/ Begun(rows, uuid, new, rows')
  PROVE  StatsCountedOnce'
<1> SUFFICES ASSUME Orderly, NEW u \in DOMAIN rows', NEW a \in DOMAIN rows'[u].participants
             PROVE  Total(rows'[u].participants[a])
  BY DEF StatsCountedOnce, Total, CountsOnce, CountedIds, Orderly
<1>1. PICK nobody : nobody = NoLobby.participants /\ DOMAIN nobody = {}
  BY NoLobbyShape
<1>2. CASE u \in DOMAIN rows /\ rows'[u] = rows[u]
  BY <1>2, TotalRows
<1>3. CASE rows'[u] = BegunRow(new)
  <2>1. rows'[u].participants = nobody
    BY <1>1, <1>3 DEF BegunRow
  <2> QED BY <1>1, <2>1
<1> QED BY <1>2, <1>3 DEF Begun

(* A round that is saved counts each life of its participants once.        *)
LEMMA EndedTotals ==
  ASSUME StatsCountedOnce, UNCHANGED environment, NEW lob, LobbyOK(lob),
         Orderly => \A a \in DOMAIN lob.participants : Tracked(lob, a),
         NEW final, final = CaptureRemaining(lob), NEW status,
         rows' = rows \/ Saved(rows, lob, final, status, rows')
  PROVE  StatsCountedOnce'
<1> SUFFICES ASSUME Orderly, NEW u \in DOMAIN rows', NEW a \in DOMAIN rows'[u].participants
             PROVE  Total(rows'[u].participants[a])
  BY DEF StatsCountedOnce, Total, CountsOnce, CountedIds, Orderly
<1>1. \A b \in DOMAIN final : Total(final[b])
  BY SavedTotals
<1>2. CASE u \in DOMAIN rows /\ rows'[u] = rows[u]
  BY <1>2, TotalRows
<1>3. CASE rows'[u] = SavedRow(rows, lob, final, status)
  <2>1. rows'[u].participants = final
    BY <1>3 DEF SavedRow
  <2> QED BY <1>1, <2>1
<1> QED BY <1>2, <1>3 DEF Saved

(* Packets and connections count no life twice and lose none.              *)
LEMMA StatsEvent ==
  ASSUME Places, StatsTracked, NEW s \in Sessions, Event(s)
  PROVE  StatsTracked'
<1>1. EventEffect(s) /\ TypeOK /\ (Settled \/ \E ok \in DatabaseOutcomes : HandleLobbyCreate(s, ok))
  BY EventEffects DEF Places
<1>2. up /\ up' = up /\ UNCHANGED environment /\ (Orderly' <=> Orderly)
  BY <1>1 DEF EventEffect, Orderly
<1>3. PICK new, uuid : rows' = rows \/ Begun(rows, uuid, new, rows')
  <2>1. CASE Settled
    BY <2>1 DEF Settled
  <2>2. ASSUME NEW ok \in DatabaseOutcomes, HandleLobbyCreate(s, ok), rows' # rows
        PROVE  \E new, uuid : Begun(rows, uuid, new, rows')
    <3>1. PICK id, uuid, created, table :
            /\ id = next_lobby_id /\ uuid = rounds + 1 /\ created = Fresh(id, uuid) /\ table = rows
            /\ rows' = BeginRow(table, uuid, created, ok)
      BY <2>2, CreateShape
    <3>2. id \in Nat /\ uuid \in Nat
      BY <1>1, <3>1 DEF TypeOK
    <3>3. LobbyOK(created)
      BY <3>1, <3>2, FreshShape
    <3>4. rows' = table \/ Begun(table, uuid, created, rows')
      BY <3>3, <3>1, BeginRowShape
    <3> QED BY <2>2, <3>1, <3>4
  <2> QED BY <1>1, <2>1, <2>2
<1>4. StatsCountedOnce'
  BY <1>2, <1>3, BegunTotals DEF StatsTracked
<1>5. \A l \in Slots : lobby'[l].stats \subseteq lobby'[l].colonies
  BY StatsWithin
<1>6. Orderly => \A l \in Slots : lobby'[l].active /\ lobby'[l].phase = "running" =>
        \A a \in DOMAIN lobby'[l].participants : Tracked(lobby[l], a)'
  BY <1>2, EventTracked
<1> QED BY <1>2, <1>4, <1>5, <1>6 DEF StatsTracked

(* Neither do ticks.                                                       *)
LEMMA StatsTick ==
  ASSUME Places, StatsTracked, NEW m \in Slots, Tick(m)
  PROVE  StatsTracked'
<1>1. TickEffect(m) /\ TickMove(m) /\ TypeOK
  BY TickEffects, TickMoves DEF Places
<1>2. /\ up /\ up' = up /\ UNCHANGED environment /\ (Orderly' <=> Orderly) /\ lobby[m].active
      /\ \A l \in Slots : l # m => lobby'[l] = lobby[l]
  BY <1>1 DEF TickEffect, Orderly
<1>3. lobby'[m].stats \subseteq lobby'[m].colonies
  BY <1>1 DEF TickMove, Idled, Alike, Ran, Lived, EndedBy, ResolvedBy, StatsTracked
<1>4. \A l \in Slots : lobby'[l].stats \subseteq lobby'[l].colonies
  BY <1>2, <1>3 DEF StatsTracked
<1>5. Orderly => \A l \in Slots : lobby'[l].active /\ lobby'[l].phase = "running" =>
        \A a \in DOMAIN lobby'[l].participants : Tracked(lobby[l], a)'
  BY <1>2, TickTracked
<1>6. StatsCountedOnce /\ UNCHANGED environment
  BY <1>2 DEF StatsTracked
<1>7. StatsCountedOnce'
  <2>1. CASE Idled(m) \/ Ran(m)
    BY <1>6, <2>1 DEF Idled, Ran, StatsCountedOnce, Orderly
  <2>2. CASE ResolvedBy(m)
    <3>1. PICK new, uuid : rows' = rows \/ Begun(rows, uuid, new, rows')
      BY <2>2 DEF ResolvedBy
    <3> QED BY <1>6, <3>1, BegunTotals
  <2>3. CASE EndedBy(m)
    <3>1. PICK before, lob, final, status :
            /\ before = lobby[m] /\ Lived(before, lob) /\ LobbyOK(lob) /\ final = CaptureRemaining(lob)
            /\ before.phase = "running"
            /\ rows' = rows \/ Saved(rows, lob, final, status, rows')
      BY <2>3 DEF EndedBy
    <3>2. LobbyOK(before) /\ before.stats \subseteq before.colonies /\ DOMAIN lob.participants = DOMAIN before.participants
      BY <1>1, <3>1 DEF TypeOK, StatsTracked, Lived
    <3>3. Orderly => \A a \in DOMAIN lob.participants : Tracked(before, a)
      <4>1. Orderly => \A a \in DOMAIN lobby[m].participants : Tracked(lobby[m], a)
        BY <1>2, <3>1 DEF StatsTracked
      <4> QED BY <3>1, <3>2, <4>1
    <3>4. Orderly => \A a \in DOMAIN lob.participants : Tracked(lob, a)
      BY <3>1, <3>2, <3>3, LivedTracked
    <3>5. LobbyOK(lob) /\ final = CaptureRemaining(lob) /\ (rows' = rows \/ Saved(rows, lob, final, status, rows'))
      BY <3>1
    <3> QED BY <1>6, <3>4, <3>5, EndedTotals
  <2> QED BY <1>1, <2>1, <2>2, <2>3 DEF TickMove
<1> QED BY <1>2, <1>4, <1>5, <1>7 DEF StatsTracked

(* Nor does the end of the main loop.                                      *)
LEMMA StatsShutdown ==
  ASSUME Places, StatsTracked, NEW oks, Shutdown(oks)
  PROVE  StatsTracked'
<1>1. lobby' = lobby /\ up' = FALSE /\ rows' = SavedAtShutdown(oks) /\ TypeOK /\ up /\ UNCHANGED environment
  BY DEF Shutdown, Places
<1>2. \A u \in DOMAIN rows' :
        \/ u \in DOMAIN rows /\ rows'[u] = rows[u]
        \/ \E k \in DueAtShutdown, status \in {"completed", "aborted"} :
             rows'[u] = SavedRow(rows, lobby[k], CaptureRemaining(lobby[k]), status)
  BY <1>1, SavedAtShutdownShape DEF TypeOK
<1>3. StatsCountedOnce'
  <2> SUFFICES ASSUME Orderly, NEW u \in DOMAIN rows', NEW a \in DOMAIN rows'[u].participants
               PROVE  Total(rows'[u].participants[a])
    BY <1>1 DEF StatsCountedOnce, Total, CountsOnce, CountedIds, Orderly
  <2>1. CASE u \in DOMAIN rows /\ rows'[u] = rows[u]
    BY <2>1, TotalRows DEF StatsTracked
  <2>2. ASSUME NEW k \in DueAtShutdown, NEW status,
               rows'[u] = SavedRow(rows, lobby[k], CaptureRemaining(lobby[k]), status)
        PROVE  Total(rows'[u].participants[a])
    <3>1. PICK lob, final : lob = lobby[k] /\ final = CaptureRemaining(lob)
      OBVIOUS
    <3>2. LobbyOK(lob) /\ \A b \in DOMAIN lob.participants : Tracked(lob, b)
      BY <1>1, <3>1 DEF DueAtShutdown, TypeOK, StatsTracked
    <3>3. \A b \in DOMAIN final : Total(final[b])
      BY <3>1, <3>2, SavedTotals
    <3>4. rows'[u].participants = final
      BY <2>2, <3>1 DEF SavedRow
    <3> QED BY <3>3, <3>4
  <2> QED BY <1>2, <2>1, <2>2
<1> QED BY <1>1, <1>3 DEF StatsTracked

(* StatsCountedOnce: a saved round holds the statistics of each life of an *)
(* account in it once, however often it left and came back                 *)
(* (RegisterPersistenceParticipant, CapturePersistenceParticipant).        *)
THEOREM StatsAreCountedOnce == Spec => []StatsCountedOnce
<1>1. Places /\ StatsTracked /\ [Next]_vars => StatsTracked'
  <2>1. ASSUME StatsTracked, UNCHANGED vars PROVE StatsTracked'
    <3>1. \A l \in Slots : \A a : Tracked(lobby[l], a)' <=> Tracked(lobby[l], a)
      BY <2>1 DEF vars, Tracked, Plays, Gone
    <3>2. (StatsCountedOnce' <=> StatsCountedOnce) /\ (Orderly' <=> Orderly)
      BY <2>1 DEF vars, StatsCountedOnce, Orderly
    <3> QED BY <2>1, <3>1, <3>2 DEF vars, StatsTracked
  <2> QED BY <2>1, StatsEvent, StatsTick, StatsShutdown DEF Next
<1>2. StatsTracked => StatsCountedOnce
  BY DEF StatsTracked
<1> QED BY <1>1, <1>2, PlacesHold, StatsInit, PTL DEF Spec

=============================================================================
