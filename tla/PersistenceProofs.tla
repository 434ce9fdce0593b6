-------------------------- MODULE PersistenceProofs ---------------------------
(***************************************************************************)
(* A save of a match is whole or leaves no trace, for every set of rounds  *)
(* and accounts, whatever statement fails and wherever the process dies;   *)
(* and the settings a client saved are found again (SettingsStore).        *)
(***************************************************************************)
EXTENDS Storage, FiniteSetTheorems, TLAPS

(* How far a save has come: the connection is in a transaction from BEGIN  *)
(* to the return, and has changed nothing before the look-up.              *)
Position ==
  /\ open <=> call.at \in {"lookup", "participants", "commit"}
  /\ call.at \in {"none", "begin", "lookup"} => work = disk
  /\ call.at \in {"begin", "lookup"} => call.left = call.participants /\ call.current = {}

Counted(games, members) ==
  [a \in Accounts |-> IF a \in members THEN games[a] + 1 ELSE games[a]]

(* What the open transaction has added to the tables on disk: the rows of  *)
(* the participants so far and the totals of all but the current one.      *)
Progress ==
  /\ call.at \in {"participants", "commit"} =>
       /\ ~Closed(disk, call.round)
       /\ call.left \subseteq call.participants
       /\ call.current \subseteq call.participants \ call.left
       /\ work.participants
            = [disk.participants EXCEPT ![call.round] = call.participants \ call.left]
       /\ work.games
            = Counted(disk.games, call.participants \ (call.left \cup call.current))
  /\ call.at = "participants" =>
       /\ work.status = [disk.status EXCEPT ![call.round] = "active"]
       /\ work.closings = disk.closings
  /\ call.at = "commit" =>
       /\ call.left = {} /\ call.current = {}
       /\ work.status = [disk.status EXCEPT ![call.round] = Outcome(call.interrupted)]
       /\ work.closings = [disk.closings EXCEPT ![call.round] = 1]

Whole == TotalsMatchRounds /\ Position /\ Progress

IInv == TypeOK /\ Whole

-----------------------------------------------------------------------------
(* The tables and the calls *)

SaveCalls ==
  [ at : {"begin", "lookup", "participants", "commit"}, round : Rounds,
    participants : SUBSET Accounts, interrupted : BOOLEAN, left : SUBSET Accounts,
    current : SUBSET Accounts ]

(* The call record is NoCall exactly when no save is under way (the local  *)
(* state of ShroomMatchPersistenceSave).                                   *)
LEMMA CallShape ==
  ASSUME TypeOK
  PROVE  /\ call = NoCall <=> call.at = "none"
         /\ call # NoCall => call \in SaveCalls
BY DEF TypeOK, Calls, NoCall, SaveCalls

(* A started save is a call at its BEGIN (ShroomMatchPersistenceSave).     *)
LEMMA StartedShape ==
  ASSUME NEW r \in Rounds, NEW members \in SUBSET Accounts, NEW interrupted \in BOOLEAN
  PROVE  /\ Started(r, members, interrupted) \in SaveCalls
         /\ Started(r, members, interrupted) # NoCall
<1>1. Started(r, members, interrupted).at # NoCall.at
  BY DEF Started, NoCall
<1> QED BY <1>1 DEF Started, SaveCalls

(* The members of Calls other than NoCall (ShroomCompletedMatch).          *)
LEMMA CallsAre == Calls = {NoCall} \cup SaveCalls
BY DEF Calls, SaveCalls

(* Closing a round keeps the columns in their types                        *)
(* (match_persistence.c:236-269).                                          *)
LEMMA FinalTables ==
  ASSUME work \in Tables, call \in SaveCalls
  PROVE  [ work EXCEPT !.status[call.round] = Outcome(call.interrupted),
                       !.closings[call.round] = @ + 1 ] \in Tables
<1> DEFINE status == [work.status EXCEPT ![call.round] = Outcome(call.interrupted)]
           closings == [work.closings EXCEPT ![call.round] = @ + 1]
<1>1. status \in [Rounds -> {"none", "active", "completed", "aborted"}]
  BY DEF Outcome, Tables, SaveCalls
<1>2. closings \in [Rounds -> Nat]
  BY DEF Tables, SaveCalls
<1> HIDE DEF status, closings
<1>3. /\ [work EXCEPT !.status = status] \in Tables
      /\ [work EXCEPT !.status = status].closings = work.closings
  BY <1>1 DEF Tables
<1>4. \A t \in Tables : [t EXCEPT !.closings = closings] \in Tables
  BY <1>2 DEF Tables
<1>5. [[work EXCEPT !.status = status] EXCEPT !.closings = closings] \in Tables
  BY <1>3, <1>4
<1> QED BY <1>3, <1>5 DEF status, closings

-----------------------------------------------------------------------------
(* Type correctness *)

(* The tables are well formed at the start (DATABASE_SCHEMA).              *)
LEMMA TypeInit == Init => TypeOK
<1>1. EmptyTables \in Tables
  BY DEF EmptyTables, Tables
<1> QED BY <1>1, CallsAre DEF Init, TypeOK

(* Every statement keeps the types (match_persistence.c).                  *)
LEMMA TypeStep ==
  ASSUME TypeOK, [Next]_vars
  PROVE  TypeOK'
<1> USE DEF TypeOK
<1>0. NoCall \in Calls /\ (call # NoCall => call \in SaveCalls /\ call.round \in Rounds
                                             /\ call.participants \in SUBSET Accounts
                                             /\ call.interrupted \in BOOLEAN)
  BY CallShape, CallsAre DEF SaveCalls
<1>1. NoCall.at = "none"
  BY DEF NoCall
<1>2. ASSUME Fails, account' = account, known' = known
      PROVE  TypeOK'
  BY <1>0, <1>2 DEF Fails
<1>3. ASSUME NEW t \in Tables, Write(t)
      PROVE  work' \in Tables /\ disk' \in Tables
  BY <1>3 DEF Write
<1>4. ASSUME NEW r \in Rounds, NEW ok \in BOOLEAN, BeginRound(r, ok)
      PROVE  TypeOK'
  <2>1. [work EXCEPT !.status[r] = "active"] \in Tables
    BY DEF Tables
  <2>2. work' \in Tables /\ disk' \in Tables
    BY <1>3, <1>4, <2>1 DEF BeginRound
  <2> QED BY <1>4, <2>2 DEF BeginRound
<1>5. ASSUME NEW r \in Rounds, NEW members \in SUBSET Accounts, NEW interrupted \in BOOLEAN,
             CallSave(r, members, interrupted)
      PROVE  TypeOK'
  BY <1>5, StartedShape, CallsAre DEF CallSave
<1>6. CASE BeginImmediate
  <2>1. CASE account = "writing"
    BY <1>2, <1>6, <2>1 DEF BeginImmediate
  <2>2. CASE account # "writing"
    <3>1. [call EXCEPT !.at = "lookup"] \in SaveCalls
      BY <1>0, <1>1, <1>6 DEF BeginImmediate, SaveCalls
    <3> QED BY <1>6, <2>2, <3>1, CallsAre DEF BeginImmediate
  <2> QED BY <2>1, <2>2
<1>7. CASE LookUp
  <2>1. CASE Closed(work, call.round)
    BY <1>2, <1>7, <2>1 DEF LookUp
  <2>2. CASE ~Closed(work, call.round)
    <3>1. call # NoCall
      BY <1>1, <1>7 DEF LookUp
    <3>2. [call EXCEPT !.at = "participants"] \in SaveCalls
      BY <1>0, <3>1 DEF SaveCalls
    <3>3. Cardinality(call.participants) \in Nat
      BY <1>0, <3>1, PersistenceParameters, FS_Subset, FS_CardinalityType
    <3>4. [ work EXCEPT !.status[call.round] = "active",
                        !.player_count[call.round] = Cardinality(call.participants) ] \in Tables
      BY <1>0, <3>1, <3>3 DEF Tables
    <3>5. work' \in Tables /\ disk' \in Tables
      BY <1>3, <1>7, <2>2, <3>4 DEF LookUp
    <3> QED BY <1>7, <2>2, <3>2, <3>5, CallsAre DEF LookUp
  <2> QED BY <2>1, <2>2
<1>8. ASSUME NEW a \in Accounts, InsertParticipant(a)
      PROVE  TypeOK'
  <2>1. CASE a \in work.participants[call.round]
    BY <1>2, <1>8, <2>1 DEF InsertParticipant
  <2>2. CASE a \notin work.participants[call.round]
    <3>1. call # NoCall
      BY <1>1, <1>8 DEF InsertParticipant
    <3>2. [call EXCEPT !.left = @ \ {a}, !.current = {a}] \in SaveCalls
      BY <1>0, <3>1 DEF SaveCalls
    <3>3. [work EXCEPT !.participants[call.round] = @ \cup {a}] \in Tables
      BY <1>0, <3>1 DEF Tables
    <3>4. work' \in Tables /\ disk' \in Tables
      BY <1>3, <1>8, <2>2, <3>3 DEF InsertParticipant
    <3> QED BY <1>8, <2>2, <3>2, <3>4, CallsAre DEF InsertParticipant
  <2> QED BY <2>1, <2>2
<1>9. ASSUME NEW a \in Accounts, AddTotals(a)
      PROVE  TypeOK'
  <2>1. call # NoCall
    BY <1>1, <1>9 DEF AddTotals
  <2>2. [call EXCEPT !.current = {}] \in SaveCalls
    BY <1>0, <2>1 DEF SaveCalls
  <2>3. [work EXCEPT !.games[a] = @ + 1] \in Tables
    <3>1. [work.games EXCEPT ![a] = @ + 1] \in [Accounts -> Nat]
      BY DEF Tables
    <3> QED BY <3>1 DEF Tables
  <2>4. work' \in Tables /\ disk' \in Tables
    BY <1>3, <1>9, <2>3 DEF AddTotals
  <2> QED BY <1>9, <2>2, <2>4, CallsAre DEF AddTotals
<1>10. CASE Finalize
  <2>1. CASE work.status[call.round] # "active"
    BY <1>2, <1>10, <2>1 DEF Finalize
  <2>2. CASE work.status[call.round] = "active"
    <3>1. call # NoCall
      BY <1>1, <1>10 DEF Finalize
    <3>2. [call EXCEPT !.at = "commit"] \in SaveCalls
      BY <1>0, <3>1 DEF SaveCalls
    <3>3. [ work EXCEPT !.status[call.round] = Outcome(call.interrupted),
                        !.closings[call.round] = @ + 1 ] \in Tables
      BY <1>0, <3>1, FinalTables
    <3>4. work' \in Tables /\ disk' \in Tables
      BY <1>3, <1>10, <2>2, <3>3 DEF Finalize
    <3> QED BY <1>10, <2>2, <3>2, <3>4, CallsAre DEF Finalize
  <2> QED BY <2>1, <2>2
<1>11. CASE Commit
  <2>1. CASE account = "reading"
    BY <1>2, <1>11, <2>1 DEF Commit
  <2>2. CASE account # "reading"
    BY <1>0, <1>11, <2>2 DEF Commit
  <2> QED BY <2>1, <2>2
<1>12. CASE StatementFails
  BY <1>2, <1>12 DEF StatementFails
<1>13. CASE AccountReads \/ AccountWrites \/ AccountDone
  BY <1>13 DEF AccountReads, AccountWrites, AccountDone
<1>14. CASE Crash
  BY <1>0, <1>14 DEF Crash
<1>15. CASE UNCHANGED vars
  BY <1>15 DEF vars
<1> QED
  BY <1>4, <1>5, <1>6, <1>7, <1>8, <1>9, <1>10, <1>11, <1>12, <1>13, <1>14, <1>15 DEF Next, Save

(* The tables and the save keep their types, in every behaviour of any     *)
(* sets of rounds and accounts (match_persistence.c).                      *)
THEOREM TypeCorrect == Spec => []TypeOK
<1>1. TypeOK /\ [Next]_vars => TypeOK'
  BY TypeStep
<1> QED BY TypeInit, <1>1, PTL DEF Spec

-----------------------------------------------------------------------------
(* A save is whole *)

(* A save that returns without its COMMIT leaves disk as it was and the    *)
(* connection outside a transaction (goto rollback).                       *)
LEMMA Returns ==
  ASSUME Whole, disk' = disk, work' = disk, open' = FALSE, call' = NoCall
  PROVE  Whole'
BY DEF Whole, TotalsMatchRounds, Position, Progress, Closed, NoCall

(* Without a call the connection is outside a transaction                  *)
(* (match_persistence.c:270-279).                                          *)
LEMMA Outside ==
  ASSUME IInv, call = NoCall
  PROVE  ~open /\ work = disk
BY DEF IInv, Whole, Position, NoCall

(* A round is begun in one statement, which closes nothing                 *)
(* (ShroomMatchPersistenceBegin).                                          *)
LEMMA BeginStep ==
  ASSUME IInv, NEW r \in Rounds, NEW ok \in BOOLEAN, BeginRound(r, ok)
  PROVE  Whole'
<1>1. call = NoCall /\ call' = call /\ open' = open /\ ~open /\ work = disk
  BY Outside DEF BeginRound
<1>2. work' = disk'
  BY <1>1 DEF BeginRound, Write
<1>3. TotalsMatchRounds'
  <2>1. CASE ok
    <3>1. disk' = [disk EXCEPT !.status[r] = "active"]
      BY <1>1, <2>1 DEF BeginRound, Write
    <3>2. disk.status[r] = "none"
      BY DEF BeginRound
    <3>3. /\ disk'.participants = disk.participants /\ disk'.games = disk.games
          /\ disk'.closings = disk.closings
          /\ \A q \in Rounds : Closed(disk', q) <=> Closed(disk, q)
      BY <3>1, <3>2 DEF IInv, TypeOK, Tables, Closed
    <3> QED BY <3>3 DEF IInv, Whole, TotalsMatchRounds
  <2>2. CASE ~ok
    BY <2>2 DEF BeginRound, IInv, Whole, TotalsMatchRounds, Closed
  <2> QED BY <2>1, <2>2
<1>4. Position' /\ Progress'
  BY <1>1, <1>2 DEF Position, Progress, NoCall
<1> QED BY <1>3, <1>4 DEF Whole

(* A call changes nothing yet (PersistLobbyRound).                         *)
LEMMA CallStep ==
  ASSUME IInv, NEW r \in Rounds, NEW members \in SUBSET Accounts,
         NEW interrupted \in BOOLEAN, CallSave(r, members, interrupted)
  PROVE  Whole'
<1>1. ~open /\ work = disk /\ UNCHANGED <<disk, work, open>>
  BY Outside DEF CallSave
<1>2. /\ call'.at = "begin" /\ call'.left = call'.participants /\ call'.current = {}
  BY DEF CallSave, Started
<1> QED BY <1>1, <1>2 DEF IInv, Whole, TotalsMatchRounds, Closed, Position, Progress

(* BEGIN IMMEDIATE opens the transaction or the save returns.              *)
LEMMA ImmediateStep ==
  ASSUME IInv, BeginImmediate
  PROVE  Whole'
<1>1. CASE account = "writing"
  <2>1. work = disk
    BY DEF BeginImmediate, IInv, Whole, Position
  <2> QED BY <1>1, <2>1, Returns DEF BeginImmediate, Fails, IInv
<1>2. CASE account # "writing"
  <2>1. call \in SaveCalls
    BY CallShape DEF BeginImmediate, IInv, NoCall
  <2>2. /\ call'.at = "lookup" /\ call'.left = call.left
        /\ call'.participants = call.participants /\ call'.current = call.current
    BY <1>2, <2>1 DEF BeginImmediate, SaveCalls
  <2>3. open' /\ disk' = disk /\ work' = work /\ work = disk /\ call.at = "begin"
    BY <1>2 DEF BeginImmediate, IInv, Whole, Position
  <2> QED BY <2>2, <2>3 DEF IInv, Whole, TotalsMatchRounds, Closed, Position, Progress
<1> QED BY <1>1, <1>2

(* Inside the transaction nothing reaches the disk (BEGIN IMMEDIATE).      *)
LEMMA Inside ==
  ASSUME IInv, call.at \in {"lookup", "participants", "commit"}
  PROVE  /\ open /\ call \in SaveCalls /\ call.round \in Rounds
         /\ \A tables : Write(tables) => work' = tables /\ disk' = disk
         /\ disk' = disk => TotalsMatchRounds'
<1>1. open /\ call \in SaveCalls
  BY CallShape DEF IInv, Whole, Position, NoCall
<1> QED BY <1>1 DEF IInv, Whole, TotalsMatchRounds, Closed, Write, SaveCalls

(* The look-up finds the round open and makes sure of its row, or the save *)
(* returns.                                                                *)
LEMMA LookUpStep ==
  ASSUME IInv, LookUp
  PROVE  Whole'
<1>0. call.at = "lookup"
  BY DEF LookUp
<1>1. /\ open /\ call \in SaveCalls /\ call.round \in Rounds /\ work = disk
      /\ call.left = call.participants /\ call.current = {}
  BY <1>0, Inside DEF IInv, Whole, Position
<1>2. CASE Closed(work, call.round)
  BY <1>1, <1>2, Returns DEF LookUp, Fails, IInv
<1>3. CASE ~Closed(work, call.round)
  <2>1. open' = open /\ disk' = disk /\ call' = [call EXCEPT !.at = "participants"]
    BY <1>0, <1>3, Inside DEF LookUp
  <2>2. /\ call'.at = "participants" /\ call'.round = call.round /\ call'.left = call'.participants
        /\ call'.current = {}
    BY <1>1, <2>1 DEF SaveCalls
  <2>3. /\ work'.participants = disk.participants /\ work'.games = disk.games
        /\ work'.closings = disk.closings
        /\ work'.status = [disk.status EXCEPT ![call.round] = "active"]
    <3>1. CASE work.status[call.round] = "active"
      BY <1>1, <1>3, <3>1 DEF LookUp, IInv, TypeOK, Tables
    <3>2. CASE work.status[call.round] # "active"
      <4>1. work' = [ work EXCEPT !.status[call.round] = "active",
                                  !.player_count[call.round] = Cardinality(call.participants) ]
        BY <1>0, <1>3, <3>2, Inside DEF LookUp
      <4> QED BY <1>1, <4>1 DEF IInv, TypeOK, Tables
    <3> QED BY <3>1, <3>2
  <2>4. /\ ~Closed(disk, call.round)
        /\ disk.participants = [disk.participants EXCEPT ![call.round] = {}]
    BY <1>1, <1>3 DEF IInv, Whole, TotalsMatchRounds, TypeOK, Tables
  <2>5. disk.games = Counted(disk.games, {})
    BY DEF Counted, IInv, TypeOK, Tables
  <2>6. /\ call'.participants \ call'.left = {}
        /\ call'.participants \ (call'.left \cup call'.current) = {}
    BY <2>2
  <2>7. ~Closed(disk', call'.round)
    BY <2>1, <2>2, <2>4 DEF Closed
  <2>8. Progress'
    BY <2>1, <2>2, <2>3, <2>4, <2>5, <2>6, <2>7 DEF Progress
  <2>9. Position'
    BY <1>1, <2>1, <2>2 DEF Position
  <2> QED BY <1>0, <2>1, <2>8, <2>9, Inside DEF Whole
<1> QED BY <1>2, <1>3

(* A participant's row joins the round, or the save returns                *)
(* (SaveParticipant).                                                      *)
LEMMA InsertStep ==
  ASSUME IInv, NEW a \in Accounts, InsertParticipant(a)
  PROVE  Whole'
<1>0. call.at = "participants" /\ call.current = {} /\ a \in call.left
  BY DEF InsertParticipant
<1>1. open /\ call \in SaveCalls /\ call.round \in Rounds
  BY <1>0, Inside
<1>2. CASE a \in work.participants[call.round]
  BY <1>2, Returns DEF InsertParticipant, Fails, IInv
<1>3. CASE a \notin work.participants[call.round]
  <2>1. /\ open' = open /\ disk' = disk
        /\ call' = [call EXCEPT !.left = @ \ {a}, !.current = {a}]
        /\ work' = [work EXCEPT !.participants[call.round] = @ \cup {a}]
    BY <1>0, <1>3, Inside DEF InsertParticipant
  <2>2. /\ call'.at = "participants" /\ call'.round = call.round
        /\ call'.participants = call.participants
        /\ call'.left = call.left \ {a} /\ call'.current = {a}
    BY <1>0, <1>1, <2>1 DEF SaveCalls
  <2>3. /\ work'.participants = [work.participants EXCEPT ![call.round] = @ \cup {a}]
        /\ work'.games = work.games /\ work'.closings = work.closings
        /\ work'.status = work.status
    BY <2>1 DEF IInv, TypeOK, Tables
  <2>4. /\ call.left \subseteq call.participants
        /\ work.participants
             = [disk.participants EXCEPT ![call.round] = call.participants \ call.left]
    BY <1>0 DEF IInv, Whole, Progress
  <2>5. (call.participants \ call.left) \cup {a} = call'.participants \ call'.left
    BY <1>0, <2>2, <2>4
  <2>6. work'.participants
          = [disk'.participants EXCEPT ![call'.round] = call'.participants \ call'.left]
    BY <1>1, <2>1, <2>2, <2>3, <2>4, <2>5 DEF IInv, TypeOK, Tables
  <2>7. call'.participants \ (call'.left \cup call'.current)
          = call.participants \ (call.left \cup call.current)
    BY <1>0, <2>2
  <2>8. Progress'
    BY <1>0, <2>1, <2>2, <2>3, <2>4, <2>6, <2>7 DEF Progress, IInv, Whole, Closed
  <2>9. Position'
    BY <1>1, <2>1, <2>2 DEF Position
  <2> QED BY <1>0, <2>1, <2>8, <2>9, Inside DEF Whole
<1> QED BY <1>2, <1>3

(* The current participant's totals grow by this round (SaveParticipant).  *)
LEMMA TotalsStep ==
  ASSUME IInv, NEW a \in Accounts, AddTotals(a)
  PROVE  Whole'
<1>0. call.at = "participants" /\ call.current = {a}
  BY DEF AddTotals
<1>1. open /\ call \in SaveCalls /\ call.round \in Rounds
  BY <1>0, Inside
<1>2. /\ open' = open /\ disk' = disk
      /\ call' = [call EXCEPT !.current = {}]
      /\ work' = [work EXCEPT !.games[a] = @ + 1]
  BY <1>0, Inside DEF AddTotals
<1>3. /\ call'.at = "participants" /\ call'.round = call.round
      /\ call'.participants = call.participants
      /\ call'.left = call.left /\ call'.current = {}
  BY <1>0, <1>1, <1>2 DEF SaveCalls
<1>4. /\ work'.games = [work.games EXCEPT ![a] = @ + 1]
      /\ work'.participants = work.participants /\ work'.closings = work.closings
      /\ work'.status = work.status
  BY <1>2 DEF IInv, TypeOK, Tables
<1>5. /\ a \in call.participants \ call.left
      /\ work.games = Counted(disk.games, call.participants \ (call.left \cup {a}))
      /\ disk.games \in [Accounts -> Nat]
  BY <1>0 DEF IInv, Whole, Progress, TypeOK, Tables
<1>6. work'.games = Counted(disk'.games, call'.participants \ (call'.left \cup call'.current))
  BY <1>2, <1>3, <1>4, <1>5 DEF Counted
<1>7. Progress'
  BY <1>0, <1>2, <1>3, <1>4, <1>6 DEF Progress, IInv, Whole, Closed
<1>8. Position'
  BY <1>1, <1>2, <1>3 DEF Position
<1> QED BY <1>0, <1>2, <1>7, <1>8, Inside DEF Whole

(* The row closes with its event, or the save returns                      *)
(* (match_persistence.c:236-269).                                          *)
LEMMA FinalizeStep ==
  ASSUME IInv, Finalize
  PROVE  Whole'
<1>0. call.at = "participants" /\ call.left = {} /\ call.current = {}
  BY DEF Finalize
<1>1. open /\ call \in SaveCalls /\ call.round \in Rounds
  BY <1>0, Inside
<1>2. CASE work.status[call.round] # "active"
  BY <1>2, Returns DEF Finalize, Fails, IInv
<1>3. CASE work.status[call.round] = "active"
  <2>1. /\ open' = open /\ disk' = disk /\ call' = [call EXCEPT !.at = "commit"]
        /\ work' = [ work EXCEPT !.status[call.round] = Outcome(call.interrupted),
                                 !.closings[call.round] = @ + 1 ]
    BY <1>0, <1>3, Inside DEF Finalize
  <2>2. /\ call'.at = "commit" /\ call'.round = call.round /\ call'.left = {}
        /\ call'.participants = call.participants /\ call'.current = {}
        /\ call'.interrupted = call.interrupted
    BY <1>0, <1>1, <2>1 DEF SaveCalls
  <2>3. /\ work'.participants = work.participants /\ work'.games = work.games
        /\ work'.status = [work.status EXCEPT ![call.round] = Outcome(call.interrupted)]
        /\ work'.closings = [work.closings EXCEPT ![call.round] = @ + 1]
    BY <2>1 DEF IInv, TypeOK, Tables
  <2>4. /\ work.status = [disk.status EXCEPT ![call.round] = "active"]
        /\ work.closings = disk.closings /\ disk.closings[call.round] = 0
    BY <1>0, <1>1 DEF IInv, Whole, Progress, TotalsMatchRounds
  <2>5. /\ work'.status = [disk.status EXCEPT ![call.round] = Outcome(call.interrupted)]
        /\ work'.closings = [disk.closings EXCEPT ![call.round] = 1]
    BY <1>1, <2>3, <2>4 DEF IInv, TypeOK, Tables
  <2>6. ~Closed(disk', call'.round)
    BY <1>0, <2>1, <2>2 DEF IInv, Whole, Progress, Closed
  <2>7. /\ work.participants = [disk.participants EXCEPT ![call.round] = call.participants \ {}]
        /\ work.games = Counted(disk.games, call.participants \ ({} \cup {}))
    BY <1>0 DEF IInv, Whole, Progress
  <2>8. /\ call'.left \subseteq call'.participants
        /\ call'.current \subseteq call'.participants \ call'.left
    BY <2>2
  <2>9. Progress'
    BY <2>1, <2>2, <2>3, <2>5, <2>6, <2>7, <2>8 DEF Progress
  <2>10. Position'
    BY <1>1, <2>1, <2>2 DEF Position
  <2> QED BY <1>0, <2>1, <2>9, <2>10, Inside DEF Whole
<1> QED BY <1>2, <1>3

(* What a COMMIT that succeeds adds to the disk: the round closed with its *)
(* participants, one round more for each of them, and one event.           *)
LEMMA CommitEffect ==
  ASSUME IInv, Commit, account # "reading"
  PROVE  /\ call \in SaveCalls /\ call.round \in Rounds /\ ~Closed(disk, call.round)
         /\ disk'.status = [disk.status EXCEPT ![call.round] = Outcome(call.interrupted)]
         /\ disk'.participants = [disk.participants EXCEPT ![call.round] = call.participants]
         /\ disk'.games = Counted(disk.games, call.participants)
         /\ disk'.closings = [disk.closings EXCEPT ![call.round] = 1]
         /\ call' = NoCall /\ work' = disk' /\ ~open'
<1>1. call.at = "commit" /\ disk' = work /\ work' = work /\ ~open' /\ call' = NoCall
  BY DEF Commit
<1>2. call \in SaveCalls /\ call.round \in Rounds
  BY <1>1, Inside
<1>3. call.participants \ {} = call.participants /\ {} \cup {} = {}
  OBVIOUS
<1> QED BY <1>1, <1>2, <1>3 DEF IInv, Whole, Progress

(* A COMMIT that succeeds keeps the totals equal to the rounds of each     *)
(* account: the closed round is new to each of its participants.           *)
LEMMA CommitTotals ==
  ASSUME IInv, Commit, account # "reading"
  PROVE  TotalsMatchRounds'
<1> DEFINE r == call.round
           P == call.participants
           Of(a) == {q \in Rounds : a \in disk.participants[q]}
           New(a) == {q \in Rounds : a \in disk'.participants[q]}
<1>1. /\ r \in Rounds /\ ~Closed(disk, r) /\ P \in SUBSET Accounts
      /\ call.interrupted \in BOOLEAN
      /\ disk'.status = [disk.status EXCEPT ![r] = Outcome(call.interrupted)]
      /\ disk'.participants = [disk.participants EXCEPT ![r] = P]
      /\ disk'.games = Counted(disk.games, P)
      /\ disk'.closings = [disk.closings EXCEPT ![r] = 1]
  BY CommitEffect DEF SaveCalls
<1>2. /\ disk.participants \in [Rounds -> SUBSET Accounts] /\ disk.games \in [Accounts -> Nat]
      /\ disk.closings \in [Rounds -> Nat]
      /\ disk.status \in [Rounds -> {"none", "active", "completed", "aborted"}]
  BY DEF IInv, TypeOK, Tables
<1>3. /\ \A a \in Accounts : disk.games[a] = Cardinality(Of(a))
      /\ \A q \in Rounds : /\ disk.participants[q] # {} => Closed(disk, q)
                           /\ disk.closings[q] = IF Closed(disk, q) THEN 1 ELSE 0
  BY DEF IInv, Whole, TotalsMatchRounds
<1>4. ASSUME NEW a \in Accounts
      PROVE  disk'.games[a] = Cardinality(New(a))
  <2>1. r \notin Of(a)
    BY <1>1, <1>3
  <2>2. CASE a \in P
    <3>1. New(a) = Of(a) \cup {r}
      BY <1>1, <1>2, <2>2
    <3>2. IsFiniteSet(Of(a))
      BY PersistenceParameters, FS_Subset
    <3>3. Cardinality(New(a)) = Cardinality(Of(a)) + 1
      BY <2>1, <3>1, <3>2, FS_AddElement
    <3>4. disk'.games[a] = disk.games[a] + 1
      BY <1>1, <2>2 DEF Counted
    <3> QED BY <1>3, <3>3, <3>4
  <2>3. CASE a \notin P
    <3>1. New(a) = Of(a)
      BY <1>1, <1>2, <2>1, <2>3
    <3>2. disk'.games[a] = disk.games[a]
      BY <1>1, <2>3 DEF Counted
    <3> QED BY <1>3, <3>1, <3>2
  <2> QED BY <2>2, <2>3
<1>5. ASSUME NEW q \in Rounds
      PROVE  /\ disk'.participants[q] # {} => Closed(disk', q)
             /\ disk'.closings[q] = IF Closed(disk', q) THEN 1 ELSE 0
  <2>1. CASE q = r
    BY <1>1, <1>2, <2>1 DEF Closed, Outcome
  <2>2. CASE q # r
    BY <1>1, <1>2, <1>3, <2>2 DEF Closed
  <2> QED BY <2>1, <2>2
<1> QED BY <1>4, <1>5 DEF TotalsMatchRounds

(* COMMIT closes the round on disk, or the save returns.                   *)
LEMMA CommitStep ==
  ASSUME IInv, Commit
  PROVE  Whole'
<1>1. CASE account = "reading"
  BY <1>1, Returns DEF Commit, Fails, IInv
<1>2. CASE account # "reading"
  <2>1. Position' /\ Progress'
    BY <1>2, CommitEffect DEF Position, Progress, NoCall
  <2> QED BY <1>2, <2>1, CommitTotals DEF Whole
<1> QED BY <1>1, <1>2

-----------------------------------------------------------------------------
(* The invariant of every behaviour *)

(* The tables are empty at the start and no save is under way (main).      *)
LEMMA WholeInit == Init => Whole
<1>1. \A a \in Accounts : {r \in Rounds : a \in EmptyTables.participants[r]} = {}
  BY DEF EmptyTables
<1>2. \A a \in Accounts : EmptyTables.games[a] = 0
  BY DEF EmptyTables
<1>3. Init => TotalsMatchRounds
  BY <1>1, <1>2, FS_EmptySet DEF Init, TotalsMatchRounds, Closed, EmptyTables
<1>4. Init => Position /\ Progress
  BY DEF Init, Position, Progress, NoCall
<1> QED BY <1>3, <1>4 DEF Whole

(* Every step of the server, of the account connection and of a crash      *)
(* keeps a save whole (match_persistence.c).                               *)
LEMMA InvariantStep ==
  ASSUME IInv, [Next]_vars
  PROVE  IInv'
<1>1. TypeOK'
  BY TypeStep DEF IInv
<1> SUFFICES Whole'
  BY <1>1 DEF IInv
<1>2. ASSUME NEW r \in Rounds, NEW ok \in BOOLEAN, BeginRound(r, ok)
      PROVE  Whole'
  BY <1>2, BeginStep
<1>3. ASSUME NEW r \in Rounds, NEW members \in SUBSET Accounts, NEW interrupted \in BOOLEAN,
             CallSave(r, members, interrupted)
      PROVE  Whole'
  BY <1>3, CallStep
<1>4. CASE Save
  <2>1. CASE BeginImmediate
    BY <2>1, ImmediateStep
  <2>2. CASE LookUp
    BY <2>2, LookUpStep
  <2>3. ASSUME NEW a \in Accounts, InsertParticipant(a)
        PROVE  Whole'
    BY <2>3, InsertStep
  <2>4. ASSUME NEW a \in Accounts, AddTotals(a)
        PROVE  Whole'
    BY <2>4, TotalsStep
  <2>5. CASE Finalize
    BY <2>5, FinalizeStep
  <2>6. CASE Commit
    BY <2>6, CommitStep
  <2>7. CASE StatementFails
    BY <2>7, Returns DEF StatementFails, Fails, IInv
  <2> QED BY <1>4, <2>1, <2>2, <2>3, <2>4, <2>5, <2>6, <2>7 DEF Save
<1>5. CASE AccountReads \/ AccountWrites \/ AccountDone \/ UNCHANGED vars
  <2>1. UNCHANGED <<disk, work, open, call>>
    BY <1>5 DEF AccountReads, AccountWrites, AccountDone, vars
  <2> QED BY <2>1 DEF IInv, Whole, TotalsMatchRounds, Closed, Position, Progress
<1>6. CASE Crash
  BY <1>6, Returns DEF Crash, IInv
<1> QED BY <1>2, <1>3, <1>4, <1>5, <1>6 DEF Next

(* How far the open transaction is from the tables on disk, at every       *)
(* moment of every behaviour (match_persistence.c).                        *)
THEOREM InvariantHolds == Spec => []IInv
<1>1. Init => IInv
  BY TypeInit, WholeInit DEF IInv
<1>2. IInv /\ [Next]_vars => IInv'
  BY InvariantStep
<1> QED BY <1>1, <1>2, PTL DEF Spec

(* The lifetime totals of each account count exactly the closed rounds it  *)
(* took part in, each closed by one event, whatever statement of a save    *)
(* fails and wherever the process dies (match_persistence.c:147-160,       *)
(* 198-274).                                                               *)
THEOREM TotalsAlwaysMatch == Spec => []TotalsMatchRounds
<1>1. IInv => TotalsMatchRounds
  BY DEF IInv, Whole
<1> QED BY InvariantHolds, <1>1, PTL

(* No return from a save leaves the main connection in a transaction       *)
(* (match_persistence.c:212, 270-279).                                     *)
THEOREM TransactionsEnd == Spec => []NoTransactionLeftOpen
<1>1. IInv => NoTransactionLeftOpen
  BY Outside DEF NoTransactionLeftOpen
<1> QED BY InvariantHolds, <1>1, PTL

-----------------------------------------------------------------------------
(* The statements implement the ledger *)

Asked ==
  IF call = NoCall THEN NoCall
  ELSE [ round |-> call.round, members |-> call.participants,
         outcome |-> Outcome(call.interrupted) ]

(* A request of the ledger is none exactly when no save is under way       *)
(* (ShroomMatchPersistenceSave).                                           *)
LEMMA AskedShape == Asked = NoCall <=> call = NoCall
<1>1. ASSUME NEW r, NEW members, NEW outcome
      PROVE  [round |-> r, members |-> members, outcome |-> outcome] # NoCall
  <2>1. "at" \notin DOMAIN [round |-> r, members |-> members, outcome |-> outcome]
    OBVIOUS
  <2>2. "at" \in DOMAIN NoCall
    BY DEF NoCall
  <2> QED BY <2>1, <2>2
<1> QED BY <1>1 DEF Asked

(* A save that returns without its COMMIT gives its request up.            *)
LEMMA GivesUp ==
  ASSUME disk' = disk, call' = NoCall
  PROVE  [Ledger!Next]_Ledger!vars
<1>1. Asked' = NoCall
  BY DEF Asked, NoCall
<1>2. CASE call = NoCall
  BY <1>1, <1>2 DEF Asked, Ledger!vars
<1>3. CASE call # NoCall
  <2>1. Ledger!GiveUp
    BY <1>1, <1>3, AskedShape DEF Ledger!GiveUp, Asked
  <2> QED BY <2>1 DEF Ledger!Next
<1> QED BY <1>2, <1>3

(* A statement inside a save leaves the ledger alone.                      *)
LEMMA Hidden ==
  ASSUME disk' = disk, UNCHANGED Asked
  PROVE  [Ledger!Next]_Ledger!vars
BY DEF Asked, Ledger!vars

(* Every step of the statements is a step of the ledger or none of its     *)
(* steps: the row of a round opens it, a call asks, the COMMIT closes, and *)
(* every other return gives up (match_persistence.c:183-280).              *)
LEMMA LedgerStep ==
  ASSUME IInv, [Next]_vars
  PROVE  [Ledger!Next]_Ledger!vars
<1>0. /\ call # NoCall => call \in SaveCalls
      /\ disk.status \in [Rounds -> {"none", "active", "completed", "aborted"}]
  BY CallShape DEF IInv, TypeOK, Tables
<1>1. ASSUME NEW r \in Rounds, NEW ok \in BOOLEAN, BeginRound(r, ok)
      PROVE  [Ledger!Next]_Ledger!vars
  <2>1. call' = call /\ work = disk /\ ~open
    BY <1>1, Outside DEF BeginRound
  <2>2. CASE ok
    <3>1. disk' = [disk EXCEPT !.status[r] = "active"] /\ disk.status[r] = "none"
      BY <1>1, <2>1, <2>2 DEF BeginRound, Write
    <3>2. /\ disk'.status = [disk.status EXCEPT ![r] = "active"]
          /\ disk'.participants = disk.participants /\ disk'.games = disk.games
      BY <3>1 DEF IInv, TypeOK, Tables
    <3>3. Ledger!Open(r)
      BY <2>1, <3>1, <3>2 DEF Ledger!Open
    <3> QED BY <3>3 DEF Ledger!Next
  <2>3. CASE ~ok
    BY <1>1, <2>1, <2>3, Hidden DEF BeginRound, Asked
  <2> QED BY <2>2, <2>3
<1>2. ASSUME NEW r \in Rounds, NEW members \in SUBSET Accounts, NEW interrupted \in BOOLEAN,
             CallSave(r, members, interrupted)
      PROVE  [Ledger!Next]_Ledger!vars
  <2>1. call = NoCall /\ call' # NoCall /\ disk' = disk
    BY <1>2, StartedShape DEF CallSave
  <2>2. /\ call'.round = r /\ call'.participants = members
        /\ call'.interrupted = interrupted
    BY <1>2 DEF CallSave, Started
  <2>3. Ledger!Request(r, members, Outcome(interrupted))
    BY <2>1, <2>2 DEF Ledger!Request
  <2>4. Outcome(interrupted) \in {"completed", "aborted"}
    BY DEF Outcome
  <2> QED BY <2>3, <2>4 DEF Ledger!Next
<1>3. ASSUME Fails
      PROVE  [Ledger!Next]_Ledger!vars
  BY <1>3, GivesUp DEF Fails
<1>4. ASSUME call # NoCall, call' # NoCall, disk' = disk, call'.round = call.round,
             call'.participants = call.participants, call'.interrupted = call.interrupted
      PROVE  [Ledger!Next]_Ledger!vars
  <2>1. Asked' = Asked
    BY <1>4 DEF Asked
  <2> QED BY <1>4, <2>1, Hidden
<1>5. ASSUME call \in SaveCalls, disk' = disk,
             \/ \E at \in {"lookup", "participants", "commit"} : call' = [call EXCEPT !.at = at]
             \/ \E left, current \in SUBSET Accounts :
                  call' = [call EXCEPT !.left = left, !.current = current]
             \/ call' = [call EXCEPT !.current = {}]
      PROVE  [Ledger!Next]_Ledger!vars
  <2>1. call' \in SaveCalls /\ call'.round = call.round /\ call'.interrupted = call.interrupted
        /\ call'.participants = call.participants
    BY <1>5 DEF SaveCalls
  <2>2. \A c \in SaveCalls : c # NoCall
    BY DEF SaveCalls, NoCall
  <2> QED BY <1>4, <1>5, <2>1, <2>2
<1>6. CASE BeginImmediate
  <2>1. call \in SaveCalls
    BY <1>0, <1>6 DEF BeginImmediate, NoCall
  <2>2. CASE account = "writing"
    BY <1>3, <1>6, <2>2 DEF BeginImmediate
  <2>3. CASE account # "writing"
    BY <1>5, <1>6, <2>1, <2>3 DEF BeginImmediate
  <2> QED BY <2>2, <2>3
<1>7. CASE LookUp
  BY <1>0, <1>3, <1>5, <1>7, Inside DEF LookUp
<1>8. ASSUME NEW a \in Accounts, InsertParticipant(a)
      PROVE  [Ledger!Next]_Ledger!vars
  <2>1. call \in SaveCalls /\ call.left \ {a} \in SUBSET Accounts /\ {a} \in SUBSET Accounts
    BY <1>8, Inside DEF InsertParticipant, SaveCalls
  <2> QED BY <1>3, <1>5, <1>8, <2>1, Inside DEF InsertParticipant
<1>9. ASSUME NEW a \in Accounts, AddTotals(a)
      PROVE  [Ledger!Next]_Ledger!vars
  BY <1>5, <1>9, Inside DEF AddTotals
<1>10. CASE Finalize
  BY <1>3, <1>5, <1>10, Inside DEF Finalize
<1>11. CASE Commit
  <2>1. CASE account = "reading"
    BY <1>3, <1>11, <2>1 DEF Commit
  <2>2. CASE account # "reading"
    <3>1. call # NoCall /\ Asked' = NoCall
      BY <1>11, <2>2, CommitEffect DEF Commit, NoCall, Asked
    <3>2. /\ Asked # NoCall /\ Asked.round = call.round /\ Asked.members = call.participants
          /\ Asked.outcome = Outcome(call.interrupted)
      BY <3>1, AskedShape DEF Asked
    <3>3. disk.status[call.round] \in {"none", "active"}
      BY <1>0, <1>11, <2>2, CommitEffect DEF Closed
    <3>4. Ledger!Close
      BY <1>11, <2>2, <3>1, <3>2, <3>3, CommitEffect DEF Ledger!Close, Asked, Counted
    <3> QED BY <3>4 DEF Ledger!Next
  <2> QED BY <2>1, <2>2
<1>12. CASE StatementFails
  BY <1>3, <1>12 DEF StatementFails
<1>13. CASE AccountReads \/ AccountWrites \/ AccountDone \/ UNCHANGED vars
  BY <1>13, Hidden DEF AccountReads, AccountWrites, AccountDone, vars, Asked
<1>14. CASE Crash
  BY <1>14, GivesUp DEF Crash
<1> QED
  BY <1>1, <1>2, <1>6, <1>7, <1>8, <1>9, <1>10, <1>11, <1>12, <1>13, <1>14 DEF Next, Save

(* A save closes its round with the participants it was given in a single  *)
(* step or leaves no trace: the statements implement RoundLedger           *)
(* (match_persistence.c:183-280).                                          *)
THEOREM RefinesLedger == Spec => ImplementsLedger
<1>1. Init => Ledger!Init
  BY DEF Init, EmptyTables, Ledger!Init
<1>2. IInv /\ [Next]_vars => [Ledger!Next]_Ledger!vars
  BY LedgerStep
<1> QED BY InvariantHolds, <1>1, <1>2, PTL DEF Spec, ImplementsLedger, Ledger!Spec

-----------------------------------------------------------------------------
(* The settings survive                                                    *)

(* The values of the settings, and what a file, the four files of a place  *)
(* and a save in progress can be.                                          *)
SettingsValues == [zoom : 0..MaxZoom, rest : 0..MaxRest]
FileContents == [kind : {"none", "torn", "older", "current"}, v : [zoom : Nat, rest : Nat]]
FileSlots == [main : FileContents, bak : FileContents, tmp : FileContents, baktmp : FileContents]
Nexts ==
  {"none", "menu", "move", "moved", "deferred", "flush", "leave", "quit", "settings", "name", "nothing"}
FileCalls == {"open", "write", "copy", "copying", "keep", "replace"}
SaveJobs ==
  [at : FileCalls \cup {"none"}, v : SettingsValues, place : {"config", "legacy"}, next : Nexts]

(* The files, the save and the history are of these kinds.                 *)
FilesShape ==
  /\ files \in [{"config", "legacy"} -> FileSlots] /\ job \in SaveJobs
  /\ stored \in Seq(SettingsValues) /\ Len(stored) <= 2
  /\ damaged \in {"none", "main", "bak"}

(* How far a save has come: what is written is in the temporary file until *)
(* it replaces the file, and before that the backup is the file itself, if *)
(* it parses; a save to the old place finds none in the new one.           *)
SaveProgress ==
  /\ screen = "off" => job.at = "none"
  /\ job.at \in {"copy", "copying", "keep", "replace"} => Settings!Now.tmp = Settings!Record("current", job.v)
  /\ job.at \in {"copy", "copying", "keep"} => Settings!Parses(Settings!Now.main)
  /\ Settings!At("keep") => Settings!Now.baktmp = Settings!Now.main
  /\ Settings!At("replace") /\ Settings!Parses(Settings!Now.main) => Settings!Now.bak = Settings!Now.main
  /\ job.at # "none" /\ job.place = "legacy" => ~Settings!Readable("config") /\ job.next # "moved"

(* The settings file of the client and its backup.                         *)
MainFile == files["config"]["main"]
BackupFile == files["config"]["bak"]

(* The value of the last save that succeeded is in the file, or in the     *)
(* file of the old place while the new one has none: what Found says of    *)
(* the value alone is not inductive, since it does not say which file it   *)
(* comes from.                                                             *)
LastIsThere ==
  stored # <<>> /\ damaged # "main" =>
    \/ Settings!Parses(MainFile) /\ Settings!Parsed(MainFile) = stored[1]
    \/ /\ ~Settings!Readable("config")
       /\ Settings!Parses(files["legacy"]["main"]) /\ Settings!Parsed(files["legacy"]["main"]) = stored[1]

(* The backup has the last value or the one before, so that a file damaged *)
(* afterwards is not the end of both.                                      *)
BackupIsThere ==
  /\ damaged = "main" => ~Settings!Parses(MainFile) /\ stored # <<>>
  /\ Len(stored) = 2 /\ (damaged = "main" \/ (damaged = "none" /\ Settings!Readable("config"))) =>
       Settings!Parses(BackupFile) /\ Settings!Parsed(BackupFile) \in {stored[1], stored[2]}

(* The inductive invariant.                                                *)
SettingsInvariant == FilesShape /\ SaveProgress /\ LastIsThere /\ BackupIsThere

(* The bounds are numbers.                                                 *)
LEMMA SettingsBounds == {MaxZoom, MaxRest} \subseteq Nat
BY SettingsAreBounded DEF Settings!SettingsParameters

(* Validating gives valid values and leaves those alone                    *)
(* (ClientSettingsValidate).                                               *)
LEMMA ValidValues ==
  /\ \A v : Settings!ClientSettingsValidate(v) \in SettingsValues
  /\ \A v \in SettingsValues : Settings!ClientSettingsValidate(v) = v
  /\ SettingsValues \subseteq [zoom : Nat, rest : Nat] /\ Settings!Defaults \in SettingsValues
BY SettingsBounds DEF Settings!ClientSettingsValidate, SettingsValues, Settings!Defaults

(* What the files are made of.                                             *)
LEMMA ContentFacts ==
  /\ Settings!Empty \in FileContents /\ Settings!Torn \in FileContents
  /\ \A v \in SettingsValues : Settings!Record("current", v) \in FileContents
BY SettingsBounds, ValidValues DEF Settings!Empty, Settings!Torn, Settings!Record, FileContents

(* A save that begins has opened nothing (ClientSettingsSaveToPath).       *)
LEMMA SaveBegins ==
  ASSUME NEW v, NEW place \in {"config", "legacy"},
         NEW next \in Nexts \ {"none"},
         Settings!ClientSettingsSaveToPath(v, place, next)
  PROVE  job' \in SaveJobs /\ job'.at = "open" /\ job'.place = place /\ job'.next = next
BY ValidValues DEF Settings!ClientSettingsSaveToPath, SaveJobs, FileCalls, Nexts

(* No save in progress.                                                    *)
LEMMA NoSave == Settings!NoJob \in SaveJobs /\ Settings!NoJob.at = "none" /\ Settings!NoJob.place = "config"
BY ValidValues DEF Settings!NoJob, SaveJobs, Nexts

(* The caller of a save that returned is done or begins the next one, in   *)
(* the new place.                                                          *)
LEMMA SaveReturns ==
  ASSUME NEW ok, Settings!Return(ok), screen # "off"
  PROVE  /\ job' \in SaveJobs /\ job'.at \in {"none", "open"} /\ job'.place = "config"
         /\ (screen' = "off" => job'.at = "none")
<1>1. CASE job.next = "move"
  <2>1. Settings!ClientSettingsSaveToPath(mem, "config", "moved")
    BY <1>1 DEF Settings!Return
  <2>2. screen' = screen
    BY <1>1 DEF Settings!Return
  <2> QED BY <2>1, <2>2, SaveBegins DEF Nexts
<1>2. CASE job.next = "flush"
  <2>1. Settings!ClientSettingsSaveToPath(session, "config", "settings")
    BY <1>2 DEF Settings!Return
  <2>2. screen' = screen
    BY <1>2 DEF Settings!Return
  <2> QED BY <2>1, <2>2, SaveBegins DEF Nexts
<1>3. CASE job.next # "move" /\ job.next # "flush"
  BY <1>3, NoSave DEF Settings!Return
<1> QED BY <1>1, <1>2, <1>3

(* The files themselves and their backups stay.                            *)
FilesStay ==
  /\ files' \in [{"config", "legacy"} -> FileSlots]
  /\ \A place \in {"config", "legacy"} :
       files'[place]["main"] = files[place]["main"] /\ files'[place]["bak"] = files[place]["bak"]
  /\ stored' = stored /\ damaged' = damaged

(* Then the values are where they were.                                    *)
LEMMA StillThere ==
  ASSUME LastIsThere, BackupIsThere, FilesStay
  PROVE  LastIsThere' /\ BackupIsThere'
<1>1. /\ MainFile' = MainFile /\ BackupFile' = BackupFile
      /\ files'["legacy"]["main"] = files["legacy"]["main"]
      /\ Settings!Readable("config")' = Settings!Readable("config") /\ stored' = stored
      /\ damaged' = damaged
  BY DEF FilesStay, MainFile, BackupFile, Settings!Readable
<1> QED BY <1>1 DEF LastIsThere, BackupIsThere

(* Between two saves, and at the beginning of one, nothing is lost.        *)
LEMMA NothingMoves ==
  ASSUME SettingsInvariant, FilesStay, job' \in SaveJobs, job'.at \in {"none", "open"},
         screen' = "off" => job'.at = "none",
         job'.at = "open" /\ job'.place = "legacy" => ~Settings!Readable("config") /\ job'.next # "moved"
  PROVE  SettingsInvariant'
<1>1. FilesShape'
  BY DEF SettingsInvariant, FilesShape, FilesStay
<1>2. Settings!Readable("config")' = Settings!Readable("config")
  BY DEF FilesStay, Settings!Readable
<1>3. SaveProgress'
  BY <1>2 DEF SaveProgress, Settings!At
<1> QED BY <1>1, <1>3, StillThere DEF SettingsInvariant

(* A call changes the files of one place.                                  *)
LEMMA PutFacts ==
  ASSUME FilesShape, NEW c \in FileSlots, Settings!Put(c)
  PROVE  /\ files' \in [{"config", "legacy"} -> FileSlots] /\ files'[job.place] = c
         /\ \A place \in {"config", "legacy"} : place # job.place => files'[place] = files[place]
BY DEF FilesShape, Settings!Put, SaveJobs

(* The files of the save in progress.                                      *)
LEMMA NowFacts ==
  ASSUME FilesShape
  PROVE  /\ Settings!Now \in FileSlots /\ job.place \in {"config", "legacy"} /\ job.v \in SettingsValues
         /\ Settings!Now = files[job.place]
BY DEF FilesShape, SaveJobs, Settings!Now

(* A call that changes temporary files only.                               *)
LEMMA FilesAside ==
  ASSUME FilesShape, NEW c \in FileSlots, Settings!Put(c), c.main = Settings!Now.main,
         c.bak = Settings!Now.bak, stored' = stored, damaged' = damaged
  PROVE  FilesStay /\ files'[job.place] = c
BY PutFacts, NowFacts DEF FilesStay

(* A call that fails removes the temporary files and returns               *)
(* (ClientSettingsSaveToPath).                                             *)
LEMMA SaveFails ==
  ASSUME SettingsInvariant, Settings!Fails, Settings!Return(FALSE), job.at # "none", stored' = stored,
         damaged' = damaged
  PROVE  SettingsInvariant'
<1>1. PICK b : b = IF Settings!At("open") \/ Settings!At("write") THEN Settings!Now.baktmp ELSE Settings!Empty
  OBVIOUS
<1>2. b \in FileContents /\ Settings!Empty \in FileContents
  BY <1>1, NowFacts, ContentFacts DEF SettingsInvariant, FileSlots
<1>3. Settings!Put([Settings!Now EXCEPT !.tmp = Settings!Empty, !.baktmp = b])
  BY <1>1 DEF Settings!Fails
<1>6. PICK c : c = [Settings!Now EXCEPT !.tmp = Settings!Empty, !.baktmp = b]
  OBVIOUS
<1>7. c \in FileSlots /\ c.main = Settings!Now.main /\ c.bak = Settings!Now.bak
  BY <1>2, <1>6, NowFacts DEF SettingsInvariant, FileSlots
<1>4. FilesStay
  BY <1>3, <1>6, <1>7, FilesAside DEF SettingsInvariant
<1>5. screen # "off"
  BY DEF SettingsInvariant, SaveProgress
<1> QED BY <1>4, <1>5, SaveReturns, NothingMoves

(* A call that succeeds on temporary files goes on to the next one.        *)
LEMMA SaveGoesOn ==
  ASSUME SettingsInvariant, FilesStay, NEW step \in FileCalls, Settings!Continue(step), Settings!GoOn,
         job.at # "none",
         step \in {"copy", "copying", "keep", "replace"} =>
           files'[job.place]["tmp"] = Settings!Record("current", job.v),
         step \in {"copy", "copying", "keep"} => Settings!Parses(Settings!Now.main),
         step = "keep" => files'[job.place]["baktmp"] = Settings!Now.main,
         step = "replace" => ~Settings!Parses(Settings!Now.main)
  PROVE  SettingsInvariant'
<1>1. PICK j : j = [job EXCEPT !.at = step]
  OBVIOUS
<1>2. /\ job' = j /\ screen' = screen /\ j \in SaveJobs /\ j.at = step /\ j.v = job.v
      /\ j.place = job.place
      /\ j.next = job.next
  BY <1>1 DEF Settings!Continue, Settings!GoOn, SettingsInvariant, FilesShape, SaveJobs
<1>3. FilesShape'
  BY <1>2 DEF SettingsInvariant, FilesShape, FilesStay
<1>4. /\ Settings!Now' = files'[job.place] /\ files'[job.place]["main"] = Settings!Now.main
      /\ files'[job.place]["bak"] = Settings!Now.bak
      /\ Settings!Readable("config")' = Settings!Readable("config")
  BY <1>2, NowFacts DEF SettingsInvariant, Settings!Now, FilesStay, Settings!Readable
<1>5. screen # "off"
  BY DEF SettingsInvariant, SaveProgress
<1>6. SaveProgress'
  BY <1>2, <1>4, <1>5 DEF SettingsInvariant, SaveProgress, Settings!At
<1> QED BY <1>3, <1>6, StillThere DEF SettingsInvariant

(* Writing the temporary file, reading it again and copying the file touch *)
(* neither the file nor its backup (WriteSettingsFile, CopyFileContents).  *)
LEMMA WritingStep ==
  ASSUME SettingsInvariant, NEW ok \in BOOLEAN,
         \/ Settings!OpenTemporary(ok) \/ Settings!WriteTemporary(ok)
         \/ Settings!OpenCopy(ok) \/ Settings!WriteCopy(ok)
  PROVE  SettingsInvariant'
<1>0. /\ FilesShape /\ SaveProgress /\ Settings!Now \in FileSlots /\ job.v \in SettingsValues
      /\ Settings!Record("current", job.v) \in FileContents /\ Settings!Torn \in FileContents
  BY NowFacts, ContentFacts DEF SettingsInvariant
<1>1. CASE ~ok
  <2>1. /\ Settings!Fails /\ Settings!Return(FALSE) /\ stored' = stored /\ damaged' = damaged
        /\ job.at # "none"
    BY <1>1
      DEF Settings!OpenTemporary, Settings!WriteTemporary, Settings!OpenCopy, Settings!WriteCopy,
          Settings!At
  <2> QED BY <2>1, SaveFails
<1>2. CASE ok /\ Settings!OpenTemporary(ok)
  <2>1. PICK c : c = [Settings!Now EXCEPT !.tmp = Settings!Torn]
    OBVIOUS
  <2>2. /\ Settings!Put(c) /\ Settings!At("open") /\ Settings!Continue("write") /\ Settings!GoOn
        /\ stored' = stored /\ damaged' = damaged
    BY <1>2, <2>1 DEF Settings!OpenTemporary
  <2>3. c \in FileSlots /\ c.main = Settings!Now.main /\ c.bak = Settings!Now.bak
    BY <1>0, <2>1 DEF FileSlots
  <2>4. FilesStay
    BY <1>0, <2>2, <2>3, FilesAside
  <2> QED BY <2>2, <2>4, SaveGoesOn DEF Settings!At, FileCalls
<1>3. CASE ok /\ Settings!WriteTemporary(ok)
  <2>1. PICK c : c = [Settings!Now EXCEPT !.tmp = Settings!Record("current", job.v)]
    OBVIOUS
  <2>5. PICK step : step = IF Settings!Parses(Settings!Now.main) THEN "copy" ELSE "replace"
    OBVIOUS
  <2>2. /\ Settings!Put(c) /\ Settings!At("write") /\ Settings!Continue(step) /\ Settings!GoOn
        /\ stored' = stored /\ damaged' = damaged
    BY <1>3, <2>1, <2>5 DEF Settings!WriteTemporary
  <2>3. /\ c \in FileSlots /\ c.main = Settings!Now.main /\ c.bak = Settings!Now.bak
        /\ c.tmp = Settings!Record("current", job.v)
    BY <1>0, <2>1 DEF FileSlots
  <2>4. FilesStay /\ files'[job.place]["tmp"] = Settings!Record("current", job.v)
    BY <1>0, <2>2, <2>3, FilesAside
  <2>6. step \in FileCalls /\ step # "keep" /\ job.at # "none"
    BY <2>2, <2>5 DEF FileCalls, Settings!At
  <2> QED BY <2>2, <2>4, <2>5, <2>6, SaveGoesOn
<1>4. CASE ok /\ Settings!OpenCopy(ok)
  <2>1. PICK c : c = [Settings!Now EXCEPT !.baktmp = Settings!Torn]
    OBVIOUS
  <2>2. /\ Settings!Put(c) /\ Settings!At("copy") /\ Settings!Continue("copying") /\ Settings!GoOn
        /\ stored' = stored /\ damaged' = damaged
    BY <1>4, <2>1 DEF Settings!OpenCopy
  <2>3. /\ c \in FileSlots /\ c.main = Settings!Now.main /\ c.bak = Settings!Now.bak
        /\ c.tmp = Settings!Now.tmp
    BY <1>0, <2>1 DEF FileSlots
  <2>4. /\ FilesStay /\ files'[job.place]["tmp"] = Settings!Record("current", job.v)
        /\ Settings!Parses(Settings!Now.main)
    BY <1>0, <2>2, <2>3, FilesAside DEF SaveProgress, Settings!At
  <2> QED BY <2>2, <2>4, SaveGoesOn DEF Settings!At, FileCalls
<1>5. CASE ok /\ Settings!WriteCopy(ok)
  <2>1. PICK c : c = [Settings!Now EXCEPT !.baktmp = Settings!Now.main]
    OBVIOUS
  <2>2. /\ Settings!Put(c) /\ Settings!At("copying") /\ Settings!Continue("keep") /\ Settings!GoOn
        /\ stored' = stored /\ damaged' = damaged
    BY <1>5, <2>1 DEF Settings!WriteCopy
  <2>3. /\ c \in FileSlots /\ c.main = Settings!Now.main /\ c.bak = Settings!Now.bak
        /\ c.tmp = Settings!Now.tmp /\ c.baktmp = Settings!Now.main
    BY <1>0, <2>1 DEF FileSlots
  <2>4. /\ FilesStay /\ files'[job.place]["tmp"] = Settings!Record("current", job.v)
        /\ Settings!Parses(Settings!Now.main)
        /\ files'[job.place]["baktmp"] = Settings!Now.main
    BY <1>0, <2>2, <2>3, FilesAside DEF SaveProgress, Settings!At
  <2> QED BY <2>2, <2>4, SaveGoesOn DEF Settings!At, FileCalls
<1> QED BY <1>1, <1>2, <1>3, <1>4, <1>5

(* The backup is replaced by a copy of a file that parses and holds the    *)
(* last value (ReplaceSettingsFile).                                       *)
LEMMA BackupStep ==
  ASSUME SettingsInvariant, NEW ok \in BOOLEAN, Settings!KeepBackup(ok)
  PROVE  SettingsInvariant'
<1>0. /\ FilesShape /\ SaveProgress /\ Settings!Now \in FileSlots /\ Settings!Empty \in FileContents
      /\ job.place \in {"config", "legacy"}
  BY NowFacts, ContentFacts DEF SettingsInvariant
<1>1. CASE ~ok
  <2>1. /\ Settings!Fails /\ Settings!Return(FALSE) /\ stored' = stored /\ damaged' = damaged
        /\ job.at # "none"
    BY <1>1 DEF Settings!KeepBackup, Settings!At
  <2> QED BY <2>1, SaveFails
<1>2. CASE ok
  <2>1. PICK c : c = [Settings!Now EXCEPT !.bak = Settings!Now.baktmp, !.baktmp = Settings!Empty]
    OBVIOUS
  <2>2. /\ Settings!Put(c) /\ Settings!At("keep") /\ Settings!Continue("replace") /\ Settings!GoOn
        /\ stored' = stored /\ damaged' = damaged
    BY <1>2, <2>1 DEF Settings!KeepBackup
  <2>3. /\ Settings!Now.baktmp = Settings!Now.main /\ Settings!Parses(Settings!Now.main)
        /\ Settings!Now.tmp = Settings!Record("current", job.v)
        /\ screen # "off" /\ (job.place = "legacy" => ~Settings!Readable("config") /\ job.next # "moved")
    BY <1>0, <2>2 DEF SaveProgress, Settings!At
  <2>4. /\ c \in FileSlots /\ c.main = Settings!Now.main /\ c.bak = Settings!Now.main
        /\ c.tmp = Settings!Now.tmp
    BY <1>0, <2>1, <2>3 DEF FileSlots
  <2>5. /\ files' \in [{"config", "legacy"} -> FileSlots] /\ files'[job.place] = c
        /\ \A place \in {"config", "legacy"} : place # job.place => files'[place] = files[place]
    BY <1>0, <2>2, <2>4, PutFacts
  <2>6. PICK j : j = [job EXCEPT !.at = "replace"]
    OBVIOUS
  <2>7. /\ job' = j /\ screen' = screen /\ j \in SaveJobs /\ j.at = "replace" /\ j.v = job.v
        /\ j.place = job.place
        /\ j.next = job.next
    BY <1>0, <2>2, <2>6 DEF Settings!Continue, Settings!GoOn, FilesShape, SaveJobs, FileCalls
  <2>8. FilesShape'
    BY <1>0, <2>2, <2>5, <2>7 DEF FilesShape
  <2>9. Settings!Now' = c
    BY <2>5, <2>7 DEF Settings!Now
  <2>10. /\ \A place \in {"config", "legacy"} : files'[place]["main"] = files[place]["main"]
         /\ Settings!Readable("config")' = Settings!Readable("config")
    BY <1>0, <2>3, <2>4, <2>5 DEF Settings!Readable, Settings!Now
  <2>11. SaveProgress'
    BY <2>3, <2>4, <2>7, <2>9, <2>10 DEF SaveProgress, Settings!At
  <2>12. LastIsThere'
    BY <2>2, <2>10 DEF SettingsInvariant, LastIsThere, MainFile
  <2>13. BackupIsThere'
    <3>1. CASE job.place = "legacy"
      <4>1. MainFile' = MainFile /\ BackupFile' = BackupFile
        BY <2>5, <2>10, <3>1 DEF MainFile, BackupFile
      <4> QED BY <2>2, <2>10, <4>1 DEF SettingsInvariant, BackupIsThere
    <3>2. CASE job.place = "config"
      <4>1. MainFile' = MainFile /\ BackupFile' = MainFile /\ Settings!Parses(MainFile)
        BY <2>3, <2>4, <2>5, <2>10, <3>2 DEF MainFile, BackupFile, Settings!Now
      <4>2. damaged # "main" /\ Settings!Readable("config")
        BY <4>1 DEF SettingsInvariant, BackupIsThere, MainFile, Settings!Readable
      <4>3. stored # <<>> => Settings!Parsed(MainFile) = stored[1]
        BY <4>2 DEF SettingsInvariant, LastIsThere
      <4>4. Len(stored) = 2 => stored # <<>>
        <5>1. Len(<<>>) = 0
          OBVIOUS
        <5> QED BY <5>1
      <4> QED BY <2>2, <4>1, <4>2, <4>3, <4>4 DEF BackupIsThere
    <3> QED BY <1>0, <3>1, <3>2
  <2> QED BY <2>8, <2>11, <2>12, <2>13 DEF SettingsInvariant
<1> QED BY <1>1, <1>2

(* The file is replaced at once: from then on it holds the new value, and  *)
(* the backup what a start found before (ReplaceSettingsFile,              *)
(* ClientSettingsLoad).                                                    *)
LEMMA ReplacingStep ==
  ASSUME SettingsInvariant, NEW ok \in BOOLEAN, Settings!ReplaceFile(ok)
  PROVE  SettingsInvariant'
<1>0. /\ FilesShape /\ SaveProgress /\ Settings!Now \in FileSlots /\ Settings!Empty \in FileContents
      /\ job.place \in {"config", "legacy"} /\ Settings!At("replace")
      /\ job.v \in SettingsValues /\ Settings!Return(ok) /\ screen # "off"
      /\ Settings!Now.tmp = Settings!Record("current", job.v)
      /\ Settings!Now = files[job.place]
  BY NowFacts, ContentFacts DEF SettingsInvariant, Settings!ReplaceFile, SaveProgress, Settings!At
<1>1. CASE ~ok
  <2>1. PICK c : c = [Settings!Now EXCEPT !.tmp = Settings!Empty]
    OBVIOUS
  <2>2. Settings!Put(c) /\ stored' = stored /\ damaged' = damaged
    BY <1>1, <2>1 DEF Settings!ReplaceFile
  <2>3. c \in FileSlots /\ c.main = Settings!Now.main /\ c.bak = Settings!Now.bak
    BY <1>0, <2>1 DEF FileSlots
  <2>4. FilesStay
    BY <1>0, <2>2, <2>3, FilesAside
  <2> QED BY <1>0, <2>4, SaveReturns, NothingMoves
<1>2. CASE ok
  <2>1. PICK placed :
          placed = [files EXCEPT ![job.place].main = Settings!Now.tmp, ![job.place].tmp = Settings!Empty]
    OBVIOUS
  <2>2. PICK before :
          before = IF Settings!Readable(job.place) THEN <<Settings!LoadFromPath(job.place)>> ELSE <<>>
    OBVIOUS
  <2>3. /\ files' = IF job.next = "moved" THEN [placed EXCEPT !["legacy"].main = Settings!Empty] ELSE placed
        /\ stored' = <<job.v>> \o before /\ damaged' = "none"
    BY <1>2, <2>1, <2>2 DEF Settings!ReplaceFile
  <2>4. /\ placed \in [{"config", "legacy"} -> FileSlots]
        /\ placed[job.place].main = Settings!Now.tmp /\ placed[job.place].bak = Settings!Now.bak
        /\ \A place \in {"config", "legacy"} : place # job.place => placed[place] = files[place]
    BY <1>0, <2>1 DEF FilesShape, FileSlots
  <2>5. /\ files' \in [{"config", "legacy"} -> FileSlots] /\ files'["config"] = placed["config"]
        /\ job.next # "moved" => files' = placed
    BY <1>0, <2>3, <2>4 DEF FileSlots
  <2>6. /\ Settings!LoadFromPath(job.place) \in SettingsValues
        /\ Settings!Parsed(Settings!Now.tmp) = job.v /\ Settings!Parses(Settings!Now.tmp)
    BY <1>0, ValidValues DEF Settings!LoadFromPath, Settings!Parsed, Settings!Parses, Settings!Record
  <2>7. /\ stored' \in Seq(SettingsValues) /\ stored'[1] = job.v
        /\ Len(stored') = IF Settings!Readable(job.place) THEN 2 ELSE 1
        /\ Settings!Readable(job.place) => stored'[2] = Settings!LoadFromPath(job.place)
    BY <1>0, <2>2, <2>3, <2>6
  <2>8. /\ job' \in SaveJobs /\ job'.at \in {"none", "open"} /\ job'.place = "config"
        /\ screen' = "off" => job'.at = "none"
    BY <1>0, SaveReturns
  <2>9. FilesShape'
    BY <2>3, <2>5, <2>7, <2>8 DEF FilesShape
  <2>10. SaveProgress'
    BY <2>8 DEF SaveProgress, Settings!At
  <2>11. CASE job.place = "config"
    <3>1. MainFile' = Settings!Now.tmp /\ BackupFile' = Settings!Now.bak
      BY <2>4, <2>5, <2>11 DEF MainFile, BackupFile
    <3>2. LastIsThere'
      BY <2>6, <2>7, <3>1 DEF LastIsThere
    <3>3. Len(stored') = 2 => /\ Settings!Parses(Settings!Now.bak)
                              /\ Settings!Parsed(Settings!Now.bak) = stored'[2]
      <4>1. CASE Settings!Parses(Settings!Now.main)
        <5>1. /\ Settings!Now.bak = Settings!Now.main
              /\ Settings!LoadFromPath(job.place) = Settings!Parsed(Settings!Now.main)
              /\ Settings!Readable(job.place)
          BY <1>0, <4>1 DEF SaveProgress, Settings!LoadFromPath, Settings!Readable
        <5> QED BY <2>7, <4>1, <5>1
      <4>2. CASE ~Settings!Parses(Settings!Now.main)
        <5>1. /\ Settings!LoadFromPath(job.place) = Settings!Parsed(Settings!Now.bak)
              /\ (Settings!Readable(job.place) => Settings!Parses(Settings!Now.bak))
          BY <1>0, <4>2 DEF Settings!LoadFromPath, Settings!Readable
        <5> QED BY <2>7, <5>1
      <4> QED BY <4>1, <4>2
    <3>4. BackupIsThere'
      BY <2>3, <3>1, <3>3 DEF BackupIsThere
    <3> QED BY <2>9, <2>10, <3>2, <3>4 DEF SettingsInvariant
  <2>12. CASE job.place = "legacy"
    <3>1. ~Settings!Readable("config") /\ job.next # "moved"
      BY <1>0, <2>12 DEF SaveProgress, Settings!At
    <3>2. files'["config"] = files["config"] /\ files'["legacy"]["main"] = Settings!Now.tmp
      BY <2>4, <2>5, <2>12, <3>1
    <3>3. ~Settings!Readable("config")'
      BY <3>1, <3>2 DEF Settings!Readable
    <3>4. LastIsThere'
      BY <2>6, <2>7, <3>2, <3>3 DEF LastIsThere
    <3>5. BackupIsThere'
      BY <2>3, <3>3 DEF BackupIsThere
    <3> QED BY <2>9, <2>10, <3>4, <3>5 DEF SettingsInvariant
  <2> QED BY <1>0, <2>11, <2>12
<1> QED BY <1>1, <1>2

(* A file damaged while the game is away leaves the other one.             *)
LEMMA DamageStep ==
  ASSUME SettingsInvariant, NEW kind \in {"main", "bak"}, Settings!Damage(kind)
  PROVE  SettingsInvariant'
<1>0. FilesShape /\ job.at = "none" /\ Settings!Torn \in FileContents
  BY ContentFacts DEF SettingsInvariant, SaveProgress, Settings!Damage
<1>1. /\ damaged = "none" /\ stored # <<>> /\ Settings!Parses(files["config"][kind]) /\ damaged' = kind
      /\ files' = [files EXCEPT !["config"][kind] = Settings!Torn]
      /\ job' = job /\ screen' = screen /\ stored' = stored
  BY DEF Settings!Damage
<1>2. /\ files' \in [{"config", "legacy"} -> FileSlots] /\ files'["legacy"] = files["legacy"]
      /\ kind = "main" => MainFile' = Settings!Torn /\ BackupFile' = BackupFile
      /\ kind = "bak" => MainFile' = MainFile /\ BackupFile' = Settings!Torn
  BY <1>0, <1>1 DEF FilesShape, FileSlots, MainFile, BackupFile
<1>3. FilesShape'
  BY <1>0, <1>1, <1>2 DEF FilesShape
<1>4. SaveProgress'
  BY <1>0, <1>1 DEF SaveProgress, Settings!At
<1>5. Settings!Readable("config")
  BY <1>1 DEF Settings!Readable
<1>6. Settings!Parses(MainFile) /\ Settings!Parsed(MainFile) = stored[1]
  BY <1>1, <1>5 DEF SettingsInvariant, LastIsThere
<1>7. ~Settings!Parses(Settings!Torn)
  BY DEF Settings!Parses, Settings!Torn
<1>8. LastIsThere'
  BY <1>1, <1>2, <1>6 DEF LastIsThere
<1>9. BackupIsThere'
  BY <1>1, <1>2, <1>5, <1>7 DEF SettingsInvariant, BackupIsThere
<1> QED BY <1>3, <1>4, <1>8, <1>9 DEF SettingsInvariant

(* An action of the player waits for the save in progress and at most      *)
(* begins one.                                                             *)
LEMMA SaveWaits ==
  ASSUME SettingsInvariant, Settings!Idle \/ job.at = "none", UNCHANGED <<files, stored, damaged>>,
         \/ UNCHANGED job
         \/ screen' # "off" /\ job' \in SaveJobs /\ job'.at = "open" /\ job'.place = "config"
         \/ /\ screen' # "off" /\ job' \in SaveJobs /\ job'.at = "open"
            /\ ~Settings!Readable("config") /\ job'.next # "moved"
         \/ job' = Settings!NoJob
  PROVE  SettingsInvariant'
<1>1. FilesStay /\ job \in SaveJobs /\ job.at = "none"
  BY NoSave DEF SettingsInvariant, FilesShape, FilesStay, Settings!Idle
<1> QED BY <1>1, NoSave, NothingMoves

(* What the player does, and a start of the game (ClientSettingsLoad,      *)
(* ShroomSettingsDeferredUpdate, ShroomSettingsSessionSave).               *)
LEMMA SettingsPlayerStep ==
  ASSUME SettingsInvariant,
         \/ Settings!Start \/ Settings!CommitPlayerName \/ Settings!EnterGame \/ Settings!Zoom
         \/ Settings!ChangeAndSave \/ Settings!UpdateDeferred \/ Settings!Tick
         \/ \E next \in {"leave", "quit"} : Settings!Leave(next)
         \/ Settings!QuitUnflushed \/ Settings!OpenSettings \/ Settings!EditSettings
         \/ Settings!SaveSettings \/ Settings!DiscardSettings
  PROVE  SettingsInvariant'
<1>1. CASE Settings!Start
  <2>1. job.at = "none" /\ UNCHANGED <<files, stored, damaged>>
    BY <1>1 DEF SettingsInvariant, SaveProgress, Settings!Start
  <2>2. CASE Settings!Readable("config") /\ Settings!SavedAgain("config")
    <3>1. screen' = "loading" /\ Settings!ClientSettingsSaveToPath(Settings!Found, "config", "menu")
      BY <1>1, <2>2 DEF Settings!Start
    <3> QED BY <2>1, <3>1, SaveBegins, SaveWaits DEF Nexts
  <2>3. CASE ~Settings!Readable("config") /\ Settings!Readable("legacy") /\ Settings!SavedAgain("legacy")
    <3>1. screen' = "loading" /\ Settings!ClientSettingsSaveToPath(Settings!Found, "legacy", "move")
      BY <1>1, <2>3 DEF Settings!Start
    <3> QED BY <2>1, <2>3, <3>1, SaveBegins, SaveWaits DEF Nexts
  <2>4. CASE /\ ~Settings!Readable("config") /\ Settings!Readable("legacy")
             /\ ~Settings!SavedAgain("legacy")
    <3>1. screen' = "loading" /\ Settings!ClientSettingsSaveToPath(Settings!Found, "config", "moved")
      BY <1>1, <2>4 DEF Settings!Start
    <3> QED BY <2>1, <3>1, SaveBegins, SaveWaits DEF Nexts
  <2>5. CASE /\ ~(Settings!Readable("config") /\ Settings!SavedAgain("config"))
             /\ ~(~Settings!Readable("config") /\ Settings!Readable("legacy"))
    <3>1. UNCHANGED job
      BY <1>1, <2>5 DEF Settings!Start
    <3> QED BY <2>1, <3>1, SaveWaits
  <2> QED BY <2>2, <2>3, <2>4, <2>5
<1>2. CASE \/ Settings!EnterGame \/ Settings!Zoom \/ Settings!Tick \/ Settings!QuitUnflushed
           \/ Settings!OpenSettings \/ Settings!EditSettings \/ Settings!DiscardSettings
  <2>1. Settings!Idle /\ UNCHANGED <<files, stored, damaged, job>>
    BY <1>2
      DEF Settings!EnterGame, Settings!Zoom, Settings!Tick, Settings!QuitUnflushed,
          Settings!OpenSettings, Settings!EditSettings, Settings!DiscardSettings, Settings!Files
  <2> QED BY <2>1, SaveWaits
<1>3. CASE Settings!CommitPlayerName
  <2>1. Settings!Idle /\ UNCHANGED <<files, stored, damaged>> /\ screen' # "off"
    BY <1>3 DEF Settings!CommitPlayerName, Settings!Files
  <2>2. Settings!ClientSettingsSaveToPath([mem EXCEPT !.rest = 1], "config", "name")
    BY <1>3 DEF Settings!CommitPlayerName
  <2> QED BY <2>1, <2>2, SaveBegins, SaveWaits DEF Nexts
<1>4. CASE Settings!ChangeAndSave
  <2>1. Settings!Idle /\ UNCHANGED <<files, stored, damaged>> /\ screen' # "off"
    BY <1>4 DEF Settings!ChangeAndSave, Settings!Files
  <2>2. Settings!ClientSettingsSaveToPath(mem', "config", "nothing")
    BY <1>4 DEF Settings!ChangeAndSave
  <2>3. PICK v : v = mem'
    OBVIOUS
  <2>4. Settings!ClientSettingsSaveToPath(v, "config", "nothing")
    BY <2>2, <2>3
  <2> QED BY <2>1, <2>4, SaveBegins, SaveWaits DEF Nexts
<1>5. CASE Settings!UpdateDeferred
  <2>1. Settings!Idle /\ UNCHANGED <<files, stored, damaged>> /\ screen' # "off"
    BY <1>5 DEF Settings!UpdateDeferred, Settings!Files
  <2>2. Settings!ClientSettingsSaveToPath(deferred.pending, "config", "deferred")
    BY <1>5 DEF Settings!UpdateDeferred
  <2> QED BY <2>1, <2>2, SaveBegins, SaveWaits DEF Nexts
<1>6. ASSUME NEW next \in {"leave", "quit"}, Settings!Leave(next) PROVE SettingsInvariant'
  <2>1. Settings!Idle /\ UNCHANGED <<files, stored, damaged>>
    BY <1>6 DEF Settings!Leave, Settings!Files
  <2>2. \/ UNCHANGED job
        \/ (screen' # "off" /\ Settings!ClientSettingsSaveToPath(deferred.pending, "config", next))
    BY <1>6 DEF Settings!Leave
  <2> QED BY <2>1, <2>2, SaveBegins, SaveWaits DEF Nexts
<1>7. CASE Settings!SaveSettings
  <2>1. Settings!Idle /\ UNCHANGED <<files, stored, damaged>> /\ screen' # "off"
    BY <1>7 DEF Settings!SaveSettings, Settings!Files
  <2>2. \/ Settings!ClientSettingsSaveToPath(deferred.pending, "config", "flush")
        \/ Settings!ClientSettingsSaveToPath(session, "config", "settings")
    BY <1>7 DEF Settings!SaveSettings
  <2> QED BY <2>1, <2>2, SaveBegins, SaveWaits DEF Nexts
<1> QED BY <1>1, <1>2, <1>3, <1>4, <1>5, <1>6, <1>7

(* A kill leaves the files as they are.                                    *)
LEMMA SettingsKillStep == ASSUME SettingsInvariant, Settings!Kill PROVE SettingsInvariant'
<1>1. FilesStay /\ job' = Settings!NoJob
  BY DEF SettingsInvariant, FilesShape, FilesStay, Settings!Kill
<1> QED BY <1>1, NoSave, NothingMoves

(* Nothing is stored in the beginning.                                     *)
LEMMA SettingsBegin == Settings!Init => SettingsInvariant
<1> SUFFICES ASSUME Settings!Init PROVE SettingsInvariant
  OBVIOUS
<1>1. /\ screen = "off" /\ job = Settings!NoJob
      /\ files \in [{"config", "legacy"} -> Settings!OlderFiles]
      /\ stored = <<>> /\ damaged = "none"
  BY DEF Settings!Init, Settings!Idle
<1>2. Settings!OlderFiles \subseteq FileSlots
  <2>1. /\ Settings!TooLarge \in [zoom : Nat, rest : Nat]
        /\ [zoom |-> 0, rest |-> 1] \in [zoom : Nat, rest : Nat]
    BY SettingsBounds DEF Settings!TooLarge
  <2>2. Settings!Nothing \in FileSlots
    BY ContentFacts DEF Settings!Nothing, FileSlots
  <2>3. ASSUME NEW kind \in {"older", "current"}, NEW v \in {Settings!TooLarge, [zoom |-> 0, rest |-> 1]}
        PROVE  [Settings!Nothing EXCEPT !.main = Settings!Record(kind, v)] \in FileSlots
    <3>1. Settings!Record(kind, v) \in FileContents
      BY <2>1 DEF Settings!Record, FileContents
    <3> QED BY <2>2, <3>1 DEF FileSlots
  <2> QED BY <2>2, <2>3 DEF Settings!OlderFiles
<1>3. FilesShape
  <2>1. <<>> \in Seq(SettingsValues) /\ Len(<<>>) = 0
    OBVIOUS
  <2> QED BY <1>1, <1>2, <2>1, NoSave DEF FilesShape
<1>4. SaveProgress
  BY <1>1, NoSave DEF SaveProgress, Settings!At
<1>5. Len(stored) = 0
  BY <1>1
<1> QED BY <1>1, <1>3, <1>4, <1>5 DEF SettingsInvariant, LastIsThere, BackupIsThere

(* A start finds the file, or else its backup                              *)
(* (ClientSettingsLoadFromPath).                                           *)
LEMMA ValuesSurvive == SettingsInvariant => Settings!SettingsSurvive
<1> SUFFICES ASSUME SettingsInvariant, stored # <<>>, damaged = "main" => Len(stored) = 2
             PROVE  Settings!Found \in {stored[i] : i \in 1..(IF damaged = "main" THEN Len(stored) ELSE 1)}
  BY DEF Settings!SettingsSurvive
<1>1. CASE damaged = "main"
  <2>1. /\ ~Settings!Parses(MainFile) /\ Settings!Parses(BackupFile)
        /\ Settings!Parsed(BackupFile) \in {stored[1], stored[2]} /\ Len(stored) = 2
    BY <1>1 DEF SettingsInvariant, BackupIsThere
  <2>2. Settings!Found = Settings!Parsed(BackupFile)
    BY <2>1 DEF Settings!Found, Settings!Readable, Settings!LoadFromPath, MainFile, BackupFile
  <2> QED BY <1>1, <2>1, <2>2
<1>2. CASE damaged # "main"
  <2>1. Settings!Found = stored[1]
    BY <1>2
      DEF SettingsInvariant, LastIsThere, Settings!Found, Settings!Readable, Settings!LoadFromPath,
          MainFile
  <2> QED BY <1>2, <2>1
<1> QED BY <1>1, <1>2

(* Whatever call of a save fails and wherever the game is killed, for any  *)
(* number of faults: a start finds what the last successful save stored,   *)
(* and after damage to the file that value or the one before               *)
(* (ClientSettingsSaveToPath, ClientSettingsLoad).                         *)
THEOREM SettingsAlwaysSurvive == Settings!Spec => []SettingsSurvive
<1>1. SettingsInvariant /\ [Settings!Next]_Settings!vars => SettingsInvariant'
  <2> SUFFICES ASSUME SettingsInvariant, [Settings!Next]_Settings!vars PROVE SettingsInvariant'
    OBVIOUS
  <2>1. CASE \/ Settings!Start \/ Settings!CommitPlayerName \/ Settings!EnterGame \/ Settings!Zoom
             \/ Settings!ChangeAndSave \/ Settings!UpdateDeferred \/ Settings!Tick
             \/ \E next \in {"leave", "quit"} : Settings!Leave(next)
             \/ Settings!QuitUnflushed \/ Settings!OpenSettings \/ Settings!EditSettings
             \/ Settings!SaveSettings \/ Settings!DiscardSettings
    BY <2>1, SettingsPlayerStep
  <2>2. ASSUME NEW ok \in BOOLEAN, Settings!SaveCall(ok) PROVE SettingsInvariant'
    BY <2>2, WritingStep, BackupStep, ReplacingStep DEF Settings!SaveCall
  <2>3. CASE Settings!Kill
    BY <2>3, SettingsKillStep
  <2>4. ASSUME NEW kind \in {"main", "bak"}, Settings!Damage(kind) PROVE SettingsInvariant'
    BY <2>4, DamageStep
  <2>5. CASE UNCHANGED Settings!vars
    BY <2>5
      DEF Settings!vars, SettingsInvariant, FilesShape, SaveProgress, LastIsThere, BackupIsThere,
          MainFile, BackupFile, Settings!Now, Settings!At, Settings!Readable
  <2> QED BY <2>1, <2>2, <2>3, <2>4, <2>5 DEF Settings!Next
<1> QED BY <1>1, SettingsBegin, ValuesSurvive, PTL DEF Settings!Spec, SettingsSurvive

=============================================================================
