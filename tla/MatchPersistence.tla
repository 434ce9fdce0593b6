-------------------------- MODULE MatchPersistence ---------------------------
(***************************************************************************)
(* The statements of src/server/match_persistence.c on the main thread's   *)
(* SQLite connection, next to the account connection of the REST threads   *)
(* (account_auth.c), which shares the database file.  Each statement is a  *)
(* step.  SQLite is external: one connection writes at a time; a           *)
(* transaction is seen by nobody else before its COMMIT and by nobody at   *)
(* all after a crash; the main connection has no busy timeout (main.c:2715 *)
(* sets none), so that a lock held by the account connection fails a       *)
(* BEGIN IMMEDIATE, an INSERT or a COMMIT at once.                         *)
(*                                                                         *)
(* Kept of the tables: the row of each round and its player_count, its     *)
(* participants, the rounds counted for each account (player_stats and     *)
(* players go together), and the closing events.                           *)
(***************************************************************************)
EXTENDS Naturals, FiniteSets

CONSTANTS
  Rounds,         \* session uuids
  Accounts,       \* rows of players
  Faults,         \* TRUE: a statement may also fail by itself
  Crashes         \* TRUE: the process may die between two steps

ASSUME PersistenceParameters ==
  /\ Faults \in BOOLEAN /\ Crashes \in BOOLEAN /\ IsFiniteSet(Rounds) /\ IsFiniteSet(Accounts)

VARIABLES
  disk,      \* the committed tables
  work,      \* what the main connection sees: disk, or its open transaction
  open,      \* the main connection is inside a transaction
  account,   \* the account connection: "idle", "reading" or "writing"
  call,      \* the ShroomMatchPersistenceSave under way
  known      \* the rounds that lobbies of the running process play

vars == <<disk, work, open, account, call, known>>

EmptyTables ==
  [ status |-> [r \in Rounds |-> "none"], player_count |-> [r \in Rounds |-> 0],
    participants |-> [r \in Rounds |-> {}], games |-> [a \in Accounts |-> 0],
    closings |-> [r \in Rounds |-> 0] ]

(* A ShroomCompletedMatch and how far its save has come: at is the next    *)
(* statement, left are the participants still to save, of whom current has *)
(* its row but not yet its totals.                                         *)
NoCall == [at |-> "none"]
Started(r, members, interrupted) ==
  [ at |-> "begin", round |-> r, participants |-> members, interrupted |-> interrupted,
    left |-> members, current |-> {} ]

(* The status of a saved match. *)
Outcome(interrupted) == IF interrupted THEN "aborted" ELSE "completed"

Closed(tables, r) == tables.status[r] \in {"completed", "aborted"}

Init ==
  /\ disk = EmptyTables /\ work = EmptyTables /\ open = FALSE
  /\ account = "idle" /\ call = NoCall /\ known = {}

-----------------------------------------------------------------------------
(* A statement of the main connection: inside a transaction it changes     *)
(* what the connection sees, outside it commits by itself.                 *)
Write(tables) ==
  /\ work' = tables
  /\ disk' = IF open THEN disk ELSE tables

(* A lone INSERT needs what BEGIN and COMMIT need together. *)
CanWriteAlone == account = "idle"

(* Slip: a failed save returns without rolling back. *)
FailsKeeping ==
  /\ call' = NoCall
  /\ UNCHANGED <<disk, work, open>>

(* goto rollback: the transaction is undone and ERROR returned. *)
Fails ==
  /\ call' = NoCall
  /\ open' = FALSE
  /\ work' = disk
  /\ UNCHANGED disk

-----------------------------------------------------------------------------
(* BeginLobbyPersistenceRound, ShroomMatchPersistenceBegin: the lobby      *)
(* plays the round whether or not the INSERT OR IGNORE succeeds.           *)
BeginRound(r, ok) ==
  /\ call = NoCall /\ r \notin known /\ disk.status[r] = "none"
  /\ ok => CanWriteAlone
  /\ ~ok => Faults \/ ~CanWriteAlone
  /\ known' = known \cup {r}
  /\ IF ok THEN Write([work EXCEPT !.status[r] = "active"]) ELSE UNCHANGED <<disk, work>>
  /\ UNCHANGED <<open, account, call>>

(* PersistLobbyRound calls ShroomMatchPersistenceSave; the caller may      *)
(* repeat the call for a round it still knows.                             *)
CallSave(r, members, interrupted) ==
  /\ call = NoCall /\ r \in known
  /\ call' = Started(r, members, interrupted)
  /\ UNCHANGED <<disk, work, open, account, known>>

(* Slip: the statements run without a transaction. *)
BeginNothing ==
  /\ call.at = "begin"
  /\ IF account = "writing" THEN Fails
     ELSE /\ call' = [call EXCEPT !.at = "lookup"]
          /\ UNCHANGED <<disk, work, open>>
  /\ UNCHANGED <<account, known>>

(* BEGIN IMMEDIATE takes the write lock or fails. *)
BeginImmediate ==
  /\ call.at = "begin"
  /\ IF account = "writing" THEN Fails
     ELSE /\ open' = TRUE
          /\ call' = [call EXCEPT !.at = "lookup"]
          /\ UNCHANGED <<disk, work>>
  /\ UNCHANGED <<account, known>>

(* SELECT id,status: a round that is closed is ALREADY_SAVED, one without  *)
(* a row gets it now.                                                      *)
LookUp ==
  /\ call.at = "lookup"
  /\ IF Closed(work, call.round) THEN Fails
     ELSE /\ call' = [call EXCEPT !.at = "participants"]
          /\ IF work.status[call.round] = "active" THEN UNCHANGED <<disk, work>>
             ELSE Write([ work EXCEPT !.status[call.round] = "active",
                                      !.player_count[call.round] = Cardinality(call.participants) ])
          /\ UNCHANGED open
  /\ UNCHANGED <<account, known>>

(* SaveParticipant, the session_participants row: UNIQUE(session_id,       *)
(* player_id) refuses a second one.                                        *)
InsertParticipant(a) ==
  /\ call.at = "participants" /\ call.current = {} /\ a \in call.left
  /\ IF a \in work.participants[call.round] THEN Fails
     ELSE /\ Write([work EXCEPT !.participants[call.round] = @ \cup {a}])
          /\ call' = [call EXCEPT !.left = @ \ {a}, !.current = {a}]
          /\ UNCHANGED open
  /\ UNCHANGED <<account, known>>

(* SaveParticipant, the rest: player_stats, players, participant_summary. *)
AddTotals(a) ==
  /\ call.at = "participants" /\ call.current = {a}
  /\ Write([work EXCEPT !.games[a] = @ + 1])
  /\ call' = [call EXCEPT !.current = {}]
  /\ UNCHANGED <<open, account, known>>

(* Slip: the last participant is left out. *)
FinalizeEarly ==
  /\ call.at = "participants" /\ Cardinality(call.left) <= 1 /\ call.current = {}
  /\ Write([ work EXCEPT !.status[call.round] = Outcome(call.interrupted),
                         !.closings[call.round] = @ + 1 ])
  /\ call' = [call EXCEPT !.at = "commit"]
  /\ UNCHANGED <<open, account, known>>

(* UPDATE sessions ... AND status='active', which must change one row, and *)
(* the match_completed or match_interrupted event.                         *)
Finalize ==
  /\ call.at = "participants" /\ call.left = {} /\ call.current = {}
  /\ IF work.status[call.round] # "active" THEN Fails
     ELSE /\ Write([ work EXCEPT
                       !.status[call.round] = Outcome(call.interrupted),
                       !.closings[call.round] = @ + 1 ])
          /\ call' = [call EXCEPT !.at = "commit"]
          /\ UNCHANGED open
  /\ UNCHANGED <<account, known>>

(* COMMIT needs the file to itself: a reader makes it fail, and the        *)
(* transaction is rolled back.                                             *)
Commit ==
  /\ call.at = "commit"
  /\ IF account = "reading" THEN Fails
     ELSE /\ disk' = work /\ work' = work
          /\ open' = FALSE
          /\ call' = NoCall
  /\ UNCHANGED <<account, known>>

StatementFails ==
  /\ Faults /\ call # NoCall
  /\ Fails
  /\ UNCHANGED <<account, known>>

Save ==
  \/ BeginImmediate
  \/ LookUp
  \/ \E a \in Accounts : InsertParticipant(a) \/ AddTotals(a)
  \/ Finalize
  \/ Commit
  \/ StatementFails

-----------------------------------------------------------------------------
(* The account connection: a query, or a transaction that waits (busy      *)
(* timeout of 5 s) while the main connection has the write lock.           *)
AccountReads ==
  /\ account = "idle"
  /\ account' = "reading"
  /\ UNCHANGED <<disk, work, open, call, known>>

AccountWrites ==
  /\ account = "idle" /\ ~open
  /\ account' = "writing"
  /\ UNCHANGED <<disk, work, open, call, known>>

AccountDone ==
  /\ account # "idle"
  /\ account' = "idle"
  /\ UNCHANGED <<disk, work, open, call, known>>

(* The process dies and starts again: the journal undoes the transaction,  *)
(* and new rounds get new uuids.                                           *)
Crash ==
  /\ Crashes
  /\ work' = disk /\ open' = FALSE /\ account' = "idle" /\ call' = NoCall /\ known' = {}
  /\ UNCHANGED disk

Next ==
  \/ \E r \in Rounds, ok \in BOOLEAN : BeginRound(r, ok)
  \/ \E r \in Rounds, members \in SUBSET Accounts, interrupted \in BOOLEAN :
       CallSave(r, members, interrupted)
  \/ Save
  \/ AccountReads \/ AccountWrites \/ AccountDone
  \/ Crash

Spec == Init /\ [][Next]_vars

-----------------------------------------------------------------------------
(* Properties *)

Tables ==
  [ status : [Rounds -> {"none", "active", "completed", "aborted"}],
    player_count : [Rounds -> Nat], participants : [Rounds -> SUBSET Accounts],
    games : [Accounts -> Nat], closings : [Rounds -> Nat] ]

Calls ==
  {NoCall} \cup
  [ at : {"begin", "lookup", "participants", "commit"}, round : Rounds,
    participants : SUBSET Accounts, interrupted : BOOLEAN, left : SUBSET Accounts,
    current : SUBSET Accounts ]

TypeOK ==
  /\ disk \in Tables /\ work \in Tables
  /\ open \in BOOLEAN /\ account \in {"idle", "reading", "writing"}
  /\ call \in Calls /\ known \in SUBSET Rounds

(* The lifetime totals are the sum of the rounds on disk, and only closed  *)
(* rounds have participants, each closed by one event: whatever statement  *)
(* fails, whoever holds the lock, wherever the process dies                *)
(* (match_persistence.c:147-160, 198-274).                                 *)
TotalsMatchRounds ==
  /\ \A a \in Accounts :
       disk.games[a] = Cardinality({r \in Rounds : a \in disk.participants[r]})
  /\ \A r \in Rounds :
       /\ disk.participants[r] # {} => Closed(disk, r)
       /\ disk.closings[r] = IF Closed(disk, r) THEN 1 ELSE 0

(* Every return from a save leaves the connection outside a transaction:   *)
(* otherwise nothing the server writes later would be kept                 *)
(* (match_persistence.c:212, 270-279).                                     *)
NoTransactionLeftOpen ==
  call = NoCall => ~open /\ work = disk

(* The statements implement the ledger: a save closes its round with the   *)
(* participants it was given in one step, or changes nothing               *)
(* (match_persistence.c:183-280).                                          *)
Ledger == INSTANCE RoundLedger WITH
  NoRequest <- NoCall, status <- disk.status, participants <- disk.participants,
  games <- disk.games,
  request <- IF call = NoCall THEN NoCall
             ELSE [ round |-> call.round, members |-> call.participants,
                    outcome |-> Outcome(call.interrupted) ]
ImplementsLedger == Ledger!Spec

(* A save that returns has recorded its round (the error of a BEGIN        *)
(* IMMEDIATE or a COMMIT that meets the account connection is only logged, *)
(* main.c:1042-1046, and the round never saved again).                     *)
SavesRecordTheRound ==
  [][ call # NoCall /\ call' = NoCall => Closed(disk', call.round) ]_vars

=============================================================================
