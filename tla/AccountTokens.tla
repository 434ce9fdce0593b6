---------------------------- MODULE AccountTokens -----------------------------
(***************************************************************************)
(* The accounts and token families of src/server/account_auth.c, statement *)
(* by statement, as the two threads of the REST server run it.  They share *)
(* one SQLite connection, so a transaction belongs to the connection and   *)
(* not to a thread: the spin lock database_lock keeps them apart.          *)
(*                                                                         *)
(* A family is a session; generation n of it is the pair of an access and  *)
(* a refresh token issued together.  Kept of each pair are revoked_at,     *)
(* rotated_at and whether the refresh token is past expires_at.  Emails,   *)
(* passwords and digests are left out: a password is right or wrong.       *)
(***************************************************************************)
EXTENDS Naturals, FiniteSets

CONSTANTS
  Threads,     \* num_threads of the REST server
  Families,    \* refresh_family_id
  Names,       \* usernames
  Faults,      \* TRUE: a statement may fail
  MaxPairs     \* bound on the pairs issued to a family

NoThread == "no thread"

ASSUME AccountParameters ==
  /\ Faults \in BOOLEAN /\ MaxPairs \in Nat \ {0} /\ IsFiniteSet(Families)
  /\ NoThread \notin Threads

VARIABLES
  disk,      \* the committed tables
  work,      \* what the connection sees: disk, or its open transaction
  open,      \* the connection is inside a transaction
  lock,      \* the thread that holds database_lock
  call,      \* what each thread runs, and its last answer
  expired    \* the first pairs of each family, whose refresh tokens expired

vars == <<disk, work, open, lock, call, expired>>

EmptyTables ==
  [ users |-> {},
    issued |-> [f \in Families |-> 0],      \* pairs inserted
    refresh |-> [f \in Families |-> {}],    \* pairs whose refresh row is not revoked
    access |-> [f \in Families |-> {}],     \* pairs whose access row is not revoked
    rotated |-> [f \in Families |-> {}] ]

(* A call has arguments, a place (at), and the answer it is heading for,   *)
(* which was given once at is idle.                                        *)
NoCall == [at |-> "idle", op |-> "none", name |-> "none", family |-> "none", pair |-> 0,
           answer |-> "none"]

Init ==
  /\ disk = EmptyTables /\ work = EmptyTables /\ open = FALSE /\ lock = NoThread
  /\ call = [t \in Threads |-> NoCall]
  /\ expired = [f \in Families |-> 0]

-----------------------------------------------------------------------------
Goto(t, place) == call' = [call EXCEPT ![t].at = place]
Answer(t, answer) == call' = [call EXCEPT ![t].at = "idle", ![t].answer = answer]

(* A statement of the connection: outside a transaction it commits. *)
Write(tables) ==
  /\ work' = tables
  /\ disk' = IF open THEN disk ELSE tables

(* Rollback, UnlockDatabase and return. *)
RollbackAnswering(t, answer) ==
  /\ Answer(t, answer)
  /\ open' = FALSE /\ work' = disk /\ lock' = NoThread
  /\ UNCHANGED <<disk, expired>>

(* A statement that fails takes the caller to its database_failure. *)
StatementFails(t) ==
  /\ Faults
  /\ call[t].at \in {"read", "find", "look", "issue", "mark", "revoke", "commit"}
  /\ RollbackAnswering(t, "error")

(* The family of a new session is drawn at random: nobody has it. *)
Fresh(f) == disk.issued[f] = 0 /\ \A t \in Threads : call[t].at # "idle" => call[t].family # f

(* Exchanges under way, so that the bound on pairs stops no thread half-way. *)
UnderWay(f) == Cardinality({t \in Threads : call[t].at # "idle" /\ call[t].family = f})

(* A request arrives at an idle thread.  A presented token is one that was *)
(* committed before, or pair 0, which no row has.                          *)
Register(t, name, f) ==
  /\ call[t].at = "idle" /\ Fresh(f)
  /\ call' = [call EXCEPT ![t] = [at |-> "lock", op |-> "register", name |-> name,
                                  family |-> f, pair |-> 0, answer |-> "ok"]]
  /\ UNCHANGED <<disk, work, open, lock, expired>>

Login(t, name, f) ==
  /\ call[t].at = "idle" /\ Fresh(f)
  /\ call' = [call EXCEPT ![t] = [at |-> "lock to read", op |-> "login", name |-> name,
                                  family |-> f, pair |-> 0, answer |-> "ok"]]
  /\ UNCHANGED <<disk, work, open, lock, expired>>

Present(t, op, f, n) ==
  /\ call[t].at = "idle"
  /\ op \in {"refresh", "logout"} /\ n \in 0..disk.issued[f]
  /\ disk.issued[f] + UnderWay(f) < MaxPairs
  /\ call' = [call EXCEPT ![t] = [at |-> "lock", op |-> op, name |-> "none",
                                  family |-> f, pair |-> n, answer |-> "ok"]]
  /\ UNCHANGED <<disk, work, open, lock, expired>>

(* LockDatabase spins until the flag is clear. *)
LockDatabase(t) ==
  /\ call[t].at \in {"lock", "lock to read"} /\ lock = NoThread
  /\ lock' = t
  /\ Goto(t, IF call[t].at = "lock" THEN "begin" ELSE "read")
  /\ UNCHANGED <<disk, work, open, expired>>

(* ShroomAccountLogin reads the verifier and unlocks; unknown identities   *)
(* are answered like wrong passwords, and the work is done unlocked.       *)
ReadUser(t) ==
  /\ call[t].at = "read"
  /\ lock' = NoThread
  /\ Goto(t, IF call[t].name \in work.users THEN "verify" ELSE "refuse")
  /\ UNCHANGED <<disk, work, open, expired>>

Verify(t, right) ==
  /\ call[t].at \in {"verify", "refuse"}
  /\ IF call[t].at = "verify" /\ right THEN Goto(t, "lock") ELSE Answer(t, "refused")
  /\ UNCHANGED <<disk, work, open, lock, expired>>

(* The statement after BEGIN IMMEDIATE. *)
AfterBegin(t) ==
  CASE call[t].op = "register" -> "find" [] call[t].op = "login" -> "issue" [] OTHER -> "look"

(* Slip: a failed BEGIN returns with the lock held. *)
BeginForgetful(t, ok) ==
  /\ call[t].at = "begin"
  /\ ok => ~open
  /\ ~ok => Faults \/ open
  /\ IF ok THEN open' = TRUE /\ Goto(t, AfterBegin(t))
     ELSE Answer(t, "error") /\ UNCHANGED open
  /\ UNCHANGED <<disk, work, lock, expired>>

(* BEGIN IMMEDIATE fails inside a transaction, and when the main           *)
(* connection keeps the write lock for longer than the busy timeout.       *)
Begin(t, ok) ==
  /\ call[t].at = "begin"
  /\ ok => ~open
  /\ ~ok => Faults \/ open
  /\ IF ok
     THEN open' = TRUE /\ Goto(t, AfterBegin(t)) /\ UNCHANGED <<disk, work, lock, expired>>
     ELSE RollbackAnswering(t, "error")

(* FindDuplicate of a registration. *)
FindDuplicate(t) ==
  /\ call[t].at = "find"
  /\ IF call[t].name \in work.users THEN RollbackAnswering(t, "taken")
     ELSE Goto(t, "issue") /\ UNCHANGED <<disk, work, open, lock, expired>>

(* Slip: only the rotation of a token makes it unavailable. *)
AvailableUnlessRotated(f, n) == n \notin work.rotated[f]

(* Neither revoked, rotated nor expired. *)
Available(f, n) == n \in work.refresh[f] /\ n \notin work.rotated[f] /\ n > expired[f]

(* The row of a presented token is looked up in the transaction. *)
LookUp(t) ==
  LET f == call[t].family  n == call[t].pair
  IN /\ call[t].at = "look"
     /\ IF n \notin 1..work.issued[f] THEN RollbackAnswering(t, "invalid")
        ELSE /\ call' = [call EXCEPT
                  ![t].at = IF call[t].op = "refresh" /\ Available(f, n) THEN "issue" ELSE "revoke",
                  ![t].answer = IF call[t].op = "logout" \/ Available(f, n) THEN "ok" ELSE "invalid"]
             /\ UNCHANGED <<disk, work, open, lock, expired>>

(* The rows of a registration, and IssueTokenPair: both rows of the pair. *)
Issue(t) ==
  LET f == call[t].family  n == work.issued[f] + 1
  IN /\ call[t].at = "issue"
     /\ Write([work EXCEPT !.users = @ \cup (IF call[t].op = "register" THEN {call[t].name} ELSE {}),
                           !.issued[f] = n,
                           !.refresh[f] = @ \cup {n},
                           !.access[f] = @ \cup {n}])
     /\ Goto(t, IF call[t].op = "refresh" THEN "mark" ELSE "commit")
     /\ UNCHANGED <<open, lock, expired>>

(* Slip: the presented token is marked rotated but not revoked. *)
MarkRotated(t) ==
  /\ call[t].at = "mark"
  /\ Write([work EXCEPT !.rotated[call[t].family] = @ \cup {call[t].pair}])
  /\ Goto(t, "commit")
  /\ UNCHANGED <<open, lock, expired>>

(* The presented refresh token is revoked, rotated and replaced; the       *)
(* access token of its pair stays.                                         *)
Mark(t) ==
  LET f == call[t].family  n == call[t].pair
  IN /\ call[t].at = "mark"
     /\ Write([work EXCEPT !.refresh[f] = @ \ {n}, !.rotated[f] = @ \cup {n}])
     /\ Goto(t, "commit")
     /\ UNCHANGED <<open, lock, expired>>

(* Every row of the family is revoked: on logout, and when a refresh token *)
(* that is no longer available is presented.                               *)
Revoke(t) ==
  LET f == call[t].family
  IN /\ call[t].at = "revoke"
     /\ Write([work EXCEPT !.refresh[f] = {}, !.access[f] = {}])
     /\ Goto(t, "commit")
     /\ UNCHANGED <<open, lock, expired>>

(* Slip: the result of COMMIT is not looked at. *)
CommitHoping(t, ok) ==
  /\ call[t].at = "commit"
  /\ ~ok => Faults
  /\ open' = FALSE /\ lock' = NoThread
  /\ disk' = IF ok THEN work ELSE disk
  /\ work' = disk'
  /\ Answer(t, call[t].answer)
  /\ UNCHANGED expired

(* COMMIT, UnlockDatabase and return; without a transaction it fails. *)
Commit(t, ok) ==
  /\ call[t].at = "commit"
  /\ ok <=> open
  /\ IF ok
     THEN /\ disk' = work /\ open' = FALSE /\ lock' = NoThread
          /\ Answer(t, call[t].answer)
          /\ UNCHANGED <<work, expired>>
     ELSE RollbackAnswering(t, "error")

(* Time passes the expires_at of the next pair of a family. *)
Expire(f) ==
  /\ expired[f] < disk.issued[f]
  /\ expired' = [expired EXCEPT ![f] = @ + 1]
  /\ UNCHANGED <<disk, work, open, lock, call>>

(* The process dies and starts again: an open transaction is gone. *)
Crash ==
  /\ work' = disk /\ open' = FALSE /\ lock' = NoThread
  /\ call' = [t \in Threads |-> NoCall]
  /\ UNCHANGED <<disk, expired>>

Step(t) ==
  \/ LockDatabase(t) \/ ReadUser(t)
  \/ \E right \in BOOLEAN : Verify(t, right)
  \/ \E ok \in BOOLEAN : Begin(t, ok) \/ Commit(t, ok)
  \/ FindDuplicate(t) \/ LookUp(t) \/ Issue(t) \/ Mark(t) \/ Revoke(t)
  \/ StatementFails(t)

Request(t) ==
  \/ \E name \in Names, f \in Families : Register(t, name, f) \/ Login(t, name, f)
  \/ \E op \in {"refresh", "logout"}, f \in Families, n \in 0..MaxPairs : Present(t, op, f, n)

Next ==
  \/ \E t \in Threads : Request(t) \/ Step(t)
  \/ \E f \in Families : Expire(f)
  \/ Crash

Spec == Init /\ [][Next]_vars

(* A thread inside a call is scheduled. *)
FairSpec == Spec /\ \A t \in Threads : WF_vars(Step(t))

-----------------------------------------------------------------------------
Tables ==
  [ users : SUBSET Names, issued : [Families -> Nat], refresh : [Families -> SUBSET Nat],
    access : [Families -> SUBSET Nat], rotated : [Families -> SUBSET Nat] ]

Inside == {"begin", "read", "find", "look", "issue", "mark", "revoke", "commit"}
Requests ==
  [ at : Inside \cup {"idle", "lock", "lock to read", "verify", "refuse"},
    op : {"register", "login", "refresh", "logout"}, name : Names \cup {"none"},
    family : Families, pair : Nat,
    answer : {"ok", "taken", "refused", "invalid", "error"} ]

TypeOK ==
  /\ disk \in Tables /\ work \in Tables /\ open \in BOOLEAN
  /\ lock \in Threads \cup {NoThread}
  /\ call \in [Threads -> Requests \cup {NoCall}]
  /\ expired \in [Families -> Nat]

(* Every transaction has the lock: a thread never meets, ends or rolls     *)
(* back the transaction of another (LockDatabase).                         *)
TransactionsAreLocked ==
  /\ \A t \in Threads : call[t].at \in Inside <=> lock = t
  /\ open <=> lock # NoThread /\ call[lock].at \notin {"begin", "read"}
  /\ ~open => work = disk

(* A session never has two refresh tokens that can be used                 *)
(* (ShroomAccountRegister, Login, Refresh).                                *)
OneLiveRefresh == \A f \in Families : Cardinality(disk.refresh[f]) <= 1

(* When a logout is answered, or a refresh with a known token is refused,  *)
(* no token of the session can be used any more (ShroomAccountLogout, the  *)
(* reuse branch of ShroomAccountRefresh).                                  *)
Ended(f) == disk.refresh[f] = {} /\ disk.access[f] = {}
AnsweredSessionsEnd ==
  \A t \in Threads :
    /\ call[t].at = "idle" /\ call[t].pair > 0
    /\ <<call[t].op, call[t].answer>> \in {<<"logout", "ok">>, <<"refresh", "invalid">>}
    => Ended(call[t].family)

(* Tokens and accounts that were handed out are in the tables, also after  *)
(* failing statements.                                                     *)
AnswersAreCommitted ==
  \A t \in Threads :
    call[t].at = "idle" /\ call[t].answer = "ok" =>
      /\ call[t].op \in {"register", "login", "refresh"} => call[t].pair < disk.issued[call[t].family]
      /\ call[t].op = "register" => call[t].name \in disk.users

(* No path keeps the lock: the other thread gets its turn. *)
LockIsReleased == \A t \in Threads : lock = t ~> lock # t

(* The tables implement the sessions of the API document. *)
Sessions == INSTANCE TokenSessions WITH
  issued <- disk.issued,
  ended <- [f \in Families |-> disk.issued[f] > 0 /\ disk.refresh[f] = {}]
ImplementsSessions == Sessions!Spec

=============================================================================
