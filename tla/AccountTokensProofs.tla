------------------------- MODULE AccountTokensProofs -------------------------
(***************************************************************************)
(* The token families of any number of sessions, exchanged and ended by    *)
(* any number of threads, whatever statements fail and whenever the        *)
(* process dies: one live token each, answers that are committed, and the  *)
(* sessions of the API document.                                           *)
(***************************************************************************)
EXTENDS AccountTokens, FiniteSetTheorems, TLAPS

(* What a call c is about, and where it can be on its way.                 *)
Opening(c) == c.at # "idle" /\ c.op \in {"register", "login"}
Presenting(c) == c.op \in {"refresh", "logout"}

Placed(c) ==
  /\ c.at # "idle" => c # NoCall
  /\ c.op \in {"register", "login"} => c.pair = 0
  /\ c.op = "register" => c.name \in Names
  /\ c.at = "find" => c.op = "register"
  /\ c.at = "mark" => c.op = "refresh"
  /\ c.at \in {"look", "revoke"} => Presenting(c)
  /\ c.at = "issue" => c.op # "logout"
  /\ c.at \notin {"idle", "revoke", "commit"} \/ (c.at # "idle" /\ c.op # "refresh") => c.answer = "ok"
  /\ c.at \in {"revoke", "commit"} => c.answer \in {"ok", "invalid"}
  /\ c.at = "revoke" /\ c.op = "refresh" => c.answer = "invalid"

(* A session being opened has no rows yet in the tables d, and is nobody   *)
(* else's; a token presented is one that was issued.                       *)
Entitled(c, d) ==
  /\ Opening(c) => d.issued[c.family] = 0
  /\ Presenting(c) => c.pair <= d.issued[c.family]
OpenedApart ==
  \A t, u \in Threads :
    Opening(call[t]) /\ Opening(call[u]) /\ t # u => call[t].family # call[u].family

(* The one live refresh token of a session is that of its newest pair.     *)
NewestIsLive ==
  \A f \in Families : disk.refresh[f] \subseteq {disk.issued[f]} \ {0}

(* From the tables d to w: a new pair for f beside the live tokens kept,   *)
(* and the end of f.                                                       *)
PairAdded(d, w, f, live) ==
  /\ w.issued = [d.issued EXCEPT ![f] = @ + 1]
  /\ w.refresh = [d.refresh EXCEPT ![f] = live \cup {d.issued[f] + 1}]
  /\ \A g \in Families \ {f} : w.access[g] = d.access[g]
  /\ d.users \subseteq w.users
FamilyEnded(d, w, f) ==
  /\ d.issued[f] > 0
  /\ w.issued = d.issued /\ w.users = d.users
  /\ w.refresh = [d.refresh EXCEPT ![f] = {}]
  /\ w.access = [d.access EXCEPT ![f] = {}]

(* What the open transaction w of a call inside has done so far.           *)
Progressed(c, d, w) ==
  /\ c.at \in {"begin", "read", "find", "look", "issue", "revoke"} => w = d
  /\ c.at \in {"issue", "mark"} /\ c.op = "refresh" => d.refresh[c.family] = {c.pair}
  /\ c.at = "revoke" => d.issued[c.family] > 0
  /\ c.at = "mark" => PairAdded(d, w, c.family, {c.pair})
  /\ c.at = "commit" =>
       \/ /\ c.op # "logout" /\ c.answer = "ok" /\ PairAdded(d, w, c.family, {})
          /\ c.op = "refresh" => d.refresh[c.family] # {}
          /\ c.op = "register" => c.name \in w.users
       \/ /\ Presenting(c) /\ (c.op = "refresh" => c.answer = "invalid")
          /\ FamilyEnded(d, w, c.family)

(* What a call was answered: AnswersAreCommitted and AnsweredSessionsEnd   *)
(* for one thread.                                                         *)
Closes(c) ==
  c.at = "idle" /\ c.pair > 0
    /\ <<c.op, c.answer>> \in {<<"logout", "ok">>, <<"refresh", "invalid">>}
Answered(c, d) ==
  /\ c.at = "idle" /\ c.answer = "ok" =>
       /\ c.op \in {"register", "login", "refresh"} => c.pair < d.issued[c.family]
       /\ c.op = "register" => c.name \in d.users
  /\ Closes(c) => d.refresh[c.family] = {} /\ d.access[c.family] = {}

IInv ==
  /\ TypeOK /\ TransactionsAreLocked /\ NewestIsLive /\ OpenedApart
  /\ \A t \in Threads : Placed(call[t]) /\ Entitled(call[t], disk) /\ Progressed(call[t], disk, work) /\ Answered(call[t], disk)

-----------------------------------------------------------------------------
(* The calls: a request is not NoCall.                                     *)
LEMMA CallShape ==
  ASSUME NEW c \in Requests \cup {NoCall}
  PROVE  /\ c = NoCall <=> c.op = "none"
         /\ c # NoCall => c \in Requests
         /\ c = NoCall => c.at = "idle" /\ c.answer = "none" /\ c.pair = 0
<1>1. CASE c \in Requests
  <2>1. c.op # "none" /\ NoCall.op = "none"
    BY <1>1 DEF Requests, NoCall
  <2> QED BY <1>1, <2>1
<1>2. CASE c = NoCall
  BY <1>2 DEF NoCall
<1> QED BY <1>1, <1>2

(* A step of t that moves its call to a place, and changes its answer.     *)
Moves(t, place, answer) ==
  /\ call' \in [Threads -> Requests \cup {NoCall}]
  /\ call'[t] \in Requests
  /\ call'[t].at = place /\ call'[t].answer = answer
  /\ call'[t].op = call[t].op /\ call'[t].name = call[t].name
  /\ call'[t].family = call[t].family /\ call'[t].pair = call[t].pair
  /\ \A u \in Threads \ {t} : call'[u] = call[u]

(* Updating the place and the answer of a request (Goto, Answer, LookUp).  *)
LEMMA CallMoves ==
  ASSUME TypeOK, NEW t \in Threads, call[t] # NoCall,
         NEW place \in Inside \cup {"idle", "lock", "lock to read", "verify", "refuse"},
         NEW answer \in {"ok", "taken", "refused", "invalid", "error"},
         call' = [call EXCEPT ![t] = [[call[t] EXCEPT !.at = place] EXCEPT !.answer = answer]]
  PROVE  Moves(t, place, answer)
<1> DEFINE c == call[t]
           d == [[c EXCEPT !.at = place] EXCEPT !.answer = answer]
<1>1. c \in Requests
  BY DEF TypeOK
<1>2. /\ d \in Requests /\ d.at = place /\ d.answer = answer
      /\ d.op = c.op /\ d.name = c.name /\ d.family = c.family /\ d.pair = c.pair
  BY <1>1 DEF Requests
<1> HIDE DEF d
<1>3. call'[t] = d /\ call' \in [Threads -> Requests \cup {NoCall}]
      /\ \A u \in Threads \ {t} : call'[u] = call[u]
  BY <1>2 DEF TypeOK, d
<1> QED BY <1>2, <1>3 DEF Moves

(* Goto keeps the answer, Answer ends the call (every handler).            *)
LEMMA GotoMoves ==
  ASSUME TypeOK, NEW t \in Threads, call[t] # NoCall,
         NEW place \in Inside \cup {"idle", "lock", "lock to read", "verify", "refuse"}
  PROVE  Goto(t, place) => Moves(t, place, call[t].answer)
<1>1. call[t].answer \in {"ok", "taken", "refused", "invalid", "error"}
      /\ [call[t] EXCEPT !.at = place] = [[call[t] EXCEPT !.at = place] EXCEPT !.answer = call[t].answer]
  BY DEF TypeOK, Requests
<1>2. Goto(t, place) =>
        call' = [call EXCEPT ![t] = [[call[t] EXCEPT !.at = place] EXCEPT !.answer = call[t].answer]]
  BY <1>1 DEF Goto, TypeOK
<1>3. PICK answer \in {"ok", "taken", "refused", "invalid", "error"} : answer = call[t].answer
  BY <1>1
<1>4. ASSUME Goto(t, place)
      PROVE  Moves(t, place, answer)
  <2>1. call' = [call EXCEPT ![t] = [[call[t] EXCEPT !.at = place] EXCEPT !.answer = answer]]
    BY <1>2, <1>3, <1>4, Zenon
  <2> QED BY ONLY TypeOK, call[t] # NoCall, <2>1, CallMoves
<1> QED BY <1>3, <1>4

(* An answer ends the call.                                                *)
LEMMA AnswerMoves ==
  ASSUME TypeOK, NEW t \in Threads, call[t] # NoCall,
         NEW answer \in {"ok", "taken", "refused", "invalid", "error"}
  PROVE  Answer(t, answer) => Moves(t, "idle", answer)
<1>1. Answer(t, answer) =>
        call' = [call EXCEPT ![t] = [[call[t] EXCEPT !.at = "idle"] EXCEPT !.answer = answer]]
  BY DEF Answer, TypeOK
<1> QED BY <1>1, CallMoves

-----------------------------------------------------------------------------
(* A step of t that leaves the committed tables alone keeps what is true   *)
(* of the other threads, if it or nobody else is inside (LockDatabase).    *)
LEMMA OthersKeep ==
  ASSUME IInv, NEW t \in Threads, \A u \in Threads \ {t} : call'[u] = call[u],
         disk' = disk, work' = work \/ lock = t, NEW u \in Threads \ {t}
  PROVE  /\ Placed(call'[u]) /\ Entitled(call'[u], disk') /\ Answered(call'[u], disk')
         /\ Progressed(call'[u], disk', work')
<1>1. /\ call'[u] = call[u] /\ Placed(call[u]) /\ Entitled(call[u], disk) /\ Answered(call[u], disk)
      /\ Progressed(call[u], disk, work)
  BY DEF IInv
<1>2. CASE work' = work
  BY <1>1, <1>2
<1>3. CASE lock = t
  <2>1. call[u].at \notin Inside
    BY <1>3 DEF IInv, TransactionsAreLocked
  <2>2. Progressed(call[u], disk, work')
    BY <2>1 DEF Progressed, Inside
  <2> QED BY <1>1, <2>2
<1> QED BY <1>2, <1>3

(* The invariant after such a step, from what is left to show of t.        *)
LEMMA StepOfOne ==
  ASSUME IInv, NEW t \in Threads, \A u \in Threads \ {t} : call'[u] = call[u],
         disk' = disk, work' = work \/ lock = t, TypeOK', TransactionsAreLocked',
         Opening(call'[t]) => Opening(call[t]) /\ call'[t].family = call[t].family,
         Placed(call'[t]), Entitled(call'[t], disk), Answered(call'[t], disk),
         Progressed(call'[t], disk, work')
  PROVE  IInv'
<1>1. NewestIsLive'
  BY DEF IInv, NewestIsLive
<1>2. OpenedApart'
  BY DEF IInv, OpenedApart, Opening
<1> QED BY <1>1, <1>2, OthersKeep DEF IInv

-----------------------------------------------------------------------------
(* A request starts a call of an idle thread (Register, Login, Present).   *)
LEMMA RequestStep ==
  ASSUME IInv, NEW t \in Threads, Request(t)
  PROVE  IInv'
<1>1. PICK c \in Requests :
        /\ call[t].at = "idle" /\ call' = [call EXCEPT ![t] = c]
        /\ c.at \in {"lock", "lock to read"} /\ c.answer = "ok"
        /\ \/ /\ c.op \in {"register", "login"} /\ c.pair = 0 /\ c.name \in Names /\ Fresh(c.family)
           \/ Presenting(c) /\ c.pair <= disk.issued[c.family]
        /\ UNCHANGED <<disk, work, open, lock, expired>>
  <2>1. ASSUME NEW name \in Names, NEW f \in Families, Register(t, name, f) \/ Login(t, name, f)
        PROVE  \E c \in Requests :
                 /\ call[t].at = "idle" /\ call' = [call EXCEPT ![t] = c]
                 /\ c.at \in {"lock", "lock to read"} /\ c.answer = "ok"
                 /\ c.op \in {"register", "login"} /\ c.pair = 0 /\ c.name \in Names /\ Fresh(c.family)
                 /\ UNCHANGED <<disk, work, open, lock, expired>>
    <3> DEFINE c(op, place) == [at |-> place, op |-> op, name |-> name, family |-> f,
                                pair |-> 0, answer |-> "ok"]
    <3>1. c("register", "lock") \in Requests /\ c("login", "lock to read") \in Requests
      BY DEF Requests, Inside
    <3>2. CASE Register(t, name, f)
      <4> USE <3>1
      <4> WITNESS c("register", "lock") \in Requests
      <4> QED BY <3>2 DEF Register
    <3>3. CASE Login(t, name, f)
      <4> USE <3>1
      <4> WITNESS c("login", "lock to read") \in Requests
      <4> QED BY <3>3 DEF Login
    <3> QED BY <2>1, <3>2, <3>3
  <2>2. ASSUME NEW op \in {"refresh", "logout"}, NEW f \in Families, NEW n \in 0..MaxPairs,
               Present(t, op, f, n)
        PROVE  \E c \in Requests :
                 /\ call[t].at = "idle" /\ call' = [call EXCEPT ![t] = c]
                 /\ c.at \in {"lock", "lock to read"} /\ c.answer = "ok"
                 /\ Presenting(c) /\ c.pair <= disk.issued[c.family]
                 /\ UNCHANGED <<disk, work, open, lock, expired>>
    <3>1. n \in 0..disk.issued[f] /\ n \in Nat /\ disk.issued[f] \in Nat
      BY <2>2, AccountParameters DEF Present, IInv, TypeOK, Tables
    <3> DEFINE c == [at |-> "lock", op |-> op, name |-> "none", family |-> f,
                     pair |-> n, answer |-> "ok"]
    <3>2. c \in Requests
      BY <3>1 DEF Requests, Inside
    <3> USE <3>2
    <3> WITNESS c \in Requests
    <3> QED BY <2>2, <3>1 DEF Present, Presenting
  <2> QED BY <2>1, <2>2 DEF Request
<1>2. /\ call' \in [Threads -> Requests \cup {NoCall}] /\ call'[t] = c
      /\ \A u \in Threads \ {t} : call'[u] = call[u]
  BY <1>1 DEF IInv, TypeOK
<1>3. TypeOK'
  BY <1>1, <1>2 DEF IInv, TypeOK
<1>4. TransactionsAreLocked'
  <2>1. lock # t /\ c.at \notin Inside
    BY <1>1 DEF IInv, TransactionsAreLocked, Inside
  <2> QED BY <1>1, <1>2, <2>1, AccountParameters DEF IInv, TypeOK, TransactionsAreLocked
<1>5. Placed(c) /\ Entitled(c, disk) /\ Answered(c, disk) /\ Progressed(c, disk, work)
  <2>1. c # NoCall
    BY CallShape DEF Requests
  <2>2. Placed(c)
    BY <1>1, <2>1 DEF Placed, Presenting
  <2>3. Entitled(c, disk)
    BY <1>1 DEF Entitled, Fresh, Opening, Presenting
  <2> QED BY <1>1, <2>2, <2>3 DEF Answered, Closes, Progressed
<1>6. OpenedApart'
  <2> SUFFICES ASSUME NEW u \in Threads \ {t}, Opening(call'[u]), Opening(c)
               PROVE  call'[u].family # c.family
    BY <1>2 DEF OpenedApart, IInv
  <2> QED BY <1>1, <1>2 DEF Fresh, Opening, Presenting
<1>7. NewestIsLive' 
  BY <1>1 DEF IInv, NewestIsLive
<1> QED BY <1>1, <1>2, <1>3, <1>4, <1>5, <1>6, <1>7, OthersKeep DEF IInv

(* What is known of a thread inside a call (CallShape, the invariant).     *)
LEMMA InsideCall ==
  ASSUME IInv, NEW t \in Threads, call[t].at # "idle"
  PROVE  /\ call[t] \in Requests /\ call[t] # NoCall
         /\ call[t].family \in Families /\ call[t].pair \in Nat
         /\ Placed(call[t]) /\ Entitled(call[t], disk) /\ Progressed(call[t], disk, work)
         /\ (call[t].at \in Inside => lock = t /\ lock # NoThread)
         /\ (call[t].at \in Inside \ {"begin", "read"} => open)
         /\ (call[t].at \notin Inside => lock # t)
<1>1. call[t] \in Requests \cup {NoCall} /\ NoCall.at = "idle"
  BY DEF IInv, TypeOK, NoCall
<1>2. call[t] \in Requests /\ call[t] # NoCall
  BY <1>1
<1>3. Placed(call[t]) /\ Entitled(call[t], disk) /\ Progressed(call[t], disk, work)
  BY DEF IInv
<1>4. call[t].at \in Inside => lock = t /\ lock # NoThread
  BY AccountParameters DEF IInv, TransactionsAreLocked
<1> QED BY <1>2, <1>3, <1>4 DEF Requests, IInv, TransactionsAreLocked

(* LockDatabase, ReadUser and Verify change the lock and the call only.    *)
LEMMA LockStep ==
  ASSUME IInv, NEW t \in Threads, LockDatabase(t)
  PROVE  IInv'
<1> DEFINE place == IF call[t].at = "lock" THEN "begin" ELSE "read"
<1>1. /\ Moves(t, place, call[t].answer) /\ lock = NoThread /\ lock' = t
      /\ UNCHANGED <<disk, work, open, expired>>
  BY InsideCall, GotoMoves DEF LockDatabase, IInv, Inside
<1>2. TypeOK'
  BY <1>1 DEF Moves, IInv, TypeOK
<1>3. TransactionsAreLocked'
  BY <1>1, AccountParameters DEF Moves, IInv, TransactionsAreLocked, Inside
<1>4. ~open /\ work = disk
  BY <1>1 DEF IInv, TransactionsAreLocked
<1>5. /\ Placed(call'[t]) /\ Entitled(call'[t], disk) /\ Answered(call'[t], disk)
      /\ Progressed(call'[t], disk, work')
  <2>1. call[t].at \in {"lock", "lock to read"} /\ Placed(call[t]) /\ Entitled(call[t], disk)
    BY InsideCall DEF LockDatabase
  <2>2. call'[t] # NoCall /\ call'[t].at \in {"begin", "read"}
    BY <1>1 DEF Moves, NoCall
  <2>3. Placed(call'[t])
    BY <1>1, <2>1, <2>2 DEF Moves, Placed, Presenting
  <2>4. Entitled(call'[t], disk)
    BY <1>1, <2>1 DEF Moves, Entitled, Opening, Presenting
  <2> QED BY <1>1, <1>4, <2>2, <2>3, <2>4 DEF Answered, Closes, Progressed
<1> QED BY <1>1, <1>2, <1>3, <1>5, StepOfOne, InsideCall DEF LockDatabase, Moves, Opening

(* The verifier is read under the lock and nothing is kept of it.          *)
LEMMA ReadUserStep ==
  ASSUME IInv, NEW t \in Threads, ReadUser(t)
  PROVE  IInv'
<1> DEFINE place == IF call[t].name \in work.users THEN "verify" ELSE "refuse"
<1>1. /\ Moves(t, place, call[t].answer) /\ lock = t /\ lock' = NoThread
      /\ call[t].at = "read" /\ UNCHANGED <<disk, work, open, expired>>
  BY InsideCall, GotoMoves DEF ReadUser, IInv, Inside
<1>2. TypeOK'
  BY <1>1 DEF Moves, IInv, TypeOK
<1>3. ~open /\ work = disk
  BY <1>1 DEF IInv, TransactionsAreLocked
<1>4. TransactionsAreLocked'
  BY <1>1, <1>3, AccountParameters DEF Moves, IInv, TransactionsAreLocked, Inside
<1>5. /\ Placed(call'[t]) /\ Entitled(call'[t], disk) /\ Answered(call'[t], disk)
      /\ Progressed(call'[t], disk, work')
  <2>1. Placed(call[t]) /\ Entitled(call[t], disk)
    BY <1>1, InsideCall
  <2>2. call'[t] # NoCall /\ call'[t].at \in {"verify", "refuse"}
    BY <1>1 DEF Moves, NoCall
  <2>3. Placed(call'[t])
    BY <1>1, <2>1, <2>2 DEF Moves, Placed, Presenting
  <2>4. Entitled(call'[t], disk)
    BY <1>1, <2>1 DEF Moves, Entitled, Opening, Presenting
  <2> QED BY <2>2, <2>3, <2>4 DEF Answered, Closes, Progressed
<1> QED BY <1>1, <1>2, <1>4, <1>5, StepOfOne DEF Moves, Opening

(* The password is right, or the login is refused; nothing is locked.       *)
LEMMA VerifyStep ==
  ASSUME IInv, NEW t \in Threads, NEW right \in BOOLEAN, Verify(t, right)
  PROVE  IInv'
<1>1. /\ Moves(t, "lock", call[t].answer) \/ Moves(t, "idle", "refused")
      /\ call[t].at \in {"verify", "refuse"}
      /\ UNCHANGED <<disk, work, open, lock, expired>>
  BY InsideCall, GotoMoves, AnswerMoves DEF Verify, IInv
<1>2. TypeOK'
  BY <1>1 DEF Moves, IInv, TypeOK
<1>3. TransactionsAreLocked'
  <2>1. lock # t /\ call'[t].at \notin Inside
    BY <1>1, InsideCall DEF Moves, Inside
  <2> QED BY <1>1, <2>1, AccountParameters DEF Moves, IInv, TypeOK, TransactionsAreLocked
<1>4. /\ Placed(call'[t]) /\ Entitled(call'[t], disk) /\ Answered(call'[t], disk)
      /\ Progressed(call'[t], disk, work')
  <2>1. Placed(call[t]) /\ Entitled(call[t], disk)
    BY <1>1, InsideCall
  <2>2. Placed(call'[t])
    BY <1>1, <2>1, CallShape DEF Moves, Placed, Presenting
  <2>3. Entitled(call'[t], disk)
    BY <1>1, <2>1 DEF Moves, Entitled, Opening, Presenting
  <2>4. Answered(call'[t], disk) /\ Progressed(call'[t], disk, work')
    BY <1>1 DEF Moves, Answered, Closes, Progressed
  <2> QED BY <2>2, <2>3, <2>4
<1> QED BY <1>1, <1>2, <1>3, <1>4, StepOfOne DEF Moves, Opening

(* A call that gives up leaves the committed tables (Rollback).            *)
LEMMA RollbackStep ==
  ASSUME IInv, NEW t \in Threads, call[t].at \in Inside,
         NEW answer \in {"taken", "invalid", "error"}, answer = "invalid" => call[t].pair = 0,
         RollbackAnswering(t, answer)
  PROVE  IInv'
<1>1. /\ Moves(t, "idle", answer) /\ lock = t /\ lock' = NoThread
      /\ open' = FALSE /\ work' = disk /\ UNCHANGED <<disk, expired>>
  BY InsideCall, AnswerMoves DEF RollbackAnswering, IInv, Inside
<1>2. TypeOK'
  BY <1>1 DEF Moves, IInv, TypeOK
<1>3. TransactionsAreLocked'
  BY <1>1, AccountParameters DEF Moves, IInv, TransactionsAreLocked, Inside
<1>4. /\ Placed(call'[t]) /\ Entitled(call'[t], disk) /\ Answered(call'[t], disk)
      /\ Progressed(call'[t], disk, work')
  <2>1. Placed(call[t]) /\ Entitled(call[t], disk)
    BY InsideCall DEF Inside
  <2>2. Placed(call'[t]) /\ Progressed(call'[t], disk, work')
    BY <1>1, <2>1 DEF Moves, Placed, Progressed
  <2>3. Entitled(call'[t], disk)
    BY <1>1, <2>1 DEF Moves, Entitled, Opening, Presenting
  <2>4. Answered(call'[t], disk)
    BY <1>1 DEF Moves, Answered, Closes
  <2> QED BY <2>2, <2>3, <2>4
<1> QED BY <1>1, <1>2, <1>3, <1>4, StepOfOne DEF Moves, Opening

(* A call that stays in its transaction: what is left to show.             *)
LEMMA StaysInside ==
  ASSUME IInv, NEW t \in Threads, NEW place \in Inside \ {"begin", "read"},
         NEW answer \in {"ok", "invalid"},
         lock = t, Moves(t, place, answer), open' = TRUE, UNCHANGED <<disk, lock, expired>>,
         work' \in Tables, call[t].at # "idle",
         Placed(call'[t]), Progressed(call'[t], disk, work')
  PROVE  IInv'
<1>1. TypeOK'
  BY DEF Moves, IInv, TypeOK
<1>2. TransactionsAreLocked'
  BY AccountParameters DEF Moves, IInv, TransactionsAreLocked
<1>3. call'[t].at # "idle"
  BY DEF Moves, Inside
<1>4. Answered(call'[t], disk)
  BY <1>3 DEF Answered, Closes
<1>5. Entitled(call'[t], disk)
  BY InsideCall DEF Moves, Entitled, Opening, Presenting
<1> QED BY <1>1, <1>2, <1>4, <1>5, StepOfOne DEF Moves, Opening

(* BEGIN opens the transaction of the thread that has the lock.            *)
LEMMA BeginStep ==
  ASSUME IInv, NEW t \in Threads, NEW ok \in BOOLEAN, Begin(t, ok)
  PROVE  IInv'
<1>1. call[t].at = "begin" /\ call[t].at \in Inside /\ lock = t /\ Placed(call[t]) /\ work = disk
  BY InsideCall DEF Begin, Inside, Progressed
<1>2. CASE ~ok
  BY <1>1, <1>2, RollbackStep DEF Begin
<1>3. CASE ok
  <2>1. /\ AfterBegin(t) = CASE call[t].op = "register" -> "find" [] call[t].op = "login" -> "issue" [] OTHER -> "look"
        /\ call[t].op \in {"register", "login", "refresh", "logout"} /\ call[t].answer = "ok"
    BY <1>1, InsideCall DEF AfterBegin, Placed, Requests
  <2>2. /\ AfterBegin(t) \in {"find", "issue", "look"}
        /\ AfterBegin(t) = "find" => call[t].op = "register"
        /\ AfterBegin(t) = "issue" => call[t].op = "login"
        /\ AfterBegin(t) = "look" => Presenting(call[t])
    BY <2>1 DEF Presenting
  <2>3. /\ Moves(t, AfterBegin(t), call[t].answer) /\ open' = TRUE
        /\ UNCHANGED <<disk, work, lock, expired>>
    BY <1>1, <1>3, <2>2, InsideCall, GotoMoves DEF Begin, IInv, Inside
  <2>4. Placed(call'[t])
    BY <1>1, <2>1, <2>2, <2>3, CallShape DEF Moves, Placed, Presenting
  <2>5. Progressed(call'[t], disk, work')
    BY <1>1, <2>2, <2>3 DEF Moves, Progressed
  <2> QED BY <1>1, <2>1, <2>2, <2>3, <2>4, <2>5, StaysInside DEF Inside, IInv, TypeOK
<1> QED BY <1>2, <1>3

(* A registration stops at a name that is taken.                           *)
LEMMA FindDuplicateStep ==
  ASSUME IInv, NEW t \in Threads, FindDuplicate(t)
  PROVE  IInv'
<1>1. /\ call[t].at = "find" /\ call[t].at \in Inside /\ lock = t /\ open /\ work = disk
      /\ call[t].op = "register" /\ call[t].answer = "ok" /\ Placed(call[t])
  BY InsideCall DEF FindDuplicate, Inside, Placed, Progressed
<1>2. CASE RollbackAnswering(t, "taken")
  BY <1>1, <1>2, RollbackStep
<1>3. CASE Goto(t, "issue") /\ UNCHANGED <<disk, work, open, lock, expired>>
  <2>1. Moves(t, "issue", "ok") /\ UNCHANGED <<disk, work, open, lock, expired>>
    BY <1>1, <1>3, InsideCall, GotoMoves DEF IInv, Inside
  <2>2. Placed(call'[t])
    BY <1>1, <2>1, CallShape DEF Moves, Placed
  <2>3. Progressed(call'[t], disk, work')
    BY <1>1, <2>1 DEF Moves, Progressed
  <2>4. open' = TRUE /\ work' \in Tables
    BY <1>1, <2>1 DEF IInv, TypeOK
  <2> QED BY <1>1, <2>1, <2>2, <2>3, <2>4, StaysInside DEF Inside
<1> QED BY <1>2, <1>3 DEF FindDuplicate

(* An available token is the live one of its session (ShroomAccountRefresh)*)
LEMMA LookUpStep ==
  ASSUME IInv, NEW t \in Threads, LookUp(t)
  PROVE  IInv'
<1> DEFINE f == call[t].family  n == call[t].pair
           place == IF call[t].op = "refresh" /\ Available(f, n) THEN "issue" ELSE "revoke"
           answer == IF call[t].op = "logout" \/ Available(f, n) THEN "ok" ELSE "invalid"
<1>1. /\ call[t].at = "look" /\ call[t].at \in Inside /\ lock = t /\ open /\ work = disk
      /\ Presenting(call[t]) /\ call[t].answer = "ok" /\ Placed(call[t])
      /\ f \in Families /\ n \in Nat /\ n <= disk.issued[f] /\ call[t] # NoCall
  BY InsideCall DEF LookUp, Inside, Placed, Entitled, Progressed
<1>2. disk.issued[f] \in Nat
  BY <1>1 DEF IInv, TypeOK, Tables
<1>3. CASE n \notin 1..work.issued[f]
  <2>1. n = 0
    BY <1>1, <1>2, <1>3
  <2> QED BY <1>1, <1>3, <2>1, RollbackStep DEF LookUp
<1>4. CASE n \in 1..work.issued[f]
  <2>1. /\ call' = [call EXCEPT ![t].at = place, ![t].answer = answer]
        /\ UNCHANGED <<disk, work, open, lock, expired>>
    BY <1>4 DEF LookUp
  <2>2. call' = [call EXCEPT ![t] = [[call[t] EXCEPT !.at = place] EXCEPT !.answer = answer]]
    BY <2>1 DEF IInv, TypeOK
  <2>3. place \in {"issue", "revoke"} /\ answer \in {"ok", "invalid"}
    OBVIOUS
  <2>4. Moves(t, place, answer)
    BY <1>1, <2>2, <2>3, CallMoves DEF IInv, Inside
  <2>5. Placed(call'[t])
    BY <1>1, <2>3, <2>4, CallShape DEF Moves, Placed, Presenting
  <2>6. Progressed(call'[t], disk, work')
    <3>1. disk.issued[f] > 0
      BY <1>1, <1>2, <1>4
    <3>2. call[t].op = "refresh" /\ place = "issue" => disk.refresh[f] = {n}
      BY <1>1 DEF Available, IInv, NewestIsLive
    <3> QED BY <1>1, <2>1, <2>3, <2>4, <3>1, <3>2 DEF Moves, Progressed
  <2>7. open' = TRUE /\ work' \in Tables
    BY <1>1, <2>1 DEF IInv, TypeOK
  <2> QED BY <1>1, <2>1, <2>3, <2>4, <2>5, <2>6, <2>7, StaysInside DEF Inside
<1> QED BY <1>3, <1>4

(* Both rows of a new pair (IssueTokenPair).                               *)
LEMMA IssueStep ==
  ASSUME IInv, NEW t \in Threads, Issue(t)
  PROVE  IInv'
<1> DEFINE f == call[t].family  n == disk.issued[f] + 1
           place == IF call[t].op = "refresh" THEN "mark" ELSE "commit"
           users == disk.users \cup (IF call[t].op = "register" THEN {call[t].name} ELSE {})
<1>1. /\ call[t].at = "issue" /\ call[t].at \in Inside /\ lock = t /\ open /\ work = disk
      /\ call[t].op # "logout" /\ call[t].answer = "ok" /\ Placed(call[t])
      /\ f \in Families /\ call[t].pair \in Nat /\ call[t] # NoCall /\ call[t] \in Requests
      /\ call[t].op = "refresh" => disk.refresh[f] = {call[t].pair}
      /\ Entitled(call[t], disk)
  BY InsideCall DEF Issue, Inside, Placed, Progressed
<1>2. disk \in Tables /\ n \in Nat
  BY <1>1 DEF IInv, TypeOK, Tables
<1>3. /\ Moves(t, place, "ok") /\ UNCHANGED <<disk, open, lock, expired>>
      /\ work' = [disk EXCEPT !.users = users, !.issued[f] = n,
                              !.refresh[f] = @ \cup {n}, !.access[f] = @ \cup {n}]
  BY <1>1, GotoMoves DEF Issue, Write, IInv, Inside
<1>4. /\ work'.users = users
      /\ work'.issued = [disk.issued EXCEPT ![f] = n]
      /\ work'.refresh = [disk.refresh EXCEPT ![f] = @ \cup {n}]
      /\ work'.access = [disk.access EXCEPT ![f] = @ \cup {n}]
      /\ work'.rotated = disk.rotated
      /\ work' = [users |-> work'.users, issued |-> work'.issued, refresh |-> work'.refresh,
                  access |-> work'.access, rotated |-> work'.rotated]
  BY <1>2, <1>3 DEF Tables
<1>5. work' \in Tables
  <2>1. users \in SUBSET Names
    BY <1>1, <1>2 DEF Tables, Placed
  <2> QED BY <1>1, <1>2, <1>4, <2>1 DEF Tables
<1>6. Placed(call'[t])
  BY <1>1, <1>3, CallShape DEF Moves, Placed
<1>7. PairAdded(disk, work', f, IF call[t].op = "refresh" THEN {call[t].pair} ELSE {})
  <2>1. call[t].op # "refresh" => disk.refresh[f] = {}
    BY <1>1 DEF Entitled, Opening, Requests, IInv, NewestIsLive
  <2>2. disk.refresh[f] = IF call[t].op = "refresh" THEN {call[t].pair} ELSE {}
    BY <1>1, <2>1
  <2> HIDE DEF n, users
  <2> QED BY <1>1, <1>2, <1>4, <2>2 DEF PairAdded, n, users, Tables
<1>8. Progressed(call'[t], disk, work')
  BY <1>1, <1>3, <1>4, <1>7 DEF Moves, Progressed
<1> QED BY <1>1, <1>3, <1>5, <1>6, <1>8, StaysInside DEF Inside

(* The presented token gives way to the new one (ShroomAccountRefresh).    *)
LEMMA MarkStep ==
  ASSUME IInv, NEW t \in Threads, Mark(t)
  PROVE  IInv'
<1> DEFINE f == call[t].family  n == call[t].pair
<1>1. /\ call[t].at = "mark" /\ call[t].at \in Inside /\ lock = t /\ open
      /\ call[t].op = "refresh" /\ call[t].answer = "ok" /\ Placed(call[t])
      /\ f \in Families /\ n \in Nat /\ call[t] # NoCall
      /\ disk.refresh[f] = {n} /\ PairAdded(disk, work, f, {n})
  BY InsideCall DEF Mark, Inside, Placed, Progressed
<1>2. disk \in Tables /\ work \in Tables /\ disk.issued[f] \in Nat /\ n = disk.issued[f]
  BY <1>1 DEF IInv, TypeOK, Tables, NewestIsLive
<1>3. /\ Moves(t, "commit", "ok") /\ UNCHANGED <<disk, open, lock, expired>>
      /\ work' = [work EXCEPT !.refresh[f] = @ \ {n}, !.rotated[f] = @ \cup {n}]
  BY <1>1, GotoMoves DEF Mark, Write, IInv, Inside
<1>4. /\ work'.users = work.users /\ work'.issued = work.issued /\ work'.access = work.access
      /\ work'.refresh = [work.refresh EXCEPT ![f] = @ \ {n}]
      /\ work'.rotated = [work.rotated EXCEPT ![f] = @ \cup {n}]
      /\ work' = [users |-> work'.users, issued |-> work'.issued, refresh |-> work'.refresh,
                  access |-> work'.access, rotated |-> work'.rotated]
  BY <1>2, <1>3 DEF Tables
<1>5. work' \in Tables
  BY <1>1, <1>2, <1>4 DEF Tables
<1>6. Placed(call'[t])
  BY <1>1, <1>3, CallShape DEF Moves, Placed
<1>7. PairAdded(disk, work', f, {})
  <2>1. work.refresh[f] = {n} \cup {n + 1}
    BY <1>1, <1>2 DEF PairAdded, Tables
  <2>2. ({n} \cup {n + 1}) \ {n} = {} \cup {n + 1}
    BY <1>1
  <2>3. work'.refresh = [disk.refresh EXCEPT ![f] = {} \cup {disk.issued[f] + 1}]
    BY <1>1, <1>2, <1>4, <2>1, <2>2, ZenonT(60) DEF PairAdded, Tables
  <2> QED BY <1>1, <1>4, <2>3 DEF PairAdded
<1>8. Progressed(call'[t], disk, work')
  BY <1>1, <1>3, <1>7 DEF Moves, Progressed
<1> QED BY <1>1, <1>3, <1>5, <1>6, <1>8, StaysInside DEF Inside, IInv, TypeOK

(* The session ends with all its rows (RevokeFamily).                      *)
LEMMA RevokeStep ==
  ASSUME IInv, NEW t \in Threads, Revoke(t)
  PROVE  IInv'
<1> DEFINE f == call[t].family
<1>1. /\ call[t].at = "revoke" /\ call[t].at \in Inside /\ lock = t /\ open /\ work = disk
      /\ Presenting(call[t]) /\ call[t].answer \in {"ok", "invalid"} /\ Placed(call[t])
      /\ call[t].op = "refresh" => call[t].answer = "invalid"
      /\ f \in Families /\ call[t] # NoCall /\ disk.issued[f] > 0
  BY InsideCall DEF Revoke, Inside, Placed, Progressed
<1>2. disk \in Tables
  BY DEF IInv, TypeOK
<1>3. /\ Moves(t, "commit", call[t].answer) /\ UNCHANGED <<disk, open, lock, expired>>
      /\ work' = [disk EXCEPT !.refresh[f] = {}, !.access[f] = {}]
  BY <1>1, GotoMoves DEF Revoke, Write, IInv, Inside
<1>4. /\ work'.users = disk.users /\ work'.issued = disk.issued /\ work'.rotated = disk.rotated
      /\ work'.refresh = [disk.refresh EXCEPT ![f] = {}]
      /\ work'.access = [disk.access EXCEPT ![f] = {}]
      /\ work' = [users |-> work'.users, issued |-> work'.issued, refresh |-> work'.refresh,
                  access |-> work'.access, rotated |-> work'.rotated]
  BY <1>2, <1>3 DEF Tables
<1>5. work' \in Tables
  BY <1>1, <1>2, <1>4 DEF Tables
<1>6. Placed(call'[t])
  BY <1>1, <1>3, CallShape DEF Moves, Placed, Presenting
<1>7. FamilyEnded(disk, work', f)
  BY <1>1, <1>4 DEF FamilyEnded
<1>8. Progressed(call'[t], disk, work')
  BY <1>1, <1>3, <1>7 DEF Moves, Progressed, Presenting
<1> QED BY <1>1, <1>3, <1>5, <1>6, <1>8, StaysInside DEF Inside, IInv, TypeOK

(* The two ways a transaction can change the committed tables.             *)
LEMMA CommitEffect ==
  ASSUME IInv, NEW t \in Threads, call[t].at = "commit"
  PROVE  LET f == call[t].family IN
         \/ /\ call[t].op # "logout" /\ call[t].answer = "ok" /\ PairAdded(disk, work, f, {})
            /\ call[t].op = "refresh" => disk.refresh[f] # {}
            /\ call[t].op # "refresh" => disk.issued[f] = 0
            /\ call[t].op = "register" => call[t].name \in work.users
         \/ /\ Presenting(call[t]) /\ (call[t].op = "refresh" => call[t].answer = "invalid")
            /\ FamilyEnded(disk, work, f)
<1>1. Progressed(call[t], disk, work) /\ Entitled(call[t], disk) /\ call[t] \in Requests
  BY InsideCall
<1> QED BY <1>1 DEF Progressed, Entitled, Opening, Presenting, Requests

(* COMMIT makes the pair, or the end of the session, everybody's.          *)
LEMMA CommitStep ==
  ASSUME IInv, NEW t \in Threads, NEW ok \in BOOLEAN, Commit(t, ok)
  PROVE  IInv'
<1> DEFINE f == call[t].family
<1>1. /\ call[t].at = "commit" /\ call[t].at \in Inside /\ lock = t /\ open /\ Placed(call[t])
      /\ f \in Families /\ call[t].pair \in Nat /\ call[t] # NoCall /\ call[t] \in Requests
      /\ call[t].answer \in {"ok", "invalid"} /\ Entitled(call[t], disk)
  BY InsideCall DEF Commit, Inside, Placed
<1>2. ok
  BY <1>1 DEF Commit, IInv, TypeOK
<1>3. /\ Moves(t, "idle", call[t].answer)
      /\ disk' = work /\ work' = work /\ open' = FALSE /\ lock' = NoThread /\ expired' = expired
  BY <1>1, <1>2, AnswerMoves DEF Commit, IInv
<1>4. disk \in Tables /\ work \in Tables
  BY DEF IInv, TypeOK
<1>5. TypeOK'
  BY <1>3 DEF Moves, IInv, TypeOK
<1>6. TransactionsAreLocked'
  BY <1>1, <1>3, AccountParameters DEF Moves, IInv, TransactionsAreLocked, Inside
<1>7. /\ OpenedApart'
      /\ \A u \in Threads : Placed(call'[u]) /\ Progressed(call'[u], disk', work')
  <2>1. OpenedApart'
    BY <1>3 DEF Moves, IInv, OpenedApart, Opening
  <2>2. ASSUME NEW u \in Threads
        PROVE  call'[u].at \notin Inside /\ Placed(call'[u])
    <3>1. CASE u = t
      BY <1>1, <1>3, <3>1 DEF Moves, Placed, Inside
    <3>2. CASE u # t
      BY <1>1, <1>3, <3>2 DEF Moves, IInv, TransactionsAreLocked
    <3> QED BY <3>1, <3>2
  <2> QED BY <2>1, <2>2 DEF Progressed, Inside
<1>8. ASSUME NEW u \in Threads
      PROVE  /\ \/ call[u] = NoCall
                \/ call[u] \in Requests /\ call[u].family \in Families /\ call[u].pair \in Nat
             /\ Entitled(call[u], disk) /\ Answered(call[u], disk)
  <2>1. call[u] \in Requests => call[u].family \in Families /\ call[u].pair \in Nat
    BY DEF Requests
  <2> QED BY <2>1 DEF IInv, TypeOK
<1>8a. \A g \in Families : disk.issued[g] \in Nat /\ work.issued[g] \in Nat
  BY <1>4 DEF Tables
<1>8b. \A u \in Threads \ {t} : call'[u] = call[u]
  BY <1>3 DEF Moves
<1>9. CASE /\ call[t].op # "logout" /\ call[t].answer = "ok" /\ PairAdded(disk, work, f, {})
           /\ call[t].op = "refresh" => disk.refresh[f] # {}
           /\ call[t].op # "refresh" => disk.issued[f] = 0
           /\ call[t].op = "register" => call[t].name \in work.users
  <2>1. /\ work.issued[f] = disk.issued[f] + 1 /\ work.refresh[f] = {disk.issued[f] + 1}
        /\ \A g \in Families \ {f} : /\ work.issued[g] = disk.issued[g]
                                     /\ work.refresh[g] = disk.refresh[g]
                                     /\ work.access[g] = disk.access[g]
        /\ disk.users \subseteq work.users
    BY <1>1, <1>4, <1>9 DEF PairAdded, Tables
  <2>2. NewestIsLive'
    BY <1>1, <1>3, <1>8, <1>8a, <1>8b, <2>1 DEF IInv, NewestIsLive
  <2>3. ASSUME NEW u \in Threads \ {t}
        PROVE  Entitled(call'[u], work) /\ Answered(call'[u], work)
    <3>1. Opening(call[u]) => call[u].family # f
      BY <1>1, <1>8, <1>8a, <1>8b, <1>9, ZenonT(60) DEF Entitled, Opening, IInv, OpenedApart, NewestIsLive, Requests
    <3>2. Entitled(call[u], work)
      BY <1>1, <1>8, <1>8a, <1>8b, <2>1, <3>1 DEF Entitled, Opening, Presenting, NoCall
    <3>3. Closes(call[u]) => call[u].family # f
      <4>1. Closes(call[u]) => Presenting(call[u]) /\ call[u].pair > 0
        BY DEF Closes, Presenting
      <4> QED BY <1>1, <1>8, <1>8a, <1>8b, <1>9, <4>1 DEF Answered, Entitled, Presenting, NoCall
    <3>4. Answered(call[u], work)
      BY <1>1, <1>8, <1>8a, <1>8b, <2>1, <3>3 DEF Answered, Closes, NoCall
    <3> QED BY <1>8, <1>8a, <1>8b, <3>2, <3>4
  <2>4. Entitled(call'[t], work) /\ Answered(call'[t], work)
    <3>1. call[t].pair <= disk.issued[f]
      <4>1. call[t].op \in {"register", "login", "refresh", "logout"}
        BY <1>1 DEF Requests
      <4>2. Presenting(call[t]) => call[t].pair <= disk.issued[f]
        BY <1>1 DEF Entitled
      <4>3. call[t].op \in {"register", "login"} => call[t].pair = 0
        BY <1>1 DEF Placed
      <4>4. disk.issued[f] \in Nat
        BY <1>1, <1>8, <1>8a, <1>8b
      <4> QED BY <4>1, <4>2, <4>3, <4>4 DEF Presenting
    <3> QED BY <1>1, <1>3, <1>8, <1>8a, <1>8b, <1>9, <2>1, <3>1 DEF Moves, Entitled, Opening, Presenting, Answered, Closes
  <2> QED BY <1>3, <1>5, <1>6, <1>7, <2>2, <2>3, <2>4 DEF IInv
<1>10. CASE /\ Presenting(call[t]) /\ (call[t].op = "refresh" => call[t].answer = "invalid")
            /\ FamilyEnded(disk, work, f)
  <2>1. /\ work.issued = disk.issued /\ work.users = disk.users
        /\ work.refresh[f] = {} /\ work.access[f] = {}
        /\ \A g \in Families \ {f} : work.refresh[g] = disk.refresh[g] /\ work.access[g] = disk.access[g]
    BY <1>1, <1>4, <1>10 DEF FamilyEnded, Tables
  <2>2. NewestIsLive'
    BY <1>1, <1>3, <2>1 DEF IInv, NewestIsLive
  <2>3. ASSUME NEW u \in Threads \ {t}
        PROVE  Entitled(call'[u], work) /\ Answered(call'[u], work)
    <3>1. Entitled(call[u], work)
      BY <1>8, <1>8a, <1>8b, <2>1 DEF Entitled
    <3>2. Answered(call[u], work)
      <4>1. CASE call[u] = NoCall
        BY <4>1 DEF Answered, Closes, NoCall
      <4>2. CASE call[u].family \in Families
        BY <1>1, <1>8, <1>8a, <1>8b, <2>1, <4>2 DEF Answered
      <4> QED BY <1>8, <1>8a, <1>8b, <4>1, <4>2
    <3> QED BY <1>8, <1>8a, <1>8b, <3>1, <3>2
  <2>4. Entitled(call'[t], work) /\ Answered(call'[t], work)
    BY <1>1, <1>3, <1>10, <2>1 DEF Moves, Entitled, Opening, Presenting, Answered, Closes
  <2> QED BY <1>3, <1>5, <1>6, <1>7, <2>2, <2>3, <2>4 DEF IInv
<1> QED BY <1>1, <1>9, <1>10, CommitEffect

-----------------------------------------------------------------------------
(* The statements of a thread, the clock, a crash and the boot.            *)
LEMMA StepKeeps ==
  ASSUME IInv, NEW t \in Threads, Step(t)
  PROVE  IInv'
<1>1. CASE StatementFails(t)
  BY <1>1, RollbackStep DEF StatementFails, Inside
<1> QED BY <1>1, LockStep, ReadUserStep, VerifyStep, BeginStep, CommitStep, FindDuplicateStep,
           LookUpStep, IssueStep, MarkStep, RevokeStep DEF Step

(* The clock leaves rows and calls alone.                                  *)
LEMMA ExpireStep ==
  ASSUME IInv, NEW f \in Families, Expire(f)
  PROVE  IInv'
<1>1. expired' \in [Families -> Nat] /\ UNCHANGED <<disk, work, open, lock, call>>
  BY DEF Expire, IInv, TypeOK
<1>2. TypeOK' /\ TransactionsAreLocked' /\ OpenedApart' /\ NewestIsLive'
  BY <1>1 DEF IInv, TypeOK, TransactionsAreLocked, OpenedApart, NewestIsLive
<1> QED BY <1>1, <1>2 DEF IInv

(* After a crash nobody is inside and nobody has been told anything.       *)
LEMMA CrashStep ==
  ASSUME IInv, Crash
  PROVE  IInv'
<1>1. /\ work' = disk /\ disk' = disk /\ open' = FALSE /\ lock' = NoThread /\ expired' = expired
      /\ call' \in [Threads -> Requests \cup {NoCall}] /\ \A t \in Threads : call'[t] = NoCall
  BY DEF Crash
<1>2. TypeOK' /\ NewestIsLive'
  BY <1>1 DEF IInv, TypeOK, NewestIsLive
<1>3. TransactionsAreLocked' /\ OpenedApart'
  BY <1>1, AccountParameters DEF TransactionsAreLocked, OpenedApart, Opening, NoCall, Inside
<1>4. Placed(NoCall) /\ Entitled(NoCall, disk) /\ Answered(NoCall, disk) /\ Progressed(NoCall, disk, disk)
  BY DEF NoCall, Placed, Entitled, Opening, Presenting, Answered, Closes, Progressed
<1> QED BY <1>1, <1>2, <1>3, <1>4 DEF IInv

(* Empty tables and idle threads.                                          *)
LEMMA Initially == Init => IInv
<1> SUFFICES ASSUME Init PROVE IInv
  OBVIOUS
<1>1. EmptyTables \in Tables
  BY DEF EmptyTables, Tables
<1>2. TypeOK
  BY <1>1 DEF Init, TypeOK
<1>3. TransactionsAreLocked /\ OpenedApart
  BY AccountParameters DEF Init, TransactionsAreLocked, OpenedApart, Opening, NoCall, Inside
<1>4. NewestIsLive
  BY DEF Init, NewestIsLive, EmptyTables
<1>5. Placed(NoCall) /\ Entitled(NoCall, disk) /\ Answered(NoCall, disk) /\ Progressed(NoCall, disk, work)
  BY DEF NoCall, Placed, Entitled, Opening, Presenting, Answered, Closes, Progressed
<1> QED BY <1>2, <1>3, <1>4, <1>5 DEF Init, IInv

(* Every step keeps the invariant, one lemma per step.                     *)
LEMMA Inductive == IInv /\ [Next]_vars => IInv'
<1>1. ASSUME IInv, UNCHANGED vars PROVE IInv'
  <2>1. UNCHANGED <<disk, work, open, lock, call, expired>>
    BY <1>1 DEF vars
  <2>2. TypeOK' /\ TransactionsAreLocked' /\ OpenedApart' /\ NewestIsLive'
    BY <1>1, <2>1 DEF IInv, TypeOK, TransactionsAreLocked, OpenedApart, NewestIsLive
  <2> QED BY <1>1, <2>1, <2>2 DEF IInv
<1> QED BY <1>1, RequestStep, StepKeeps, ExpireStep, CrashStep DEF Next

(* Whatever the threads do in account_auth.c, IInv holds throughout.       *)
THEOREM Invariance == Spec => []IInv
BY Initially, Inductive, PTL DEF Spec

(* Rows, calls and the lock keep their shape.                              *)
THEOREM TypeCorrect == Spec => []TypeOK
<1>1. IInv => TypeOK
  BY DEF IInv
<1> QED BY <1>1, Invariance, PTL

(* A thread never meets, ends or rolls back the transaction of another     *)
(* (LockDatabase and UnlockDatabase on every path).                        *)
THEOREM LocksHold == Spec => []TransactionsAreLocked
<1>1. IInv => TransactionsAreLocked
  BY DEF IInv
<1> QED BY <1>1, Invariance, PTL

(* A session never has two refresh tokens that can be used: rotation,      *)
(* reuse and failing statements included (ShroomAccountRefresh).           *)
THEOREM LiveRefreshIsOne == Spec => []OneLiveRefresh
<1>1. ASSUME IInv, NEW f \in Families
      PROVE  Cardinality(disk.refresh[f]) <= 1
  <2>1. disk.refresh[f] = {} \/ disk.refresh[f] = {disk.issued[f]}
    BY <1>1 DEF IInv, NewestIsLive
  <2>2. Cardinality({}) = 0 /\ Cardinality({disk.issued[f]}) = 1
    BY FS_EmptySet, FS_Singleton
  <2> QED BY <2>1, <2>2
<1>2. IInv => OneLiveRefresh
  BY <1>1 DEF OneLiveRefresh
<1> QED BY <1>2, Invariance, PTL

(* What was answered is in the tables: every return follows a COMMIT that  *)
(* succeeded (ShroomAccountRegister, Login, Refresh).                      *)
THEOREM AnswersCommitted == Spec => []AnswersAreCommitted
<1>1. IInv => AnswersAreCommitted
  BY DEF IInv, Answered, AnswersAreCommitted
<1> QED BY <1>1, Invariance, PTL

(* A logout that was answered, and a reuse that was refused, leave the     *)
(* session without a token (ShroomAccountLogout, the reuse branch).        *)
THEOREM SessionsEnd == Spec => []AnsweredSessionsEnd
<1>1. IInv => AnsweredSessionsEnd
  BY DEF IInv, Answered, Closes, AnsweredSessionsEnd, Ended
<1> QED BY <1>1, Invariance, PTL

-----------------------------------------------------------------------------
(* The session shown by the tables: what is committed, and nothing else.   *)
Shown == [f \in Families |-> disk.issued[f] > 0 /\ disk.refresh[f] = {}]

(* Only Commit changes the committed tables; a Write has a transaction.    *)
LEMMA OnlyCommits ==
  ASSUME IInv, [Next]_vars
  PROVE  disk' = disk \/ \E t \in Threads : call[t].at = "commit" /\ disk' = work
<1>1. ASSUME NEW t \in Threads, Step(t)
      PROVE  disk' = disk \/ (call[t].at = "commit" /\ disk' = work)
  <2>1. call[t].at \in {"issue", "mark", "revoke"} => open
    BY InsideCall DEF Inside
  <2>2. CASE Issue(t) \/ Mark(t) \/ Revoke(t)
    BY <2>1, <2>2 DEF Issue, Mark, Revoke, Write
  <2>3. CASE \E ok \in BOOLEAN : Commit(t, ok)
    BY <2>3 DEF Commit, RollbackAnswering
  <2>4. CASE \E ok \in BOOLEAN : Begin(t, ok)
    BY <2>4 DEF Begin, RollbackAnswering
  <2> QED BY <1>1, <2>2, <2>3, <2>4 DEF Step, LockDatabase, ReadUser, Verify, FindDuplicate,
                                        LookUp, StatementFails, RollbackAnswering
<1>2. ASSUME NEW t \in Threads, Request(t)
      PROVE  disk' = disk
  BY <1>2 DEF Request, Register, Login, Present
<1> QED BY <1>1, <1>2 DEF Next, Expire, Crash, vars

(* A commit opens a session, exchanges its token, or ends it.              *)
LEMMA CommitShows ==
  ASSUME IInv, NEW t \in Threads, call[t].at = "commit", disk' = work,
         NEW f \in Families, f = call[t].family
  PROVE  Sessions!Next \/ UNCHANGED <<disk.issued, Shown>>
<1>1. /\ call[t] \in Requests /\ disk \in Tables /\ work \in Tables
      /\ \A g \in Families : disk.issued[g] \in Nat
  BY InsideCall DEF IInv, TypeOK, Tables
<1>2. CASE /\ call[t].op # "logout" /\ PairAdded(disk, work, f, {})
           /\ call[t].op = "refresh" => disk.refresh[f] # {}
           /\ call[t].op # "refresh" => disk.issued[f] = 0
  <2>1. /\ work.issued = [disk.issued EXCEPT ![f] = @ + 1]
        /\ work.issued[f] = disk.issued[f] + 1 /\ work.refresh[f] = {disk.issued[f] + 1}
        /\ \A g \in Families \ {f} : work.issued[g] = disk.issued[g] /\ work.refresh[g] = disk.refresh[g]
    BY <1>1, <1>2 DEF PairAdded, Tables
  <2>2. disk.refresh[f] = {} => disk.issued[f] = 0
    BY <1>2
  <2>3. disk.refresh[f] # {} => disk.issued[f] > 0
    BY <1>1 DEF IInv, NewestIsLive
  <2>4. Shown' = Shown
    BY <1>1, <2>1, <2>2 DEF Shown
  <2>5. CASE disk.issued[f] = 0
    <3>1. Sessions!Open(f)
      BY <1>1, <2>1, <2>4, <2>5 DEF Sessions!Open, Shown
    <3> QED BY <1>1, <3>1 DEF Sessions!Next
  <2>6. CASE disk.issued[f] > 0
    <3>1. Sessions!Exchange(f)
      BY <1>1, <2>1, <2>2, <2>4, <2>6 DEF Sessions!Exchange, Shown
    <3> QED BY <1>1, <3>1 DEF Sessions!Next
  <2> QED BY <1>1, <2>5, <2>6
<1>3. CASE FamilyEnded(disk, work, f)
  <2>1. /\ work.issued = disk.issued /\ disk.issued[f] > 0 /\ work.refresh[f] = {}
        /\ \A g \in Families \ {f} : work.refresh[g] = disk.refresh[g]
    BY <1>1, <1>3 DEF FamilyEnded, Tables
  <2>2. Shown' = [Shown EXCEPT ![f] = TRUE]
    BY <1>1, <2>1 DEF Shown
  <2>3. Sessions!End(f)
    BY <1>1, <2>1, <2>2 DEF Sessions!End, Shown
  <2> QED BY <2>3 DEF Sessions!Next
<1> QED BY <1>2, <1>3, CommitEffect

(* The tables implement the sessions of docs/rest-api-spec.md: opened      *)
(* once, exchanged one for one, and never used again once they ended.      *)
THEOREM RefinesSessions == Spec => ImplementsSessions
<1>1. Init => Sessions!Init
  <2>1. ASSUME Init
        PROVE  disk.issued = [f \in Families |-> 0] /\ Shown = [f \in Families |-> FALSE]
    <3>1. disk.issued = [f \in Families |-> 0] /\ \A f \in Families : ~(disk.issued[f] > 0)
      BY <2>1 DEF Init, EmptyTables
    <3> QED BY <3>1 DEF Shown
  <2> QED BY <2>1 DEF Sessions!Init, Shown
<1>2. ASSUME IInv, [Next]_vars
      PROVE  Sessions!Next \/ UNCHANGED <<disk.issued, Shown>>
  <2>1. CASE disk' = disk
    BY <2>1 DEF Shown
  <2>2. ASSUME NEW t \in Threads, call[t].at = "commit", disk' = work
        PROVE  Sessions!Next \/ UNCHANGED <<disk.issued, Shown>>
    <3>1. PICK f \in Families : f = call[t].family
      BY <1>2, <2>2, InsideCall
    <3> QED BY <1>2, <2>2, <3>1, CommitShows
  <2> QED BY <1>2, <2>1, <2>2, OnlyCommits
<1>3. IInv /\ [Next]_vars => [Sessions!Next]_<<disk.issued, Shown>>
  BY <1>2
<1> QED BY <1>1, <1>3, Invariance, PTL DEF Spec, ImplementsSessions, Sessions!Spec, Shown

=============================================================================
