------------------------- MODULE AccountClientProofs -------------------------
(***************************************************************************)
(* The session a client uses is the one its file holds, for any number of  *)
(* sessions and tokens, wherever an answer gets lost, the disk fails or    *)
(* the game is killed.                                                     *)
(***************************************************************************)
EXTENDS Accounts, TLAPS

(* The places of the worker at which a session is in use: its refresh      *)
(* token is in memory (RunOperation, Request).                             *)
UsesSession ==
  \/ worker.at \in {"get me", "logout", "refresh", "me", "leave"}
  \/ worker.at = "hear" /\ worker.request \in {"refresh", "me", "leave"}

(* The places at which a new pair is on its way to the file.               *)
HoldsPair ==
  \/ worker.at = "save"
  \/ worker.at = "hear" /\ worker.request \in {"sign in", "refresh"} /\ worker.answer = "ok"

(* Not only the tokens of a session that was confirmed, but every refresh  *)
(* token in memory is the stored one; a thread that works has one, or is   *)
(* about to store one, and a client that does not run has nothing.         *)
Kept ==
  /\ ~running => memory = Client!NoSecrets /\ worker.at = "none"
  /\ memory.refresh # Client!NoToken => file = memory.refresh
  /\ memory.authenticated => memory.refresh # Client!NoToken
  /\ UsesSession => memory.refresh # Client!NoToken
  /\ HoldsPair => worker.pair # Client!NoToken
  /\ worker.at = "hear" => worker.answer # "none"

IInv == Client!TypeOK /\ Kept

-----------------------------------------------------------------------------
(* What the records of the model are built from                            *)

(* The tokens the server issues are none of them "no token", and what is   *)
(* not "no token" is a token of a session (HandleRefresh).                 *)
LEMMA TokenFacts ==
  /\ Client!NoToken \in Client!Tokens
  /\ \A f \in Families, n \in Nat \ {0} : <<f, n>> \in Client!Tokens /\ <<f, n>> # Client!NoToken
  /\ \A token \in Client!Tokens : token # Client!NoToken => Client!Session(token) \in Families
BY DEF Client!Tokens, Client!NoToken, Client!Session

(* An operation that starts, one that ends (Start, RunOperation).          *)
LEMMA FlowFacts ==
  /\ Client!NoOperation \in Client!Flows
  /\ \A op \in Client!Operations, created \in BOOLEAN :
       [state |-> IF created THEN "working" ELSE "failed", op |-> op,
        result |-> IF created THEN "ok" ELSE "transport"] \in Client!Flows
  /\ \A g \in Client!Flows, r \in Client!Results :
       [g EXCEPT !.result = r, !.state = IF r = "ok" THEN "succeeded" ELSE "failed"] \in Client!Flows
  /\ \A g \in Client!Flows : [g EXCEPT !.state = "idle", !.op = "none"] \in Client!Flows
<1>1. /\ Client!NoOperation \in Client!Flows
      /\ \A g \in Client!Flows : [g EXCEPT !.state = "idle", !.op = "none"] \in Client!Flows
  BY DEF Client!Flows, Client!NoOperation, Client!Results
<1>2. \A op \in Client!Operations, created \in BOOLEAN :
        [state |-> IF created THEN "working" ELSE "failed", op |-> op,
         result |-> IF created THEN "ok" ELSE "transport"] \in Client!Flows
  BY DEF Client!Flows, Client!Results
<1>3. ASSUME NEW g \in Client!Flows, NEW r \in Client!Results
      PROVE  [g EXCEPT !.result = r, !.state = IF r = "ok" THEN "succeeded" ELSE "failed"] \in Client!Flows
  BY <1>3 DEF Client!Flows
<1> QED BY <1>1, <1>2, <1>3

(* The fields of a thread after each way the model changes it.             *)
LEMMA ThreadFacts ==
  /\ Client!NoThread \in Client!Workers /\ Client!NoThread.at = "none"
  /\ \A at \in Client!Operations \cup Client!Requests \cup {"none"} :
       [Client!NoThread EXCEPT !.at = at] \in Client!Workers /\ [Client!NoThread EXCEPT !.at = at].at = at
BY TokenFacts DEF Client!Workers, Client!NoThread, Client!Operations, Client!Requests, Client!Results

LEMMA GotoFacts ==
  ASSUME worker \in Client!Workers, NEW at \in Client!Requests \cup {"save"}, Client!Goto(at)
  PROVE  /\ worker' \in Client!Workers /\ worker'.at = at /\ flow' = flow
         /\ worker'.pair = worker.pair /\ worker'.request = worker.request
BY DEF Client!Goto, Client!Workers, Client!Requests

LEMMA RefreshFacts ==
  ASSUME worker \in Client!Workers, NEW next \in {"get me", "me", "leave"}, Client!Refresh(next)
  PROVE  worker' \in Client!Workers /\ worker'.at = "refresh" /\ flow' = flow
BY DEF Client!Refresh, Client!Workers, Client!Requests

LEMMA AnswerFacts ==
  ASSUME worker \in Client!Workers, worker.at \in Client!Requests,
         NEW answer \in Client!Results, NEW pair \in Client!Tokens,
         Client!Answered(answer, pair)
  PROVE  /\ worker' \in Client!Workers /\ worker'.at = "hear" /\ worker'.request = worker.at
         /\ worker'.answer = answer /\ worker'.pair = pair
BY DEF Client!Answered, Client!Workers, Client!Requests

(* A sign-in goes to its request, what needs a session to its own or to a  *)
(* refresh (RunOperation).                                                 *)
LEMMA OperationFacts ==
  ASSUME worker \in Client!Workers, Client!RunOperation
  PROVE  /\ worker' \in Client!Workers /\ flow' = flow
         /\ \/ worker'.at = "sign in"
            \/ worker.at \in {"get me", "logout"} /\ worker'.at \in {"me", "leave", "refresh"}
<1>1. CASE worker.at \in {"register", "login"}
  BY <1>1 DEF Client!RunOperation, Client!Workers, Client!Requests
<1>2. CASE worker.at \in {"get me", "logout"}
  BY <1>2, GotoFacts, RefreshFacts DEF Client!RunOperation, Client!EnsureAccess, Client!Requests
<1> QED BY <1>1, <1>2 DEF Client!RunOperation

(* The memory that forgets, restores or uses a session, and whose access   *)
(* token ages (ClearSecrets, ShroomClientRestRestore, PersistTokens).      *)
LEMMA MemoryFacts ==
  /\ Client!NoSecrets \in Client!Memories
  /\ Client!NoSecrets.refresh = Client!NoToken /\ Client!NoSecrets.authenticated = FALSE
  /\ \A m \in Client!Memories, token \in Client!Tokens :
       LET r == [m EXCEPT !.refresh = token]
           u == [refresh |-> token, access |-> "fresh", authenticated |-> TRUE, profile |-> m.profile]
       IN /\ r \in Client!Memories /\ r.refresh = token /\ r.authenticated = m.authenticated
          /\ u \in Client!Memories /\ u.refresh = token
  /\ \A m \in Client!Memories :
       LET a == [m EXCEPT !.access = "old"]
           p == [m EXCEPT !.profile = TRUE, !.authenticated = TRUE]
       IN /\ a \in Client!Memories /\ a.refresh = m.refresh /\ a.authenticated = m.authenticated
          /\ p \in Client!Memories /\ p.refresh = m.refresh
BY TokenFacts DEF Client!Memories, Client!NoSecrets

-----------------------------------------------------------------------------
(* Type correctness                                                        *)

(* Start leaves a well-formed operation, and its thread at the operation.  *)
LEMMA StartFacts ==
  ASSUME NEW op \in Client!Operations, NEW created \in BOOLEAN, Client!Start(op, created)
  PROVE  flow' \in Client!Flows /\ worker' \in Client!Workers /\ worker'.at \in {op, "none"}
BY FlowFacts, ThreadFacts DEF Client!Start

(* The end of an operation: the thread is gone.                            *)
LEMMA FinishFacts ==
  ASSUME flow \in Client!Flows, NEW result \in Client!Results, Client!Finish(result)
  PROVE  /\ flow' \in Client!Flows /\ worker' = Client!NoThread /\ worker' \in Client!Workers
         /\ worker'.at = "none"
BY FlowFacts, ThreadFacts DEF Client!Finish

(* What the thread of the user interface does (account_flow.c, the panel). *)
LEMMA PlayerTypes == Client!TypeOK /\ Client!Player => Client!TypeOK'
<1> SUFFICES ASSUME Client!TypeOK, Client!Player PROVE Client!TypeOK'
  OBVIOUS
<1> USE DEF Client!TypeOK, Client!server
<1>1. ASSUME NEW same \in BOOLEAN, NEW created \in BOOLEAN, Client!Launch(same, created)
      PROVE  Client!TypeOK'
  <2>1. flow' \in Client!Flows /\ worker' \in Client!Workers
    BY <1>1, StartFacts DEF Client!Launch, Client!Operations
  <2> QED BY <1>1, <2>1, TokenFacts DEF Client!Launch
<1>2. ASSUME NEW op \in {"register", "login"}, NEW created \in BOOLEAN, Client!SignIn(op, created)
      PROVE  Client!TypeOK'
  BY <1>2, StartFacts DEF Client!SignIn, Client!Operations
<1>3. ASSUME NEW created \in BOOLEAN, Client!RetryProfile(created) PROVE Client!TypeOK'
  BY <1>3, StartFacts DEF Client!RetryProfile, Client!Operations
<1>4. ASSUME NEW created \in BOOLEAN, Client!LogOut(created) PROVE Client!TypeOK'
  BY <1>4, StartFacts DEF Client!LogOut, Client!Operations
<1>5. CASE Client!Acknowledge
  BY <1>5, FlowFacts DEF Client!Acknowledge
<1>6. CASE Client!Quit
  BY <1>6, FlowFacts, MemoryFacts DEF Client!Quit
<1>7. CASE Client!Kill
  BY <1>7, FlowFacts, ThreadFacts, MemoryFacts DEF Client!Kill
<1> QED BY <1>1, <1>2, <1>3, <1>4, <1>5, <1>6, <1>7 DEF Client!Player

(* A request changes neither memory nor file; the pair it may bring back   *)
(* is a token (HandleLogin, HandleRefresh, Request).                       *)
LEMMA RequestTypes ==
  ASSUME Client!TypeOK, Kept,
         \/ \E f \in Families : Client!ServeSignIn(f)
         \/ Client!ServeRefresh \/ Client!ServeAuthenticated \/ Client!ServeError
  PROVE  Client!TypeOK'
<1> USE DEF Client!TypeOK, Client!Results, Client!Requests
<1>1. ASSUME NEW answer \in Client!Results, NEW pair \in Client!Tokens,
             Client!Answered(answer, pair), worker.at \in Client!Requests
      PROVE  /\ worker' \in Client!Workers /\ running' \in BOOLEAN
             /\ flow' \in Client!Flows /\ memory' \in Client!Memories
             /\ file' \in Client!Tokens
  BY <1>1, AnswerFacts DEF Client!Answered
<1>2. ASSUME NEW f \in Families, Client!ServeSignIn(f) PROVE Client!TypeOK'
  <2>1. <<f, 1>> \in Client!Tokens
    BY TokenFacts
  <2>2. worker.at \in Client!Requests /\ Client!Answered("ok", <<f, 1>>)
    BY <1>2 DEF Client!ServeSignIn
  <2> QED BY <1>1, <1>2, <2>1, <2>2 DEF Client!ServeSignIn, Client!Server!Open
<1>3. CASE Client!ServeRefresh
  <2> DEFINE f == Client!Session(memory.refresh)
  <2>1. f \in Families /\ worker.at = "refresh"
    BY <1>3, TokenFacts DEF Client!ServeRefresh, Kept, UsesSession, Client!Memories
  <2>2. CASE Client!Current(memory.refresh)
    <3>1. <<f, issued[f] + 1>> \in Client!Tokens
      BY <2>1, TokenFacts
    <3> QED BY <1>1, <1>3, <2>1, <2>2, <3>1 DEF Client!ServeRefresh, Client!Server!Exchange
  <2>3. CASE ~Client!Current(memory.refresh)
    BY <1>1, <1>3, <2>1, <2>3, TokenFacts DEF Client!ServeRefresh, Client!Server!End
  <2> QED BY <2>2, <2>3
<1>4. CASE Client!ServeAuthenticated
  <2>1. issued' \in [Families -> Nat] /\ ended' \in [Families -> BOOLEAN]
    BY <1>4 DEF Client!ServeAuthenticated, Client!Server!End
  <2>2. ASSUME NEW answer \in {"ok", "unauthorized"}, Client!Answered(answer, Client!NoToken) PROVE Client!TypeOK'
    BY <1>1, <1>4, <2>1, <2>2, TokenFacts DEF Client!ServeAuthenticated
  <2> QED BY <1>4, <2>2 DEF Client!ServeAuthenticated
<1>5. CASE Client!ServeError
  BY <1>1, <1>5, TokenFacts DEF Client!ServeError, Client!server
<1> QED BY <1>2, <1>3, <1>4, <1>5

(* What was heard of a request is one of the results.                      *)
LEMMA HeardFacts ==
  ASSUME Client!TypeOK, Kept, Client!Heard, NEW done \in BOOLEAN
  PROVE  Client!Result(done) \in Client!Results
BY DEF Client!TypeOK, Kept, Client!Heard, Client!Workers, Client!Result, Client!Results

(* What the worker does with the file, an answer or a failure of either    *)
(* (client_rest.c).                                                        *)
LEMMA WorkerTypes ==
  ASSUME Client!TypeOK, Kept,
         \/ Client!RunOperation \/ Client!Restore
         \/ \E done \in BOOLEAN : \/ Client!HearTokens(done) \/ Client!PersistTokens(done)
                                  \/ Client!HearProfile(done) \/ Client!HearGoodbye(done)
  PROVE  Client!TypeOK'
<1> USE DEF Client!TypeOK, Client!server
<1>1. CASE Client!RunOperation
  BY <1>1, OperationFacts DEF Client!RunOperation
<1>2. CASE Client!Restore
  <2>1. CASE file = Client!NoToken \/ Client!Session(file) \in old
    BY <1>2, <2>1, FinishFacts, MemoryFacts, TokenFacts
      
         DEF Client!Restore, Client!ShroomClientSessionLoad, Client!ShroomClientSessionDelete,
             Client!Forget, Client!Results
  <2>2. CASE ~(file = Client!NoToken \/ Client!Session(file) \in old)
    <3>1. memory' \in Client!Memories
      BY <1>2, <2>2 DEF Client!Restore, Client!ShroomClientSessionLoad, Client!Memories
    <3> QED BY <1>2, <2>2, <3>1, RefreshFacts DEF Client!Restore, Client!ShroomClientSessionLoad
  <2> QED BY <2>1, <2>2
<1>3. ASSUME NEW done \in BOOLEAN, Client!HearTokens(done) PROVE Client!TypeOK'
  <2>1. CASE Client!Result(done) = "ok"
    BY <1>3, <2>1, GotoFacts DEF Client!HearTokens
  <2>2. CASE Client!Result(done) # "ok"
    BY <1>3, <2>2, HeardFacts, FinishFacts, MemoryFacts, TokenFacts, ZenonT(60)
       DEF Client!HearTokens, Client!Heard, Client!Forget, Client!ShroomClientSessionDelete
  <2> QED BY <2>1, <2>2
<1>4. ASSUME NEW done \in BOOLEAN, Client!PersistTokens(done) PROVE Client!TypeOK'
  <2>1. /\ worker.pair \in Client!Tokens
        /\ worker.next \in Client!Operations \cup Client!Requests \cup {"none"}
    BY DEF Client!Workers, Client!Requests, Client!Operations
  <2>2. CASE done
    <3>1. memory' \in Client!Memories
      <4>1. memory' = [refresh |-> worker.pair, access |-> "fresh", authenticated |-> TRUE,
                       profile |-> memory.profile]
        BY <1>4, <2>2 DEF Client!PersistTokens
      <4> QED BY <4>1, <2>1 DEF Client!Memories
    <3>2. worker' \in Client!Workers
      BY <1>4, <2>1, <2>2, ThreadFacts DEF Client!PersistTokens
    <3> QED BY <1>4, <2>1, <2>2, <3>1, <3>2 DEF Client!PersistTokens, Client!ShroomClientSessionSave
  <2>3. CASE ~done
    BY <1>4, <2>3, FinishFacts, MemoryFacts, TokenFacts, ZenonT(60)
      DEF Client!PersistTokens, Client!Results
  <2> QED BY <2>2, <2>3
<1>5. ASSUME NEW done \in BOOLEAN, Client!HearProfile(done) PROVE Client!TypeOK'
  BY <1>5, HeardFacts, FinishFacts, MemoryFacts DEF Client!HearProfile, Client!Heard
<1>6. ASSUME NEW done \in BOOLEAN, Client!HearGoodbye(done) PROVE Client!TypeOK'
  BY <1>6, HeardFacts, FinishFacts, MemoryFacts, TokenFacts
     DEF Client!HearGoodbye, Client!Heard, Client!Forget, Client!ShroomClientSessionDelete
<1> QED BY <1>1, <1>2, <1>3, <1>4, <1>5, <1>6

-----------------------------------------------------------------------------
(* The tokens in use are the stored ones                                   *)

(* Nothing is stored and nothing in use before the first launch.          *)
LEMMA InitKept == Client!Init => IInv
<1> SUFFICES ASSUME Client!Init PROVE IInv
  OBVIOUS
<1>1. Client!TypeOK
  BY TokenFacts, FlowFacts, ThreadFacts, MemoryFacts DEF Client!Init, Client!Server!Init, Client!TypeOK
<1>2. Kept
  BY ThreadFacts, MemoryFacts DEF Client!Init, Kept, UsesSession, HoldsPair
<1> QED BY <1>1, <1>2 DEF IInv

(* The player starts an operation that needs a session only when there is  *)
(* one; what ends the game ends its thread and forgets its tokens.         *)
LEMMA PlayerKept == Client!TypeOK /\ Kept /\ Client!Player => Kept'
<1> SUFFICES ASSUME Client!TypeOK, Kept, Client!Player PROVE Kept'
  OBVIOUS
<1> USE DEF Client!TypeOK, Kept, UsesSession, HoldsPair
<1>1. ASSUME NEW same \in BOOLEAN, NEW created \in BOOLEAN, Client!Launch(same, created)
      PROVE  Kept'
  <2>1. memory' = Client!NoSecrets /\ running' = TRUE
    BY <1>1 DEF Client!Launch
  <2>2. worker'.at \in {"restore", "none"}
    BY <1>1, StartFacts DEF Client!Launch, Client!Operations
  <2> QED BY <2>1, <2>2, MemoryFacts
<1>2. ASSUME NEW op \in {"register", "login"}, NEW created \in BOOLEAN, Client!SignIn(op, created)
      PROVE  Kept'
  <2>1. worker'.at \in {"register", "login", "none"}
    BY <1>2, StartFacts DEF Client!SignIn, Client!Operations
  <2> QED BY <1>2, <2>1 DEF Client!SignIn
<1>3. ASSUME NEW created \in BOOLEAN, Client!RetryProfile(created) \/ Client!LogOut(created)
      PROVE  Kept'
  <2>1. worker'.at \in {"get me", "logout", "none"}
    BY <1>3, StartFacts DEF Client!RetryProfile, Client!LogOut, Client!Operations
  <2>2. /\ memory.authenticated /\ memory' = memory /\ file' = file /\ running' = running
    BY <1>3 DEF Client!RetryProfile, Client!LogOut
  <2> QED BY <2>1, <2>2, MemoryFacts
<1>4. CASE Client!Acknowledge
  BY <1>4 DEF Client!Acknowledge
<1>5. CASE Client!Quit
  BY <1>5, MemoryFacts DEF Client!Quit
<1>6. CASE Client!Kill
  BY <1>6, ThreadFacts, MemoryFacts DEF Client!Kill
<1> QED BY <1>1, <1>2, <1>3, <1>4, <1>5, <1>6 DEF Client!Player

(* A pair comes back only with the answer "ok", and is a token.            *)
LEMMA RequestKept ==
  ASSUME Client!TypeOK, Kept,
         \/ \E f \in Families : Client!ServeSignIn(f)
         \/ Client!ServeRefresh \/ Client!ServeAuthenticated \/ Client!ServeError
  PROVE  Kept'
<1> USE DEF Client!TypeOK
<1>1. ASSUME NEW answer \in Client!Results, NEW pair \in Client!Tokens,
             Client!Answered(answer, pair), worker.at \in Client!Requests,
             worker.at \in {"sign in", "refresh"} /\ answer = "ok" => pair # Client!NoToken
      PROVE  Kept'
  <2>1. /\ worker'.at = "hear" /\ worker'.request = worker.at /\ worker'.answer = answer
        /\ worker'.pair = pair
    BY <1>1, AnswerFacts
  <2>2. running' = running /\ memory' = memory /\ file' = file
    BY <1>1 DEF Client!Answered
  <2>3. running /\ answer # "none"
    BY <1>1 DEF Kept, Client!Requests, Client!Results
  <2>4. UsesSession' => UsesSession
    BY <2>1, <2>2 DEF UsesSession
  <2>5. HoldsPair' => pair # Client!NoToken
    BY <1>1, <2>1 DEF HoldsPair
  <2> QED BY <2>1, <2>2, <2>3, <2>4, <2>5 DEF Kept
<1>2. ASSUME NEW f \in Families, Client!ServeSignIn(f) PROVE Kept'
  <2>1. <<f, 1>> \in Client!Tokens /\ <<f, 1>> # Client!NoToken
    BY TokenFacts
  <2>2. worker.at \in Client!Requests /\ Client!Answered("ok", <<f, 1>>)
    BY <1>2 DEF Client!ServeSignIn, Client!Requests
  <2> QED BY <1>1, <2>1, <2>2 DEF Client!Results
<1>3. CASE Client!ServeRefresh
  <2> DEFINE f == Client!Session(memory.refresh)
  <2>1. f \in Families /\ worker.at \in Client!Requests
    BY <1>3, TokenFacts DEF Client!ServeRefresh, Kept, UsesSession, Client!Memories, Client!Requests
  <2>2. CASE Client!Current(memory.refresh)
    <3>1. <<f, issued[f] + 1>> \in Client!Tokens /\ <<f, issued[f] + 1>> # Client!NoToken
      BY <2>1, TokenFacts
    <3>2. Client!Answered("ok", <<f, issued[f] + 1>>)
      BY <1>3, <2>2 DEF Client!ServeRefresh
    <3> QED BY <1>1, <2>1, <3>1, <3>2 DEF Client!Results
  <2>3. CASE ~Client!Current(memory.refresh)
    <3>1. Client!Answered("unauthorized", Client!NoToken)
      BY <1>3, <2>3 DEF Client!ServeRefresh
    <3> QED BY <1>1, <2>1, <3>1, TokenFacts DEF Client!Results
  <2> QED BY <2>2, <2>3
<1>4. CASE Client!ServeAuthenticated
  <2>1. worker.at \in Client!Requests /\ worker.at \notin {"sign in", "refresh"}
    BY <1>4 DEF Client!ServeAuthenticated, Client!Requests
  <2>2. ASSUME NEW answer \in {"ok", "unauthorized"}, Client!Answered(answer, Client!NoToken) PROVE Kept'
    BY <1>1, <2>1, <2>2, TokenFacts DEF Client!Results
  <2> QED BY <1>4, <2>2 DEF Client!ServeAuthenticated
<1>5. CASE Client!ServeError
  <2>1. worker.at \in Client!Requests /\ Client!Answered("error", Client!NoToken)
    BY <1>5 DEF Client!ServeError, Client!Requests
  <2> QED BY <1>1, <2>1, TokenFacts DEF Client!Results
<1> QED BY <1>2, <1>3, <1>4, <1>5

(* Tokens enter memory from the file or after they were written to it, and *)
(* leave the file together with memory (PersistTokens, Forget).            *)
LEMMA WorkerKept ==
  ASSUME Client!TypeOK, Kept,
         \/ Client!RunOperation \/ Client!Restore
         \/ \E done \in BOOLEAN : \/ Client!HearTokens(done) \/ Client!PersistTokens(done)
                                  \/ Client!HearProfile(done) \/ Client!HearGoodbye(done)
  PROVE  Kept'
<1> USE DEF Client!TypeOK, Client!server
<1>0. worker.at # "none" => running
  BY DEF Kept
<1>1. ASSUME worker'.at = "none", running,
             \/ memory' = Client!NoSecrets
             \/ memory' = memory /\ file' = file
             \/ memory'.refresh = memory.refresh /\ memory.refresh # Client!NoToken /\ file' = file,
             running' = running
      PROVE  Kept'
  BY <1>1, MemoryFacts DEF Kept, UsesSession, HoldsPair
<1>2. CASE Client!RunOperation
  <2>1. memory' = memory /\ file' = file /\ running' = running /\ worker.at \in Client!Operations
    BY <1>2 DEF Client!RunOperation, Client!Operations
  <2>2. ~HoldsPair' /\ worker'.at # "hear" /\ (UsesSession' => UsesSession)
    BY <1>2, OperationFacts DEF UsesSession, HoldsPair
  <2> QED BY <1>0, <2>1, <2>2 DEF Kept, Client!Operations
<1>3. CASE Client!Restore
  <2>1. CASE file = Client!NoToken \/ Client!Session(file) \in old
    BY <1>0, <1>1, <1>3, <2>1, FinishFacts
      DEF Client!Restore, Client!ShroomClientSessionLoad, Client!Forget, Client!Results
  <2>2. CASE ~(file = Client!NoToken \/ Client!Session(file) \in old)
    <3>1. /\ worker'.at = "refresh" /\ running /\ running' = running /\ file' = file
          /\ file # Client!NoToken
      BY <1>0, <1>3, <2>2, RefreshFacts DEF Client!Restore, Client!ShroomClientSessionLoad
    <3>2. memory'.refresh = file
      BY <1>3, <2>2 DEF Client!Restore, Client!ShroomClientSessionLoad, Client!Memories
    <3> QED BY <3>1, <3>2 DEF Kept, UsesSession, HoldsPair
  <2> QED BY <2>1, <2>2
<1>4. ASSUME NEW done \in BOOLEAN, Client!HearTokens(done) PROVE Kept'
  <2>1. CASE Client!Result(done) = "ok"
    <3>1. worker.answer = "ok"
      BY <2>1 DEF Client!Result
    <3>2. worker'.at = "save" /\ worker'.pair = worker.pair /\ HoldsPair
      BY <1>4, <2>1, <3>1, GotoFacts DEF Client!HearTokens, Client!Heard, HoldsPair
    <3>3. memory' = memory /\ file' = file /\ running' = running
      BY <1>4, <2>1 DEF Client!HearTokens
    <3> QED BY <1>0, <3>2, <3>3 DEF Kept, UsesSession, HoldsPair
  <2>2. CASE Client!Result(done) # "ok"
    BY <1>0, <1>1, <1>4, <2>2, HeardFacts, FinishFacts DEF Client!HearTokens, Client!Heard, Client!Forget
  <2> QED BY <2>1, <2>2
<1>5. ASSUME NEW done \in BOOLEAN, Client!PersistTokens(done) PROVE Kept'
  <2>1. CASE done
    <3>1. memory'.refresh = worker.pair /\ file' = worker.pair /\ worker.pair # Client!NoToken
      BY <1>5, <2>1 DEF Client!PersistTokens, Client!ShroomClientSessionSave, Kept, HoldsPair
    <3>2. worker'.at \in {"none", "get me", "me", "leave"} /\ running /\ running' = running
      <4>1. worker.next \in {"none", "get me", "me", "leave"}
        BY DEF Client!Workers
      <4>2. /\ worker' = [Client!NoThread EXCEPT !.at = worker.next] /\ worker.at = "save"
            /\ running' = running
        BY <1>5, <2>1 DEF Client!PersistTokens
      <4> QED BY <1>0, <4>1, <4>2, ThreadFacts DEF Client!Operations, Client!Requests
    <3> QED BY <3>1, <3>2 DEF Kept, UsesSession, HoldsPair
  <2>2. CASE ~done
    BY <1>0, <1>1, <1>5, <2>2, FinishFacts DEF Client!PersistTokens, Client!Results
  <2> QED BY <2>1, <2>2
<1>6. ASSUME NEW done \in BOOLEAN, Client!HearProfile(done) PROVE Kept'
  <2>1. memory.refresh # Client!NoToken
    BY <1>6 DEF Client!HearProfile, Client!Heard, Kept, UsesSession
  <2>2. memory'.refresh = memory.refresh
    BY <1>6, MemoryFacts DEF Client!HearProfile
  <2> QED BY <1>0, <1>1, <1>6, <2>1, <2>2, HeardFacts, FinishFacts DEF Client!HearProfile, Client!Heard
<1>7. ASSUME NEW done \in BOOLEAN, Client!HearGoodbye(done) PROVE Kept'
  BY <1>0, <1>1, <1>7, HeardFacts, FinishFacts DEF Client!HearGoodbye, Client!Heard, Client!Forget
<1> QED BY <1>2, <1>3, <1>4, <1>5, <1>6, <1>7

(* Every step keeps the types and what is stored.                          *)
LEMMA Inductive == IInv /\ [Client!Next]_Client!vars => IInv'
<1> SUFFICES ASSUME IInv, [Client!Next]_Client!vars PROVE IInv'
  OBVIOUS
<1> USE DEF IInv
<1>1. CASE Client!Player
  BY <1>1, PlayerTypes, PlayerKept
<1>2. CASE Client!Work
  <2>1. CASE \/ Client!RunOperation \/ Client!Restore
             \/ \E done \in BOOLEAN : \/ Client!HearTokens(done) \/ Client!PersistTokens(done)
                                      \/ Client!HearProfile(done) \/ Client!HearGoodbye(done)
    BY <2>1, WorkerTypes, WorkerKept
  <2>2. CASE \/ \E f \in Families : Client!ServeSignIn(f)
             \/ Client!ServeRefresh \/ Client!ServeAuthenticated \/ Client!ServeError
    BY <2>2, RequestTypes, RequestKept
  <2> QED BY <1>2, <2>1, <2>2 DEF Client!Work
<1>3. CASE Client!AccessAges
  <2>1. memory' \in Client!Memories /\ memory'.refresh = memory.refresh
        /\ memory'.authenticated = memory.authenticated
    BY <1>3 DEF Client!AccessAges, Client!TypeOK, Client!Memories
  <2>2. memory # Client!NoSecrets
    BY <1>3 DEF Client!AccessAges, Client!NoSecrets
  <2> QED BY <1>3, <2>1, <2>2
    DEF Client!AccessAges, Client!TypeOK, Kept, UsesSession, HoldsPair, Client!server
<1>4. ASSUME NEW f \in Families, Client!SessionAges(f) PROVE IInv'
  BY <1>4 DEF Client!SessionAges, Client!TypeOK, Kept, UsesSession, HoldsPair
<1>5. CASE UNCHANGED Client!vars
  BY <1>5 DEF Client!vars, Client!TypeOK, Kept, UsesSession, HoldsPair
<1> QED BY <1>1, <1>2, <1>3, <1>4, <1>5 DEF Client!Next

(* The operation, the tokens, the file and the server's sessions are well  *)
(* formed in every behaviour (ShroomAccountFlow, ShroomClientRest).        *)
THEOREM TypeCorrect == Client!Spec => []Client!TypeOK
<1>1. IInv => Client!TypeOK
  BY DEF IInv
<1> QED BY <1>1, InitKept, Inductive, PTL DEF Client!Spec

(* Who is signed in stays signed in after the game is left or killed: the  *)
(* tokens in use are the stored ones (PersistTokens of client_rest.c).     *)
THEOREM SessionAlwaysStored == Client!Spec => []SessionIsStored
<1>1. IInv => Client!SessionIsStored
  BY DEF IInv, Kept, Client!SessionIsStored
<1> QED BY <1>1, InitKept, Inductive, PTL DEF Client!Spec, SessionIsStored

-----------------------------------------------------------------------------
(* Only sessions that lost a pair are reused                               *)

(* An operation under way is shown as such; a pair on its way is the       *)
(* newest of its session; and the token in the file is the newest, unless  *)
(* a pair of that session got lost or is on its way to it.                 *)
Newest ==
  /\ worker.at # "none" => flow.state = "working"
  /\ worker.pair # Client!NoToken => HoldsPair /\ worker.pair[2] = issued[Client!Session(worker.pair)]
  /\ file # Client!NoToken =>
       /\ file[2] <= issued[Client!Session(file)]
       /\ \/ file[2] = issued[Client!Session(file)]
          \/ Client!Session(file) \in strayed \cup Client!Unstored
  /\ Client!OnlyStrayedAreReused

(* A step that issues no pair and does not touch the file but to delete it *)
(* (ClearSecrets, Request of client_rest.c).                               *)
LEMMA NothingIssued ==
  ASSUME Client!TypeOK, Newest,
         worker'.at # "none" => flow'.state = "working",
         issued' = issued, file' \in {file, Client!NoToken}, strayed \subseteq strayed',
         reused' \subseteq strayed',
         \/ worker'.pair = worker.pair /\ (HoldsPair => HoldsPair')
         \/ worker'.pair = Client!NoToken /\ Client!Unstored \subseteq strayed'
  PROVE  Newest'
<1>1. Client!Unstored \subseteq strayed' \cup Client!Unstored'
  BY DEF Client!Unstored
<1>2. worker'.pair # Client!NoToken => HoldsPair' /\ worker'.pair[2] = issued'[Client!Session(worker'.pair)]
  BY DEF Newest
<1>3. file' # Client!NoToken => /\ file'[2] <= issued'[Client!Session(file')]
                         /\ \/ file'[2] = issued'[Client!Session(file')]
                            \/ Client!Session(file') \in strayed' \cup Client!Unstored'
  BY <1>1 DEF Newest
<1> QED BY <1>2, <1>3 DEF Newest, Client!OnlyStrayedAreReused

(* A thread starts with no pair (Start of account_flow.c).                 *)
LEMMA StartsEmpty ==
  ASSUME NEW op \in Client!Operations, NEW created \in BOOLEAN, Client!Start(op, created)
  PROVE  worker'.pair = Client!NoToken /\ (worker'.at # "none" => flow'.state = "working")
BY DEF Client!Start, Client!NoThread

(* Neither a thread that ends nor a place outside Request has a pair.      *)
LEMMA PairFacts ==
  ASSUME Newest, worker.at \notin {"hear", "save"}
  PROVE  Client!Unstored = {} /\ worker.pair = Client!NoToken
BY DEF Newest, HoldsPair, Client!Unstored

(* The player stops the client or starts an operation; the pair of one     *)
(* that was killed is lost.                                                *)
LEMMA PlayerNewest == Client!TypeOK /\ Kept /\ Newest /\ Client!Player => Newest'
<1> SUFFICES ASSUME Client!TypeOK, Kept, Newest, Client!Player PROVE Newest'
  OBVIOUS
<1>0. reused \subseteq strayed
  BY DEF Newest, Client!OnlyStrayedAreReused
<1>1. ASSUME NEW op \in Client!Operations, NEW created \in BOOLEAN, Client!Start(op, created),
             issued' = issued, file' \in {file, Client!NoToken}, strayed' = strayed, reused' = reused
      PROVE  Newest'
  <2>1. Client!Unstored = {}
    BY <1>1, PairFacts DEF Client!Start, Newest
  <2> QED BY <1>0, <1>1, <2>1, StartsEmpty, NothingIssued
<1>2. ASSUME NEW same \in BOOLEAN, NEW created \in BOOLEAN, Client!Launch(same, created)
      PROVE  Newest'
  <2>1. "restore" \in Client!Operations
    BY DEF Client!Operations
  <2>2. issued' = issued /\ file' \in {file, Client!NoToken} /\ strayed' = strayed /\ reused' = reused
    BY <1>2 DEF Client!Launch, Client!server
  <2>3. CASE UNCHANGED <<flow, worker>>
    <3>1. HoldsPair' <=> HoldsPair
      BY <2>3 DEF HoldsPair
    <3> QED BY <1>0, <2>2, <2>3, <3>1, NothingIssued DEF Newest
  <2>4. CASE Client!Start("restore", created)
    BY <1>1, <2>1, <2>2, <2>4
  <2> QED BY <1>2, <2>3, <2>4 DEF Client!Launch
<1>3. ASSUME NEW op \in {"register", "login"}, NEW created \in BOOLEAN, Client!SignIn(op, created)
      PROVE  Newest'
  BY <1>1, <1>3 DEF Client!SignIn, Client!Operations, Client!server
<1>4. ASSUME NEW created \in BOOLEAN, Client!RetryProfile(created) \/ Client!LogOut(created)
      PROVE  Newest'
  <2>1. "get me" \in Client!Operations /\ "logout" \in Client!Operations
    BY DEF Client!Operations
  <2> QED BY <1>1, <1>4, <2>1 DEF Client!RetryProfile, Client!LogOut, Client!server
<1>5. CASE Client!Acknowledge
  <2>1. worker.at = "none" /\ UNCHANGED <<worker, file, issued, reused, strayed>>
    BY <1>5 DEF Client!Acknowledge, Newest, Client!server
  <2>2. HoldsPair' <=> HoldsPair
    BY <2>1 DEF HoldsPair
  <2> QED BY <1>0, <2>1, <2>2, NothingIssued
<1>6. CASE Client!Quit
  <2>1. worker.at = "none" /\ UNCHANGED <<worker, file, issued, reused, strayed>>
    BY <1>6 DEF Client!Quit, Client!server
  <2>2. HoldsPair' <=> HoldsPair
    BY <2>1 DEF HoldsPair
  <2> QED BY <1>0, <2>1, <2>2, NothingIssued
<1>7. CASE Client!Kill
  <2>1. /\ worker' = Client!NoThread /\ strayed' = strayed \cup Client!Unstored
        /\ UNCHANGED <<file, issued, reused>>
    BY <1>7 DEF Client!Kill, Client!server
  <2>2. worker'.at = "none" /\ worker'.pair = Client!NoToken
    BY <2>1 DEF Client!NoThread
  <2> QED BY <1>0, <2>1, <2>2, NothingIssued
<1> QED BY <1>2, <1>3, <1>4, <1>5, <1>6, <1>7 DEF Client!Player

(* The server issues a pair, which is on its way, or none; what comes back *)
(* to it used is an older token of the file (HandleRefresh).               *)
LEMMA RequestNewest ==
  ASSUME Client!TypeOK, Kept, Newest,
         \/ \E f \in Families : Client!ServeSignIn(f)
         \/ Client!ServeRefresh \/ Client!ServeAuthenticated \/ Client!ServeError
  PROVE  Newest'
<1>0. reused \subseteq strayed /\ worker \in Client!Workers /\ file \in Client!Tokens
  BY DEF Newest, Client!OnlyStrayedAreReused, Client!TypeOK
<1>1. ASSUME NEW answer \in Client!Results, worker.at \in Client!Requests, Client!Answered(answer, Client!NoToken),
             issued' = issued, reused' \subseteq strayed
      PROVE  Newest'
  <2>1. Client!Unstored = {} /\ flow.state = "working"
    BY <1>1, PairFacts DEF Client!Requests, Newest
  <2>2. worker'.pair = Client!NoToken /\ UNCHANGED <<flow, file, strayed>>
    BY <1>0, <1>1, TokenFacts, AnswerFacts DEF Client!Answered
  <2> QED BY <1>1, <2>1, <2>2, NothingIssued
<1>2. ASSUME NEW f \in Families, NEW m \in Nat \ {0}, issued[f] <= m, issued' = [issued EXCEPT ![f] = m],
             worker.at \in {"sign in", "refresh"}, Client!Answered("ok", <<f, m>>), reused' = reused
      PROVE  Newest'
  <2>0. issued[f] \in Nat /\ issued'[f] = m /\ \A g \in Families \ {f} : issued'[g] = issued[g]
    BY <1>2 DEF Client!TypeOK
  <2>1. PICK k \in Nat : k = issued[f] /\ k <= m
    BY <1>2, <2>0
  <2>2. PICK pair : pair = <<f, m>>
    OBVIOUS
  <2>3. pair \in Client!Tokens /\ pair # Client!NoToken /\ Client!Session(pair) = f /\ pair[2] = m
    BY <2>2, TokenFacts DEF Client!Session
  <2>4. worker.at \in Client!Requests /\ "ok" \in Client!Results
    BY <1>2 DEF Client!Requests, Client!Results
  <2>5. /\ worker'.at = "hear" /\ worker'.request = worker.at /\ worker'.answer = "ok"
        /\ worker'.pair = pair /\ UNCHANGED <<flow, file, strayed>>
    BY <1>0, <1>2, <2>2, <2>3, <2>4, AnswerFacts DEF Client!Answered
  <2>6. Client!Unstored = {} /\ flow.state = "working"
    BY <1>2, PairFacts DEF Newest
  <2>7. Client!Unstored' = {f}
    BY <2>3, <2>5 DEF Client!Unstored
  <2>8. HoldsPair' /\ worker'.pair[2] = issued'[Client!Session(worker'.pair)]
    BY <1>2, <2>0, <2>3, <2>5 DEF HoldsPair
  <2>9. ASSUME file # Client!NoToken
        PROVE  /\ file[2] <= issued'[Client!Session(file)]
               /\ file[2] = issued'[Client!Session(file)] \/ Client!Session(file) \in strayed \cup {f}
    <3>1. PICK g : g = Client!Session(file)
      OBVIOUS
    <3>2. g \in Families /\ file[2] \in Nat
      BY <1>0, <2>9, <3>1, TokenFacts DEF Client!Tokens
    <3>3. file[2] <= issued[g] /\ (file[2] = issued[g] \/ g \in strayed)
      BY <2>6, <2>9, <3>1 DEF Newest
    <3>4. CASE g = f
      BY <2>0, <2>1, <3>1, <3>2, <3>3, <3>4
    <3>5. CASE g # f
      BY <2>0, <3>1, <3>2, <3>3, <3>5
    <3> QED BY <3>4, <3>5
  <2> QED BY <1>0, <1>2, <2>5, <2>6, <2>7, <2>8, <2>9 DEF Newest, Client!OnlyStrayedAreReused
<1>3. ASSUME NEW f \in Families, Client!ServeSignIn(f) PROVE Newest'
  <2>1. /\ issued[f] = 0 /\ issued' = [issued EXCEPT ![f] = 1] /\ Client!Answered("ok", <<f, 1>>)
        /\ worker.at \in {"sign in", "refresh"} /\ reused' = reused
    BY <1>3 DEF Client!ServeSignIn, Client!Server!Open
  <2>2. PICK m \in Nat \ {0} : m = 1 /\ 0 <= m
    OBVIOUS
  <2> QED BY <1>2, <2>1, <2>2
<1>4. CASE Client!ServeRefresh
  <2>1. PICK f, token : f = Client!Session(token) /\ token = memory.refresh
    OBVIOUS
  <2>2. /\ worker.at = "refresh" /\ token # Client!NoToken /\ file = token /\ f \in Families
        /\ issued[f] \in Nat
    BY <1>0, <1>4, <2>1, TokenFacts DEF Client!ServeRefresh, Kept, UsesSession, Client!TypeOK
  <2>3. CASE Client!Current(token)
    <3>1. PICK m \in Nat \ {0} : m = issued[f] + 1 /\ issued[f] <= m
      BY <2>2
    <3>2. /\ issued' = [issued EXCEPT ![f] = m] /\ Client!Answered("ok", <<f, m>>)
          /\ reused' = reused
      BY <1>4, <2>1, <2>3, <3>1 DEF Client!ServeRefresh, Client!Server!Exchange
    <3> QED BY <1>2, <2>2, <3>1, <3>2
  <2>4. CASE ~Client!Current(token)
    <3>1. issued' = issued /\ Client!Answered("unauthorized", Client!NoToken)
      BY <1>4, <2>1, <2>4 DEF Client!ServeRefresh, Client!Server!End
    <3>2. reused' = reused \/ (token[2] < issued[f] /\ reused' = reused \cup {f})
      BY <1>4, <2>1, <2>4 DEF Client!ServeRefresh
    <3>3. token[2] < issued[f] => f \in strayed
      BY <2>1, <2>2, PairFacts DEF Newest
    <3>4. worker.at \in Client!Requests /\ "unauthorized" \in Client!Results
      BY <2>2 DEF Client!Requests, Client!Results
    <3> QED BY <1>0, <1>1, <3>1, <3>2, <3>3, <3>4
  <2> QED BY <2>3, <2>4
<1>5. CASE Client!ServeAuthenticated
  <2>1. /\ issued' = issued /\ reused' = reused /\ worker.at \in Client!Requests
        /\ Client!Answered("unauthorized", Client!NoToken) \/ Client!Answered("ok", Client!NoToken)
    BY <1>5 DEF Client!ServeAuthenticated, Client!Server!End, Client!Requests
  <2> QED BY <1>0, <1>1, <2>1 DEF Client!Results
<1>6. CASE Client!ServeError
  BY <1>0, <1>1, <1>6 DEF Client!ServeError, Client!server, Client!Requests, Client!Results
<1> QED BY <1>3, <1>4, <1>5, <1>6

(* A pair gets into the file or counts as lost (HearTokens, PersistTokens).*)
LEMMA WorkerNewest ==
  ASSUME Client!TypeOK, Kept, Newest,
         \/ Client!RunOperation \/ Client!Restore
         \/ \E done \in BOOLEAN : \/ Client!HearTokens(done) \/ Client!PersistTokens(done)
                                 \/ Client!HearProfile(done) \/ Client!HearGoodbye(done)
  PROVE  Newest'
<1>0. reused \subseteq strayed /\ worker \in Client!Workers /\ flow \in Client!Flows
  BY DEF Newest, Client!OnlyStrayedAreReused, Client!TypeOK
<1>1. ASSUME worker.at \notin {"hear", "save"}, worker'.pair = worker.pair, flow' = flow, worker.at # "none",
             UNCHANGED <<file, issued, reused, strayed>>
      PROVE  Newest'
  <2>1. Client!Unstored = {} /\ worker.pair = Client!NoToken /\ flow.state = "working"
    BY <1>1, PairFacts DEF Newest
  <2> QED BY <1>0, <1>1, <2>1, NothingIssued
<1>2. ASSUME NEW result, Client!Finish(result), file' \in {file, Client!NoToken}, UNCHANGED <<issued, reused>>,
             strayed' \in {strayed, strayed \cup Client!Unstored}, Client!Unstored \subseteq strayed'
      PROVE  Newest'
  <2>1. worker'.at = "none" /\ worker'.pair = Client!NoToken
    BY <1>2 DEF Client!Finish, Client!NoThread
  <2> QED BY <1>0, <1>2, <2>1, NothingIssued
<1>3. CASE Client!RunOperation
  <2>1. /\ worker.at \in {"register", "login", "get me", "logout"}
        /\ UNCHANGED <<file, issued, reused, strayed>>
    BY <1>3 DEF Client!RunOperation, Client!server
  <2>2. worker'.pair = worker.pair /\ flow' = flow
    BY <1>0, <1>3
      DEF Client!RunOperation, Client!EnsureAccess, Client!Goto, Client!Refresh, Client!Workers
  <2> QED BY <1>1, <2>1, <2>2
<1>4. CASE Client!Restore
  <2>1. worker.at = "restore" /\ UNCHANGED <<issued, reused, strayed>>
    BY <1>4 DEF Client!Restore, Client!server
  <2>2. Client!Unstored = {}
    BY <2>1, PairFacts
  <2>3. CASE file = Client!NoToken \/ Client!Session(file) \in old
    BY <1>2, <1>4, <2>1, <2>2, <2>3
      DEF Client!Restore, Client!ShroomClientSessionLoad, Client!Forget, Client!ShroomClientSessionDelete
  <2>4. CASE ~(file = Client!NoToken \/ Client!Session(file) \in old)
    <3>1. Client!Refresh("get me") /\ file' = file
      BY <1>4, <2>4 DEF Client!Restore, Client!ShroomClientSessionLoad
    <3>2. worker'.pair = worker.pair /\ flow' = flow
      BY <1>0, <3>1 DEF Client!Refresh, Client!Workers
    <3> QED BY <1>1, <2>1, <3>1, <3>2
  <2> QED BY <2>3, <2>4
<1>5. ASSUME NEW done \in BOOLEAN, Client!HearTokens(done) PROVE Newest'
  <2>1. worker.at = "hear" /\ UNCHANGED <<issued, reused>> /\ flow.state = "working"
    BY <1>5 DEF Client!HearTokens, Client!Heard, Client!server, Newest
  <2>2. CASE Client!Result(done) = "ok"
    <3>1. /\ worker'.at = "save" /\ worker'.pair = worker.pair /\ flow' = flow
          /\ UNCHANGED <<file, strayed>>
      BY <1>0, <1>5, <2>2, GotoFacts DEF Client!HearTokens
    <3>2. HoldsPair'
      BY <3>1 DEF HoldsPair
    <3> QED BY <1>0, <2>1, <3>1, <3>2, NothingIssued
  <2>3. CASE Client!Result(done) # "ok"
    BY <1>2, <1>5, <2>1, <2>3 DEF Client!HearTokens, Client!Forget, Client!ShroomClientSessionDelete
  <2> QED BY <2>2, <2>3
<1>6. ASSUME NEW done \in BOOLEAN, Client!PersistTokens(done) PROVE Newest'
  <2>1. worker.at = "save" /\ UNCHANGED <<issued, reused>> /\ flow.state = "working"
    BY <1>6 DEF Client!PersistTokens, Client!server, Newest
  <2>2. CASE done
    <3>1. /\ file' = worker.pair /\ worker' = [Client!NoThread EXCEPT !.at = worker.next]
          /\ UNCHANGED <<flow, strayed>>
      BY <1>6, <2>2 DEF Client!PersistTokens, Client!ShroomClientSessionSave
    <3>2. worker'.pair = Client!NoToken
      BY <3>1 DEF Client!NoThread
    <3>3. /\ worker.pair # Client!NoToken /\ worker.pair[2] = issued[Client!Session(worker.pair)]
          /\ worker.pair \in Client!Tokens
      BY <1>0, <2>1 DEF Newest, Kept, HoldsPair, Client!Workers
    <3>4. file'[2] <= issued'[Client!Session(file')] /\ file'[2] = issued'[Client!Session(file')]
      BY <2>1, <3>1, <3>3, TokenFacts DEF Client!TypeOK
    <3> QED BY <1>0, <2>1, <3>1, <3>2, <3>4 DEF Newest, Client!OnlyStrayedAreReused
  <2>3. CASE ~done
    BY <1>2, <1>6, <2>1, <2>3 DEF Client!PersistTokens
  <2> QED BY <2>2, <2>3
<1>7. ASSUME NEW done \in BOOLEAN, Client!HearProfile(done) \/ Client!HearGoodbye(done) PROVE Newest'
  <2>1. worker.at = "hear" /\ worker.request \in {"me", "leave"} /\ UNCHANGED <<issued, reused, strayed>>
    BY <1>7 DEF Client!HearProfile, Client!HearGoodbye, Client!Heard, Client!server
  <2>2. Client!Unstored = {}
    BY <2>1 DEF Newest, HoldsPair, Client!Unstored
  <2>3. Client!Finish(Client!Result(done)) /\ file' \in {file, Client!NoToken}
    BY <1>7 DEF Client!HearProfile, Client!HearGoodbye, Client!Forget, Client!ShroomClientSessionDelete
  <2> QED BY <1>2, <2>1, <2>2, <2>3
<1> QED BY <1>3, <1>4, <1>5, <1>6, <1>7

(* A session ends by reuse only after one of its pairs was issued and got  *)
(* lost: the client presents the newest token it could know of             *)
(* (EnsureAccess, PersistTokens of client_rest.c).                         *)
THEOREM OnlyLostPairsAreReused == Client!Spec => []OnlyStrayedAreReused
<1>1. Client!Init => Newest
  BY DEF Client!Init, Newest, Client!OnlyStrayedAreReused, Client!NoThread, Client!NoToken
<1>2. IInv /\ Newest /\ [Client!Next]_Client!vars => Newest'
  <2> SUFFICES ASSUME IInv, Newest, [Client!Next]_Client!vars PROVE Newest'
    OBVIOUS
  <2>1. Client!TypeOK /\ Kept
    BY DEF IInv
  <2>2. CASE Client!Player
    BY <2>1, <2>2, PlayerNewest
  <2>3. CASE Client!Work
    BY <2>1, <2>3, RequestNewest, WorkerNewest DEF Client!Work
  <2>4. ASSUME UNCHANGED <<flow, worker, file, issued, reused, strayed>>
        PROVE  Newest'
    BY <2>4 DEF Newest, HoldsPair, Client!Unstored, Client!OnlyStrayedAreReused
  <2> QED BY <2>2, <2>3, <2>4
    DEF Client!Next, Client!AccessAges, Client!SessionAges, Client!vars, Client!server
<1>3. Newest => Client!OnlyStrayedAreReused
  BY DEF Newest
<1> QED BY <1>1, <1>2, <1>3, InitKept, Inductive, PTL DEF Client!Spec, OnlyStrayedAreReused

=============================================================================
