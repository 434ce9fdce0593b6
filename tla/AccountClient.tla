---------------------------- MODULE AccountClient -----------------------------
(***************************************************************************)
(* The account of a player, seen from the client: the panel of the main    *)
(* menu starts one operation at a time (src/client/account_flow.c), whose  *)
(* worker thread talks to the REST server (src/client/client_rest.c) and   *)
(* keeps the refresh token in session.cfg (client_session_store.c).        *)
(*                                                                         *)
(* The server is TokenSessions, which AccountTokens implements.  A token   *)
(* is a session and a generation; which texts are valid JSON, the headers  *)
(* and the password rules are left out.  An answer that is none of the     *)
(* expected (a refusal, the rate limit, a failing database) is "error".    *)
(***************************************************************************)
EXTENDS Naturals

CONSTANTS
  Families,    \* sessions the server may open
  MaxPairs     \* bound on the pairs issued to a session

ClientParameters == MaxPairs \in Nat \ {0}

VARIABLES
  running,     \* the client runs
  flow,        \* ShroomAccountFlow: state, operation and result
  worker,      \* the thread: its place, what follows new tokens, the request and its answer
  memory,      \* ShroomClientRest: tokens, authenticated, profile
  file,        \* the refresh token in session.cfg
  issued,      \* the server: pairs of each session
  ended,       \* and whether it ended
  old,         \* sessions whose last refresh token expired
  strayed,     \* sessions of which a pair was issued and not stored (history)
  reused       \* sessions ended because a used token came back (history)

vars == <<running, flow, worker, memory, file, issued, ended, old, strayed, reused>>
server == <<issued, ended, old, reused>>

Server == INSTANCE TokenSessions

NoToken == <<"none", 0>>
Session(token) == token[1]
Current(token) ==
  token # NoToken /\ token[2] = issued[Session(token)] /\ ~ended[Session(token)]
                  /\ Session(token) \notin old

(* The file is replaced as a whole: it never holds a part of a session.    *)
(* One that is missing, altered or readable by others loads as none.       *)
ShroomClientSessionSave(token) == file' = token
ShroomClientSessionLoad == file
ShroomClientSessionDelete == file' = NoToken

(* ClearSecrets, ShroomClientRestInit. *)
NoSecrets == [refresh |-> NoToken, access |-> "none", authenticated |-> FALSE, profile |-> FALSE]

(* ShroomAccountFlowInit. *)
NoOperation == [state |-> "idle", op |-> "none", result |-> "ok"]
NoThread == [at |-> "none", next |-> "none", request |-> "none", answer |-> "none",
             pair |-> NoToken]

Init ==
  /\ running = FALSE /\ flow = NoOperation /\ worker = NoThread
  /\ memory = NoSecrets /\ file = NoToken
  /\ Server!Init
  /\ old = {} /\ strayed = {} /\ reused = {}

-----------------------------------------------------------------------------
(* The thread of the user interface                                        *)

(* Start: a thread for one operation; the thread before it was joined.     *)
Start(op, created) ==
  /\ flow.state # "working"
  /\ flow' = [state |-> IF created THEN "working" ELSE "failed", op |-> op,
              result |-> IF created THEN "ok" ELSE "transport"]
  /\ worker' = IF created THEN [NoThread EXCEPT !.at = op] ELSE NoThread

(* main: a session stored for another service is deleted, one for this     *)
(* service is restored.                                                    *)
Launch(same, created) ==
  /\ ~running /\ running' = TRUE
  /\ file' = IF same THEN file ELSE NoToken
  /\ IF file' = NoToken THEN UNCHANGED <<flow, worker>> ELSE Start("restore", created)
  /\ UNCHANGED <<memory, server, strayed>>

(* The buttons of DrawAccountPanel. *)
SignIn(op, created) ==
  /\ running /\ ~memory.authenticated /\ op \in {"register", "login"}
  /\ Start(op, created)
  /\ UNCHANGED <<running, memory, file, server, strayed>>

RetryProfile(created) ==
  /\ memory.authenticated /\ flow.state = "failed"
  /\ Start("get me", created)
  /\ UNCHANGED <<running, memory, file, server, strayed>>

LogOut(created) ==
  /\ memory.authenticated
  /\ Start("logout", created)
  /\ UNCHANGED <<running, memory, file, server, strayed>>

(* A frame joins the thread of an operation that succeeded; one that       *)
(* failed is acknowledged by the tabs and by Close Account.                *)
Acknowledge ==
  /\ running /\ flow.state \in {"succeeded", "failed"}
  /\ flow' = [flow EXCEPT !.state = "idle", !.op = "none"]
  /\ UNCHANGED <<running, worker, memory, file, server, strayed>>

(* Leaving the game waits for the thread and forgets the tokens.           *)
Quit ==
  /\ running /\ worker.at = "none"
  /\ running' = FALSE /\ flow' = NoOperation /\ memory' = NoSecrets
  /\ UNCHANGED <<worker, file, server, strayed>>

(* The session of a pair that is on its way to session.cfg. *)
Unstored == IF worker.pair = NoToken THEN {} ELSE {Session(worker.pair)}

Kill ==
  /\ running
  /\ running' = FALSE /\ flow' = NoOperation /\ worker' = NoThread /\ memory' = NoSecrets
  /\ strayed' = strayed \cup Unstored
  /\ UNCHANGED <<file, server>>

(* An access token comes within ACCESS_REFRESH_SKEW_SECONDS of its end;    *)
(* it lives for longer than an operation takes.                            *)
AccessAges ==
  /\ worker.at = "none" /\ memory.access = "fresh"
  /\ memory' = [memory EXCEPT !.access = "old"]
  /\ UNCHANGED <<running, flow, worker, file, server, strayed>>

(* A refresh token expires, on the server and by the date in session.cfg.  *)
SessionAges(f) ==
  /\ issued[f] > 0 /\ old' = old \cup {f}
  /\ UNCHANGED <<running, flow, worker, memory, file, issued, ended, strayed, reused>>

-----------------------------------------------------------------------------
(* The worker thread                                                       *)

Goto(place) == worker' = [worker EXCEPT !.at = place] /\ UNCHANGED flow
Refresh(next) == worker' = [worker EXCEPT !.at = "refresh", !.next = next] /\ UNCHANGED flow

(* The end of RunOperation: the thread publishes the state and returns.    *)
Finish(result) ==
  /\ flow' = [flow EXCEPT !.result = result,
                          !.state = IF result = "ok" THEN "succeeded" ELSE "failed"]
  /\ worker' = NoThread

Forget == ShroomClientSessionDelete /\ memory' = NoSecrets

(* EnsureAccess: a fresh access token, or a refresh first.                 *)
EnsureAccess(next) == IF memory.access = "fresh" THEN Goto(next) ELSE Refresh(next)

(* RunOperation: every sign-in is followed by the profile (get me).        *)
RunOperation ==
  /\ \/ worker.at \in {"register", "login"}
        /\ worker' = [worker EXCEPT !.at = "sign in", !.next = "get me"] /\ UNCHANGED flow
     \/ worker.at = "get me" /\ EnsureAccess("me")
     \/ worker.at = "logout" /\ EnsureAccess("leave")
  /\ UNCHANGED <<running, memory, file, server, strayed>>

(* ShroomClientRestRestore: a missing or expired session is deleted.       *)
Restore ==
  LET stored == ShroomClientSessionLoad
  IN /\ worker.at = "restore"
     /\ IF stored = NoToken \/ Session(stored) \in old
        THEN Forget /\ Finish("unauthorized")
        ELSE memory' = [memory EXCEPT !.refresh = stored] /\ Refresh("get me") /\ UNCHANGED file
     /\ UNCHANGED <<running, server, strayed>>

(* Request: the server has handled it, and the answer is on its way.       *)
Answered(answer, pair) ==
  /\ worker' = [worker EXCEPT !.at = "hear", !.request = worker.at, !.answer = answer,
                              !.pair = pair]
  /\ UNCHANGED <<running, flow, memory, file, strayed>>

(* HandleRegister, HandleLogin: a new session.                             *)
ServeSignIn(f) ==
  /\ worker.at = "sign in"
  /\ Server!Open(f) /\ UNCHANGED <<old, reused>>
  /\ Answered("ok", <<f, 1>>)

(* HandleRefresh: the current token of a session is exchanged, any other   *)
(* ends the session.                                                       *)
ServeRefresh ==
  LET token == memory.refresh  f == Session(token)
  IN /\ worker.at = "refresh"
     /\ IF Current(token)
        THEN /\ issued[f] < MaxPairs
             /\ Server!Exchange(f) /\ UNCHANGED reused
             /\ Answered("ok", <<f, issued[f] + 1>>)
        ELSE /\ Server!End(f)
             /\ reused' = IF ~ended[f] /\ token[2] < issued[f] THEN reused \cup {f} ELSE reused
             /\ Answered("unauthorized", NoToken)
     /\ UNCHANGED old

(* HandleAuthenticated: the profile, or the end of the session.            *)
ServeAuthenticated ==
  LET f == Session(memory.refresh)
  IN /\ worker.at \in {"me", "leave"}
     /\ Answered(IF ended[f] THEN "unauthorized" ELSE "ok", NoToken)
     /\ IF worker.at = "leave" /\ ~ended[f] THEN Server!End(f) ELSE UNCHANGED <<issued, ended>>
     /\ UNCHANGED <<old, reused>>

(* A refused request, one too many (CheckRate), a failing database, or a   *)
(* transport that did not reach the server: no session is touched.         *)
ServeError ==
  /\ worker.at \in {"sign in", "refresh", "me", "leave"}
  /\ Answered("error", NoToken)
  /\ UNCHANGED server

(* Request returns: the answer, or nothing when the transport times out.   *)
Heard == worker.at = "hear"
Result(arrives) == IF arrives THEN worker.answer ELSE "transport"

(* New tokens are to be stored; a refresh that was refused forgets the     *)
(* session, and so does a log-out that got no tokens.                      *)
HearTokens(arrives) ==
  /\ Heard /\ worker.request \in {"sign in", "refresh"}
  /\ IF Result(arrives) = "ok"
     THEN Goto("save") /\ UNCHANGED <<memory, file, strayed>>
     ELSE /\ IF worker.request = "refresh" /\ (Result(arrives) = "unauthorized" \/ worker.next = "leave")
             THEN Forget ELSE UNCHANGED <<file, memory>>
          /\ strayed' = strayed \cup Unstored
          /\ Finish(Result(arrives))
  /\ UNCHANGED <<running, server>>

(* Slip: a session that could not be stored is used until the game ends.   *)
PersistTokensInMemory(stored) ==
  /\ worker.at = "save"
  /\ memory' = [refresh |-> worker.pair, access |-> "fresh", authenticated |-> TRUE,
                profile |-> memory.profile]
  /\ file' = IF stored THEN worker.pair ELSE file
  /\ strayed' = IF stored THEN strayed ELSE strayed \cup Unstored
  /\ worker' = [NoThread EXCEPT !.at = worker.next] /\ UNCHANGED flow
  /\ UNCHANGED <<running, server>>

(* Slip: a refreshed pair is stored when the game ends.                    *)
PersistFirstTokens(stored) ==
  /\ worker.at = "save" /\ stored
  /\ memory' = [refresh |-> worker.pair, access |-> "fresh", authenticated |-> TRUE,
                profile |-> memory.profile]
  /\ file' = IF worker.request = "sign in" THEN worker.pair ELSE file
  /\ worker' = [NoThread EXCEPT !.at = worker.next]
  /\ UNCHANGED <<running, flow, server, strayed>>

(* PersistTokens: session.cfg is replaced as a whole before the tokens are *)
(* used; a pair that cannot be stored is forgotten, and session.cfg stays. *)
PersistTokens(stored) ==
  /\ worker.at = "save"
  /\ IF stored
     THEN /\ ShroomClientSessionSave(worker.pair)
          /\ memory' = [refresh |-> worker.pair, access |-> "fresh", authenticated |-> TRUE,
                        profile |-> memory.profile]
          /\ worker' = [NoThread EXCEPT !.at = worker.next]
          /\ UNCHANGED <<flow, strayed>>
     ELSE /\ memory' = NoSecrets
          /\ file' = IF worker.next = "leave" THEN NoToken ELSE file
          /\ strayed' = strayed \cup Unstored
          /\ Finish("storage")
  /\ UNCHANGED <<running, server>>

(* ShroomClientRestGetMe: a profile that was refused changes nothing.      *)
HearProfile(arrives) ==
  /\ Heard /\ worker.request = "me"
  /\ memory' = IF Result(arrives) = "ok"
               THEN [memory EXCEPT !.profile = TRUE, !.authenticated = TRUE] ELSE memory
  /\ Finish(Result(arrives))
  /\ UNCHANGED <<running, file, server, strayed>>

(* ShroomClientRestLogout forgets the session whatever was answered.       *)
HearGoodbye(arrives) ==
  /\ Heard /\ worker.request = "leave"
  /\ Forget /\ Finish(Result(arrives))
  /\ UNCHANGED <<running, server, strayed>>

Work ==
  \/ RunOperation \/ Restore
  \/ \E f \in Families : ServeSignIn(f)
  \/ ServeRefresh \/ ServeAuthenticated \/ ServeError
  \/ \E done \in BOOLEAN : HearTokens(done) \/ PersistTokens(done) \/ HearProfile(done) \/ HearGoodbye(done)

Player ==
  \/ \E done \in BOOLEAN : \/ RetryProfile(done) \/ LogOut(done)
                           \/ \E same \in BOOLEAN : Launch(same, done)
                           \/ \E op \in {"register", "login"} : SignIn(op, done)
  \/ Acknowledge \/ Quit \/ Kill

Next == Player \/ Work \/ AccessAges \/ \E f \in Families : SessionAges(f)

Spec == Init /\ [][Next]_vars

-----------------------------------------------------------------------------
Tokens == {NoToken} \cup (Families \X (Nat \ {0}))
Results == {"ok", "unauthorized", "error", "transport", "storage"}
Operations == {"restore", "register", "login", "get me", "logout"}
Requests == {"sign in", "refresh", "me", "leave"}

Flows == [state : {"idle", "working", "succeeded", "failed"}, op : Operations \cup {"none"},
          result : Results]
Workers == [at : Operations \cup Requests \cup {"none", "hear", "save"},
            next : {"none", "get me", "me", "leave"}, request : Requests \cup {"none"},
            answer : Results \cup {"none"}, pair : Tokens]
Memories == [refresh : Tokens, access : {"none", "fresh", "old"}, authenticated : BOOLEAN,
             profile : BOOLEAN]

(* A token is a session and a generation; an operation is at one place.    *)
TypeOK ==
  /\ running \in BOOLEAN /\ flow \in Flows /\ worker \in Workers
  /\ memory \in Memories /\ file \in Tokens
  /\ issued \in [Families -> Nat] /\ ended \in [Families -> BOOLEAN]

(* Who is signed in stays signed in after the game is left or killed: the  *)
(* tokens in use are the stored ones (PersistTokens).                      *)
SessionIsStored == memory.authenticated => file = memory.refresh

(* A session ends because a used token came back only after an answer was  *)
(* lost or could not be stored: the client itself never presents a token   *)
(* it has exchanged (docs/rest-api-spec.md: reuse revokes the session).    *)
OnlyStrayedAreReused == reused \subseteq strayed

=============================================================================
