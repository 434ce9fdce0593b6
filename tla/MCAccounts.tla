------------------------------- MODULE MCAccounts ----------------------------
(***************************************************************************)
(* The two threads of the REST server on two sessions of up to three       *)
(* pairs, and one client with its account.  Each side has the state of its *)
(* own module, the client seeing the server as TokenSessions, which the    *)
(* server's run shows it implements; part is the side that moves.          *)
(***************************************************************************)
EXTENDS Accounts

VARIABLE part

client == <<running, flow, worker, memory, file, issued, ended, old, strayed, reused>>

AccountsInit == part \in {"server", "client"} /\ Init /\ Client!Init

ServerMoves == part = "server" /\ Next /\ UNCHANGED <<part, client>>
ClientMoves == part = "client" /\ Client!Next /\ UNCHANGED <<part, vars>>

AccountsNext == ServerMoves \/ ClientMoves

(* A thread inside a call is scheduled, while the server is the side that  *)
(* moves.                                                                  *)
ThreadsRun == \A t \in Threads : WF_vars(part = "server" /\ Step(t))

AccountsSpec == AccountsInit /\ [][AccountsNext]_<<part, vars, client>> /\ ThreadsRun

=============================================================================
