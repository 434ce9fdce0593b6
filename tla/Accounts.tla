------------------------------- MODULE Accounts -------------------------------
(***************************************************************************)
(* The accounts of the service: the threads of the REST server on their    *)
(* token families, which this module extends, and a client that plays      *)
(* against the server it is promised, TokenSessions.  The server's run     *)
(* shows that AccountTokens implements it.  The two parts share no         *)
(* variable.                                                               *)
(***************************************************************************)
EXTENDS AccountTokens

VARIABLES running, flow, worker, memory, file, issued, ended, old, strayed, reused

Client == INSTANCE AccountClient

ASSUME ClientIsBounded == Client!ClientParameters

-----------------------------------------------------------------------------
(* The properties of the client, each stated in its module.                *)
SessionIsStored == Client!SessionIsStored
OnlyStrayedAreReused == Client!OnlyStrayedAreReused

=============================================================================
