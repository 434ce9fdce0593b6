------------------------------ MODULE MCDirectory -----------------------------
(* Two game servers and a directory that restarts at most once.            *)
EXTENDS ServerDirectory

=============================================================================
