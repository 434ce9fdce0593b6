--------------------------- MODULE MCPersistence -----------------------------
(* Two rounds of the same two accounts, with an account request that holds *)
(* the database while one of them is saved.                                *)
EXTENDS MatchPersistence

=============================================================================
