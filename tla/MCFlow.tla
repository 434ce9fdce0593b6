-------------------------------- MODULE MCFlow --------------------------------
(***************************************************************************)
(* How a player finds a match: the client's way through its screens, and   *)
(* the search for servers behind the server browser.  The parts do not     *)
(* touch each other's state (what a search finds is a choice in the first  *)
(* and a result of the second); part is the one that moves.                *)
(***************************************************************************)
EXTENDS ClientFlow, TLC

VARIABLES
  part,
  phase, elapsed, candidates, full, directory, chunks, listed, probes, players, updated

search == <<phase, elapsed, candidates, full, directory, chunks, listed, probes, players, updated>>

(* Nothing found; a full server; a near server with one place and a far    *)
(* one that is empty.                                                      *)
offer(server, places, latency) == [server |-> server, players |-> places, latency |-> latency]
Found == {{}, {offer(1, 2, 1)}, {offer(1, 0, 3), offer(2, 1, 1)}}

(* An empty list, one in two chunks with a full server, a list of both, a  *)
(* full server only.                                                       *)
entry(server, places) == [server |-> server, players |-> places]
Search == INSTANCE ServerDiscovery WITH
  Lists <- {<<{}>>, <<{entry(1, 0)}, {entry(2, 2)}>>, <<{entry(1, 1), entry(2, 0)}>>, <<{entry(1, 2)}>>},
  ProbeTimeout <- 2, OverallTimeout <- 4

ASSUME SearchParameters == Search!DiscoveryParameters

FlowInit == part \in {"flow", "search"} /\ Init /\ Search!Init

ClientMoves == part = "flow" /\ Next /\ UNCHANGED <<part, search>>
SearchMoves == part = "search" /\ Search!Next /\ UNCHANGED <<part, vars>>

FlowNext == ClientMoves \/ SearchMoves

(* The fairness of each part, while it is the one that moves.              *)
ClientFrames ==
  /\ WF_vars(part = "flow" /\ DiscoveryEnds) /\ WF_vars(part = "flow" /\ PreviewEnds)
  /\ WF_vars(part = "flow" /\ LobbyBrowserUpdate)
SearchFrames ==
  WF_search(part = "search" /\ Search!QuietFrame) /\ WF_search(part = "search" /\ Search!Tick)

FlowSpec == FlowInit /\ [][FlowNext]_<<part, vars, search>>
FairFlowSpec == FlowSpec /\ ClientFrames /\ SearchFrames

-----------------------------------------------------------------------------
(* The properties of the parts, each stated in the module of its part.     *)
SearchEnds == Search!SearchEnds

=============================================================================
