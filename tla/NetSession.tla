------------------------------ MODULE NetSession -----------------------------
(***************************************************************************)
(* The client's end of a game connection (ClientNetState of                *)
(* src/client/net.c), as operators on its state: connecting, the           *)
(* handshake, a lobby, the votes between two rounds, leaving, losing the   *)
(* server.                                                                 *)
(*                                                                         *)
(* live is net->peer /= NULL; lobby is lobby_id /= 0; roster tells whether *)
(* the roster arrived and shows the player ready; heard is                 *)
(* snapshot_player_count > 0 and phase the match_phase of the last         *)
(* snapshot; votes is the intermission with the round consumed last.       *)
(* Snapshots, collectibles, chat, voice and inputs are models of their own *)
(***************************************************************************)
EXTENDS Integers

CONSTANTS RoundSpan    \* 2^32: round ids are serial numbers

NoRound == -1
Newer(candidate, reference) == (candidate - reference) % RoundSpan \in 1..(RoundSpan \div 2 - 1)

NoVotes == [received |-> FALSE, round |-> 0, resolved |-> FALSE, decision |-> "none", consumed |-> NoRound]

(* ClientNetShutdown leaves a zeroed state.                                *)
NoNet == [status |-> "offline", live |-> FALSE, handshake |-> FALSE, lobby |-> FALSE, welcome |-> FALSE,
          watching |-> FALSE, entered |-> FALSE, roster |-> "none", list |-> "none", heard |-> FALSE,
          phase |-> "running", votes |-> NoVotes]

(* ClientNetInit: an address that does not resolve is an error at once.    *)
Connect(resolves) ==
  IF resolves THEN [NoNet EXCEPT !.status = "connecting", !.live = TRUE] ELSE [NoNet EXCEPT !.status = "error"]

(* CheckConnectTimeout: the connection attempt itself goes on.             *)
ConnectTimedOut(net) == IF net.status = "connecting" THEN [net EXCEPT !.status = "error"] ELSE net

HandleWelcome(net, supported) ==
  IF supported THEN [net EXCEPT !.handshake = TRUE, !.status = "connected"] ELSE [net EXCEPT !.status = "error"]

HandleLobbyList(net, places) == [net EXCEPT !.list = places]

HandleLobbyJoined(net, watching) ==
  [net EXCEPT !.votes = NoVotes, !.lobby = TRUE, !.watching = watching, !.entered = FALSE, !.roster = "none",
              !.welcome = @ \/ ~watching]

HandleLobbyRoster(net, ready) == [net EXCEPT !.roster = IF ready THEN "ready" ELSE "waiting"]

(* HandleIntermissionStatus refuses rounds that are over for this client.  *)
HandleIntermissionStatus(net, status) ==
  IF \/ net.votes.consumed # NoRound /\ ~Newer(status.round, net.votes.consumed)
     \/ net.votes.received /\ status.round # net.votes.round /\ ~Newer(status.round, net.votes.round)
  THEN net
  ELSE [net EXCEPT !.votes = [received |-> TRUE, round |-> status.round, resolved |-> status.resolved,
                              decision |-> status.decision, consumed |-> net.votes.consumed]]

HandleSnapshot(net, phase) == [net EXCEPT !.heard = TRUE, !.phase = phase]

Disconnected(net) ==
  [net EXCEPT !.live = FALSE, !.welcome = FALSE, !.entered = FALSE, !.status = "disconnected"]

(* ClientNetConsumeIntermission.                                           *)
ConsumeVotes(net) ==
  IF net.votes.received THEN [net EXCEPT !.votes.consumed = net.votes.round, !.votes.received = FALSE] ELSE net

(* ClientNetSendEnterMatch.                                                *)
EnterMatch(net) ==
  IF (net.welcome \/ net.watching) /\ net.lobby /\ net.live THEN [net EXCEPT !.entered = TRUE] ELSE net

(* ClientNetCanResumeLobbySession.                                         *)
CanResume(net) ==
  net.live /\ net.status = "connected" /\ net.lobby /\ net.entered /\ (net.watching \/ net.welcome)

(* ShroomResultsResolveRoute: what to do on the results screen.            *)
Route(net, phase) ==
  LET votes == net.votes
      current == votes.received /\ (votes.consumed # NoRound => Newer(votes.round, votes.consumed))
      running == IF phase = "running" THEN "game" ELSE "wait"
  IN  IF ~current THEN running
      ELSE IF ~votes.resolved THEN "wait"
      ELSE IF votes.decision \in {"lobby", "spectate"} THEN votes.decision
      ELSE IF votes.decision = "play again" THEN running
      ELSE "wait"

=============================================================================
