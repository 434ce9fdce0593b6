------------------------------ MODULE ClientFlow -----------------------------
(***************************************************************************)
(* The client from its main menu to a match and back: the screens          *)
(* (src/client/screen.c and src/client/screens), Quick Match, the          *)
(* connection, the lobby, the match, the vote after it, and the lobby's    *)
(* end of the conversation as far as the client sees it                    *)
(* (src/server/main.c).                                                    *)
(*                                                                         *)
(* app is the state of the client; a handler is an operator from app to    *)
(* app, a frame or a click an action.  The lobby answers requests at once  *)
(* and its answers wait in mail, in order (the control channel is          *)
(* reliable); snapshots overtake them.  A pump of the network delivers one *)
(* thing at a time.                                                        *)
(*                                                                         *)
(* Settings, help and credits are one screen.  The browser's list, its     *)
(* sorting and the recent servers are left out: a server joined by hand is *)
(* any server.  What a match looks like, chat, voice and the split pieces  *)
(* are left out too.                                                       *)
(***************************************************************************)
EXTENDS QuickMatch, NetSession, Sequences, SequencesExt

CONSTANTS
  Servers,      \* the servers there are
  Listings,     \* sets of offers a discovery may find
  FirstRound,   \* next_round_id of the lobby
  MaxRounds,    \* bound on the rounds
  MaxMail,      \* bound on the answers in flight
  MaxLosses     \* bound on lost connections

ASSUME FlowParameters ==
  /\ Servers \subseteq Nat \ {NoServer} /\ Capacity \in Nat \ {0} /\ Preferred \in Nat
  /\ \A offers \in Listings : IsFiniteSet(offers) /\ offers \subseteq [server : Servers, players : Nat, latency : Nat]
  /\ RoundSpan \in Nat \ {0} /\ FirstRound \in 0..(RoundSpan - 1) /\ {MaxRounds, MaxMail, MaxLosses} \subseteq Nat

VARIABLES
  app,      \* the client
  room,     \* the lobby: its match, its vote, and what it knows of this client
  mail,     \* the lobby's messages on their way
  losses    \* connections lost so far

vars == <<app, room, mail, losses>>

EmptyListing == [state |-> "empty", offers |-> {}]

NewGame(directory) ==
  [screen |-> "menu", previous |-> "none", queried |-> FALSE, quick |-> IdleMatch, listing |-> EmptyListing,
   directory |-> directory, net |-> NoNet, selected |-> "quick", active |-> "quick", pending |-> FALSE,
   resume |-> FALSE, show |-> FALSE, auto |-> FALSE, server |-> NoServer, world |-> "running", tried |-> <<>>]

Init ==
  /\ \E directory \in BOOLEAN : app = NewGame(directory)
  /\ room = [seat |-> "none", ready |-> FALSE, entered |-> FALSE, voter |-> FALSE, round |-> FirstRound,
             rounds |-> 0, phase |-> "running", resolved |-> FALSE, decision |-> "none"]
  /\ mail = <<>> /\ losses = 0

Online(a) == a.active \in {"quick", "lobby"}

-----------------------------------------------------------------------------
(* ---- Sessions of the game (GameInit, GameShutdown) -------------------- *)
GameShutdown(a) == IF Online(a) THEN [a EXCEPT !.net = NoNet] ELSE a

(* Only a match of a lobby keeps the connection; it forgets the address.   *)
GameInit(a) ==
  [a EXCEPT !.active = a.selected, !.quick = IdleMatch, !.pending = FALSE, !.resume = FALSE, !.show = FALSE,
            !.auto = FALSE, !.world = "running",
            !.net = IF a.selected = "lobby" THEN @ ELSE [NoNet EXCEPT !.status = "connected"],
            !.server = IF a.selected = "lobby" THEN NoServer ELSE @]

(* Slip: only the match closes its connection, the results do not.         *)
CleanupOfMatch(a) ==
  CASE a.screen = "game" -> IF a.pending \/ a.show THEN a ELSE GameShutdown(a)
    [] a.screen = "results" -> [a EXCEPT !.resume = FALSE]
    [] OTHER -> [a EXCEPT !.queried = FALSE]

(* ---- Screens: what leaving and entering one does ---------------------- *)
Cleanup(a) ==
  CASE a.screen = "game" -> IF a.pending \/ a.show THEN a ELSE GameShutdown(a)
    [] a.screen = "results" -> IF a.pending THEN a
                               ELSE IF a.resume THEN [a EXCEPT !.resume = FALSE]
                               ELSE GameShutdown(a)
    [] a.screen = "lobby" -> [a EXCEPT !.queried = FALSE]
    [] OTHER -> a

BeginDiscoveryRefresh(a) ==
  IF a.directory THEN [a EXCEPT !.listing = [EmptyListing EXCEPT !.state = "loading"]]
  ELSE [a EXCEPT !.listing = [EmptyListing EXCEPT !.state = "failed"], !.quick = DirectoryFailed(@)]

ServerBrowserInit(a) ==
  LET b == [a EXCEPT !.listing = EmptyListing]
  IN  IF a.quick.phase = "finding" THEN BeginDiscoveryRefresh(b) ELSE b

MayEnterGame(a) == a.selected = "lobby" => CanResume(a.net)
GameplayInit(a) == IF a.pending THEN [a EXCEPT !.pending = FALSE] ELSE GameInit(a)

Enter(a) ==
  CASE a.screen = "browser" -> ServerBrowserInit(a)
    [] a.screen = "game" -> GameplayInit(a)
    [] a.screen = "lobby" -> [a EXCEPT !.queried = FALSE]
    [] OTHER -> a

(* ShroomScreenManagerTransition: a screen that does not start leaves the  *)
(* one before it, after its cleanup, without a way back.                   *)
Transition(a, to) ==
  LET b == [Cleanup(a) EXCEPT !.previous = a.screen, !.screen = to]
  IN  IF to = "game" /\ ~MayEnterGame(b) THEN [b EXCEPT !.screen = a.screen, !.previous = "none"]
      ELSE Enter(b)

GoBack(a) ==
  IF a.previous = "none" THEN a
  ELSE LET b == [Cleanup(a) EXCEPT !.previous = "none", !.screen = a.previous]
       IN  IF b.screen = "game" /\ ~MayEnterGame(b) THEN [b EXCEPT !.screen = "none"] ELSE Enter(b)

-----------------------------------------------------------------------------
(* ---- The lobby's end: the session of this client in main.c ------------ *)
Status(r) == [type |-> "status", round |-> r.round, resolved |-> r.resolved, decision |-> r.decision]
Roster(r) == [type |-> "roster", ready |-> r.ready]
Posted(messages) == IF room.seat = "none" THEN mail ELSE mail \o messages

EmptySeat(r) == [r EXCEPT !.seat = "none", !.ready = FALSE, !.entered = FALSE, !.voter = FALSE]

(* HandleLobbyJoin: not from a lobby, and not to a full one.               *)
Welcomes(r) == <<[type |-> "joined", watching |-> r.seat = "watch"], Roster(r)>>
               \o (IF r.phase = "results" THEN <<Status(r)>> ELSE <<>>)
AnswersJoin(watching) ==
  \/ UNCHANGED <<room, mail>>
  \/ /\ room.seat = "none"
     /\ room' = [EmptySeat(room) EXCEPT !.seat = IF watching THEN "watch" ELSE "play"]
     /\ mail' = mail \o Welcomes(room')

AnswersReady(ready) ==
  /\ room' = IF room.seat = "none" THEN room ELSE [room EXCEPT !.ready = ready]
  /\ mail' = Posted(<<Roster(room')>>)

(* HandleEnterMatchPacket: players that are ready, and watchers.           *)
AnswersEntry ==
  IF ~room.entered /\ (room.seat = "watch" \/ (room.seat = "play" /\ room.ready))
  THEN room' = [room EXCEPT !.entered = TRUE] /\ mail' = Posted(<<Roster(room)>>)
  ELSE UNCHANGED <<room, mail>>

(* BeginIntermission: whoever is in the match may vote.                    *)
RoundEnds ==
  /\ room.phase = "running" /\ room.rounds < MaxRounds /\ Len(mail) < MaxMail
  /\ room' = [room EXCEPT !.phase = "results", !.round = (@ + 1) % RoundSpan, !.rounds = @ + 1,
                          !.resolved = FALSE, !.decision = "none",
                          !.voter = room.seat = "play" /\ room.entered]
  /\ mail' = Posted(<<Status(room')>>)
  /\ UNCHANGED <<app, losses>>

(* ResolveIntermission: the voters go on together, or nobody does.         *)
RoundResolves ==
  /\ room.phase = "results" /\ Len(mail) < MaxMail
  /\ \E decision \in {"play again", "lobby", "spectate"} :
       LET resolved == [room EXCEPT !.resolved = TRUE, !.decision = decision]
       IN  /\ room' = [resolved EXCEPT
                !.phase = "running", !.ready = FALSE, !.voter = FALSE,
                !.entered = room.voter /\ decision = "play again",
                !.seat = IF decision = "spectate" /\ @ = "play" /\ ~(room.voter /\ decision = "play again")
                         THEN "watch" ELSE @]
           /\ mail' = Posted(<<Status(resolved), Roster(room')>>)
  /\ UNCHANGED <<app, losses>>

-----------------------------------------------------------------------------
(* ---- The network ------------------------------------------------------ *)
(* What the next pump of the network may bring, besides nothing.           *)
Received(a, message) ==
  CASE message.type = "list" -> [a EXCEPT !.net = HandleLobbyList(@, message.places)]
    [] message.type = "joined" -> [a EXCEPT !.net = HandleLobbyJoined(@, message.watching)]
    [] message.type = "roster" -> [a EXCEPT !.net = HandleLobbyRoster(@, message.ready)]
    [] message.type = "status" -> [a EXCEPT !.net = HandleIntermissionStatus(@, message)]

Arrival(a) == [app |-> a, mail |-> mail, room |-> room, losses |-> losses]
Lost == [app |-> [app EXCEPT !.net = Disconnected(@)], mail |-> <<>>, room |-> EmptySeat(room),
         losses |-> losses + 1]
Arrivals ==
  LET net == app.net
  IN  {Arrival(app)}
      \cup (IF net.live /\ ~net.handshake
            THEN {Arrival([app EXCEPT !.net = HandleWelcome(@, supported)]) : supported \in BOOLEAN} ELSE {})
      \cup {Arrival([app EXCEPT !.net = ConnectTimedOut(@)])}
      \cup (IF net.live /\ room.seat # "none"
            THEN {Arrival([app EXCEPT !.net = HandleSnapshot(@, room.phase)])} ELSE {})
      \cup (IF net.live /\ mail # <<>> THEN {[Arrival(Received(app, Head(mail))) EXCEPT !.mail = Tail(@)]} ELSE {})
      \cup (IF net.live /\ losses < MaxLosses THEN {Lost} ELSE {})

Becomes(arrival) == app' = arrival.app /\ mail' = arrival.mail /\ room' = arrival.room /\ losses' = arrival.losses

(* What the client is after a click or a step that brings nothing: the     *)
(* server forgets a connection that was closed, or replaced by a new one.  *)
Leaves == room' = EmptySeat(room) /\ mail' = <<>>
Shown(a) == app' = a /\ UNCHANGED losses /\ (IF a.net.handshake THEN UNCHANGED <<room, mail>> ELSE Leaves)

-----------------------------------------------------------------------------
(* ---- Frames ----------------------------------------------------------- *)
(* ServerBrowserUpdate: the discovery ends, the preview of a Quick Match   *)
(* ends and the server is connected to, or the list grows old.             *)
PopulateQuickMatch(a, offers) ==
  [a EXCEPT !.quick = SetCandidates(@, offers)]

DiscoveryEnds ==
  /\ app.screen = "browser" /\ app.listing.state = "loading"
  /\ \/ \E offers \in Listings :
          LET free == {offer \in offers : Joinable(offer)}
              a == [app EXCEPT !.listing = [state |-> IF free = {} THEN "empty" ELSE "ready", offers |-> free]]
          IN  app' = IF free = {} /\ offers # {} THEN [a EXCEPT !.quick = ServersFull(@)]
                     ELSE PopulateQuickMatch(a, free)
     \/ app' = [app EXCEPT !.listing.state = "failed", !.quick = DirectoryFailed(@)]
  /\ UNCHANGED <<room, mail, losses>>

(* ConnectQuickMatch, JoinServer.                                          *)
JoinServer(a, server) ==
  Transition([a EXCEPT !.server = server, !.net = Connect(server \in Servers)], "lobby")
ConnectQuickMatch(a) ==
  JoinServer([a EXCEPT !.auto = TRUE, !.tried = Append(@, a.quick.selected)], a.quick.selected)

PreviewEnds ==
  /\ app.screen = "browser" /\ app.listing.state # "loading" /\ app.quick.phase = "preview"
  /\ Shown(ConnectQuickMatch([app EXCEPT !.quick = EndPreview(@)]))

ListGrowsOld ==
  /\ app.screen = "browser" /\ app.listing.state = "ready" /\ app.quick.phase # "preview"
  /\ app' = [app EXCEPT !.listing.state = "stale"]
  /\ UNCHANGED <<room, mail, losses>>

(* LobbyBrowserUpdate: the Quick Match succeeds or tries the next server;  *)
(* the lobbies are listed once and the emptiest joined by itself; a lobby  *)
(* joined is shown.                                                        *)
ListAnswer(arrival) ==
  LET a == arrival.app
      asked == [arrival EXCEPT !.app.queried = TRUE]
      answered == {[asked EXCEPT !.mail = Append(@, [type |-> "list", places |-> places])] :
                     places \in {"open", "full"}}
  IN  IF ~a.net.handshake THEN {arrival}
      ELSE IF ~a.queried THEN IF a.net.live THEN answered ELSE {asked}
      ELSE {arrival} \cup (IF ~a.auto /\ a.net.live /\ arrival.mail = <<>> THEN answered ELSE {})

AutoJoin(arrival) ==
  LET a == arrival.app
      seated == [EmptySeat(arrival.room) EXCEPT !.seat = "play"]
      done == [arrival EXCEPT !.app.auto = FALSE]
      joined == [done EXCEPT !.room = seated, !.mail = @ \o Welcomes(seated)]
  IN  IF ~a.auto \/ a.net.list = "none" THEN {arrival}
      ELSE IF a.net.list = "open" /\ a.net.live /\ arrival.room.seat = "none" THEN {done, joined}
      ELSE {done}

LobbyShown(arrival) ==
  IF arrival.app.net.welcome \/ arrival.app.net.watching
  THEN [arrival EXCEPT !.app = Transition(@, "roster")] ELSE arrival

LobbyBrowserUpdate ==
  /\ app.screen = "lobby"
  /\ \E arrival \in Arrivals :
       LET a == arrival.app
           succeeded == [arrival EXCEPT !.app.quick = ConnectionSucceeded(@)]
           failed == a.quick.phase = "connecting" /\ ~a.net.handshake
                     /\ a.net.status \in {"error", "disconnected"}
           next == [a EXCEPT !.net = NoNet, !.auto = FALSE, !.quick = ConnectionFailed(@)]
       IN  IF failed
           THEN Becomes([arrival EXCEPT !.app = Transition(next, "browser"), !.mail = <<>>, !.room = EmptySeat(@)])
           ELSE \E listed \in ListAnswer(IF a.net.handshake THEN succeeded ELSE arrival) :
                  \E joined \in AutoJoin(listed) : Becomes(LobbyShown(joined))

LobbyRosterUpdate == app.screen = "roster" /\ \E arrival \in Arrivals : Becomes(arrival)

-----------------------------------------------------------------------------
(* GameplayUpdate: a round that is over shows its results.  The world the  *)
(* client shows is that of the last snapshot only while it plays.          *)
Watched(a) == IF Online(a) /\ a.net.welcome /\ a.net.heard THEN [a EXCEPT !.world = a.net.phase] ELSE a

GameplayUpdate ==
  /\ app.screen = "game" /\ Online(app)
  /\ \E arrival \in Arrivals :
       LET a == Watched(arrival.app)
       IN Becomes([arrival EXCEPT !.app =
         IF a.net.welcome /\ a.world = "results"
         THEN Transition([a EXCEPT !.show = TRUE, !.pending = TRUE], "results") ELSE a])

(* The leave button, the lost connection's way out; practising again.      *)
ReturnToMenu == app.screen = "game" /\ Shown(Transition([app EXCEPT !.show = TRUE], "results"))
RestartPractice == app.screen = "game" /\ ~Online(app) /\ Shown(GameInit(GameShutdown(app)))

(* ---- The results of a round (src/client/screens/results.c) ------------ *)
Authoritative(a) == a.pending /\ a.net.welcome /\ Online(a)

(* A decision is consumed and followed.                                    *)
Consumed(a) == [a EXCEPT !.net = ConsumeVotes(@), !.show = FALSE]
Followed(a) ==
  LET route == Route(a.net, a.world) IN
  CASE route \in {"lobby", "spectate"} ->
         Transition([Consumed([a EXCEPT !.net.watching = route = "spectate"])
                       EXCEPT !.pending = FALSE, !.resume = TRUE], "lobby")
    [] route = "game" -> Transition([Consumed(a) EXCEPT !.pending = TRUE], "game")
    [] OTHER -> a

ResultsUpdate ==
  /\ app.screen = "results" /\ Authoritative(app)
  /\ \E arrival \in Arrivals : Becomes([arrival EXCEPT !.app = Followed(Watched(@))])

PlayAgain ==
  /\ app.screen = "results" /\ ~Authoritative(app)
  /\ LET a == [app EXCEPT !.show = FALSE]
         lobby == Transition(a, "lobby")
     IN  IF a.active = "lobby" /\ CanResume(a.net) THEN Shown(Transition([a EXCEPT !.resume = TRUE], "game"))
         ELSE IF a.active = "offline" THEN Shown(Transition(a, "game"))
         ELSE Shown([lobby EXCEPT !.net = Connect(a.server \in Servers), !.auto = TRUE])

LeaveResults ==
  /\ app.screen = "results"
  /\ LET a == [app EXCEPT !.show = FALSE]
     IN  Shown(Transition(IF Authoritative(a) THEN GameShutdown([a EXCEPT !.pending = FALSE]) ELSE a, "menu"))

-----------------------------------------------------------------------------
(* ---- Clicks in the menus ---------------------------------------------- *)
PlayOnline ==
  /\ app.screen = "menu"
  /\ Shown(Transition([app EXCEPT !.net = NoNet, !.auto = FALSE, !.quick = BeginMatch, !.tried = <<>>], "browser"))
PlayOffline == app.screen = "menu" /\ Shown(Transition([app EXCEPT !.selected = "offline"], "game"))
OpenMenu(to) == app.screen = "menu" /\ Shown(Transition(app, to))
LeaveMenu ==
  \/ app.screen = "aside" /\ Shown(GoBack(app))
  \/ app.screen = "modes" /\ \E to \in {"browser", "menu"} : Shown(Transition(app, to))

(* ---- Clicks in the server browser ------------------------------------- *)
QuickPanel == app.quick.phase \notin {"idle", "succeeded", "cancelled"}
AbandonedMatch == [app EXCEPT !.quick = CancelMatch(@)]

StopQuickMatch ==
  /\ app.screen = "browser" /\ QuickPanel /\ (Active(app.quick) \/ app.quick.phase = "failed")
  /\ Shown(Transition(AbandonedMatch, "menu"))
RetryQuickMatch ==
  /\ app.screen = "browser" /\ app.quick.phase = "failed"
  /\ Shown(BeginDiscoveryRefresh([app EXCEPT !.quick = BeginMatch, !.tried = <<>>]))
BrowseInstead == app.screen = "browser" /\ app.quick.phase = "failed" /\ Shown([app EXCEPT !.quick = IdleMatch])

JoinHost == app.screen = "browser" /\ ~QuickPanel /\ \E server \in Servers : Shown(JoinServer(app, server))
JoinSelected ==
  /\ app.screen = "browser" /\ ~QuickPanel /\ app.listing.state = "ready"
  /\ \E offer \in app.listing.offers : Joinable(offer) /\ Shown(JoinServer(app, offer.server))
Refresh ==
  /\ app.screen = "browser" /\ ~QuickPanel
  /\ IF app.listing.state = "loading" THEN Shown([app EXCEPT !.listing.state = "cancelled"])
     ELSE Shown(BeginDiscoveryRefresh(app))
LeaveBrowser == app.screen = "browser" /\ Shown(GoBack(app))

(* ---- Clicks in the list of lobbies ------------------------------------ *)
ConnectionModal == app.auto \/ ~app.net.handshake \/ app.net.status \in {"error", "disconnected"}
Broken == app.net.status \in {"error", "disconnected"}

RetryConnection == app.screen = "lobby" /\ Broken /\ Shown([app EXCEPT !.net = Connect(app.server \in Servers)])
JoinLobby(watching) ==
  /\ app.screen = "lobby" /\ ~ConnectionModal /\ app.net.list # "none" /\ (watching \/ app.net.list = "open")
  /\ Len(mail) < MaxMail /\ app.net.live
  /\ AnswersJoin(watching) /\ UNCHANGED <<app, losses>>
LeaveLobbyList ==
  /\ app.screen = "lobby"
  /\ \/ ~ConnectionModal /\ Shown(Transition([app EXCEPT !.net = NoNet], "browser"))
     \/ LET a == [app EXCEPT !.net = NoNet, !.auto = FALSE]
        IN  IF a.quick.phase = "connecting" THEN Shown(Transition([a EXCEPT !.quick = CancelMatch(@)], "menu"))
            ELSE Shown(Transition(a, "browser"))

(* ---- Clicks in the roster of a lobby ---------------------------------- *)
GetReady(ready) ==
  /\ app.screen = "roster" /\ ~app.net.watching /\ app.net.live /\ app.net.lobby /\ Len(mail) < MaxMail
  /\ ready = (app.net.roster # "ready")
  /\ AnswersReady(ready) /\ UNCHANGED <<app, losses>>
LeaveRoster == app.screen = "roster" /\ Shown(Transition([app EXCEPT !.net = NoNet], "browser"))
EnterLobbyMatch ==
  /\ app.screen = "roster" /\ Len(mail) < MaxMail
  /\ app.net.watching \/ (app.net.welcome /\ app.net.roster = "ready")
  /\ app' = Transition([app EXCEPT !.net = EnterMatch(@), !.selected = "lobby", !.active = "lobby"], "game")
  /\ IF app'.net.entered THEN AnswersEntry ELSE UNCHANGED <<room, mail>>
  /\ UNCHANGED losses

-----------------------------------------------------------------------------
Next ==
  \/ DiscoveryEnds \/ PreviewEnds \/ ListGrowsOld \/ LobbyBrowserUpdate \/ LobbyRosterUpdate
  \/ GameplayUpdate \/ ReturnToMenu \/ RestartPractice \/ ResultsUpdate \/ PlayAgain \/ LeaveResults
  \/ PlayOnline \/ PlayOffline \/ (\E to \in {"browser", "modes", "aside"} : OpenMenu(to)) \/ LeaveMenu
  \/ StopQuickMatch \/ RetryQuickMatch \/ BrowseInstead \/ JoinHost \/ JoinSelected \/ Refresh \/ LeaveBrowser
  \/ RetryConnection \/ (\E watching \in BOOLEAN : JoinLobby(watching)) \/ LeaveLobbyList
  \/ (\E ready \in BOOLEAN : GetReady(ready)) \/ LeaveRoster \/ EnterLobbyMatch
  \/ RoundEnds \/ RoundResolves

Spec == Init /\ [][Next]_vars

(* Frames keep coming, a discovery ends (its candidates time out), and a   *)
(* connection attempt is answered or runs into CLIENT_NET_CONNECT_TIMEOUT. *)
Frames == WF_vars(DiscoveryEnds) /\ WF_vars(PreviewEnds) /\ WF_vars(LobbyBrowserUpdate)
FairSpec == Spec /\ Frames

-----------------------------------------------------------------------------
(* ---- Properties ------------------------------------------------------- *)

(* Between the matches, in the menus, no connection is left open: whatever *)
(* way led there, the session was closed on the client, so that the server *)
(* drops the player (screen.c:27, results.c:240, gameplay.c:305).          *)
NoLingeringSession == app.screen \in {"menu", "modes", "aside"} => ~app.net.live

(* A Quick Match connects to each server found at most once, in the order  *)
(* of the selector, and gives up only when it tried all that had a place   *)
(* (quick_match.c:5, matchmaking_selector.c:45).                           *)
QuickMatchExhausts ==
  /\ IsInjective(app.tried)
  /\ app.quick.failure = "exhausted" =>
       ToSet(app.tried) = {offer.server : offer \in {o \in app.quick.offers : Joinable(o)}}

(* A Quick Match left alone ends, connected to a lobby server or failed:   *)
(* no server, dead or full, holds it up for ever (quick_match.c:100,       *)
(* lobby_browser.c:46).                                                    *)
Searching == Active(app.quick) /\ (app.screen = "browser" \/ (app.screen = "lobby" /\ app.quick.phase = "connecting"))
QuickMatchSettles == Searching ~> ~Searching

(* Offline practice is offline: tests/imgui/tests.c:798 asks that entering *)
(* it leaves the session mode at offline practice.                         *)
OfflineIsOffline == app.screen = "game" /\ app.selected = "offline" => app.active = "offline"

=============================================================================
