---------------------------- MODULE ClientProofs -----------------------------
(***************************************************************************)
(* The client between its menu and a match, for any servers, offers and    *)
(* rounds and whatever the network brings: no connection is left open in   *)
(* the menus, and a Quick Match tries each server with a place once.       *)
(*                                                                         *)
(* The offers of a search are finite sets of any size, over which the      *)
(* selector takes a maximum and a best.  That both exist is proved from    *)
(* the well-foundedness of < on Nat: a least counterexample stands in for  *)
(* an induction.                                                           *)
(***************************************************************************)
EXTENDS ClientFlow, FiniteSetTheorems, WellFoundedInduction, TLAPS

(* What a search is given (Listings, for any servers).                     *)
Offers == [server : Nat \ {NoServer}, players : Nat, latency : Nat]

(* The records of the model by their fields; the proof needs no more of    *)
(* their types.                                                            *)
AppFields == {"screen", "previous", "queried", "quick", "listing", "directory", "net", "selected", "active", "pending",
              "resume", "show", "auto", "server", "world", "tried"}
NetFields == {"status", "live", "handshake", "lobby", "welcome", "watching", "entered", "roster", "list", "heard",
              "phase", "votes"}
MatchFields == {"phase", "offers", "excluded", "selected", "attempts", "failure"}
IsRec(r, fields) == r = [field \in fields |-> r[field]]
IsApp(a) == IsRec(a, AppFields)
IsNet(n) == IsRec(n, NetFields)
IsMatch(m) == IsRec(m, MatchFields)
Shaped(a) == IsApp(a) /\ IsNet(a.net) /\ IsMatch(a.quick)

(* A connection is only opened by ClientNetInit; the welcome of a lobby    *)
(* lasts as long as the connection (net.c).                                *)
Lasts(before, after) ==
  IsNet(after) /\ (after.live => before.live) /\ (after.live /\ before.welcome => after.welcome)

(* What ClientNetInit and ClientNetShutdown leave (net.c).                 *)
LEMMA NetFacts ==
  /\ IsNet(NoNet) /\ ~NoNet.live
  /\ \A server : IsNet(Connect(server \in Servers))
<1>1. IsNet(NoNet) /\ ~NoNet.live
  BY DEF IsNet, IsRec, NetFields, NoNet
<1>2. ASSUME NEW server PROVE IsNet(Connect(server \in Servers))
  BY <1>1 DEF Connect, IsNet, IsRec, NetFields
<1> QED BY <1>1, <1>2

(* No handler of net.c opens a connection, and none but its loss takes     *)
(* the welcome away.                                                       *)
LEMMA HandlersLast ==
  ASSUME NEW net, IsNet(net)
  PROVE  /\ Lasts(net, net)
         /\ \A supported \in BOOLEAN : Lasts(net, HandleWelcome(net, supported))
         /\ Lasts(net, ConnectTimedOut(net)) /\ Lasts(net, Disconnected(net))
         /\ Lasts(net, ConsumeVotes(net)) /\ Lasts(net, EnterMatch(net))
         /\ \A phase : Lasts(net, HandleSnapshot(net, phase))
         /\ \A places : Lasts(net, HandleLobbyList(net, places))
         /\ \A watching : Lasts(net, HandleLobbyJoined(net, watching))
         /\ \A ready : Lasts(net, HandleLobbyRoster(net, ready))
         /\ \A status : Lasts(net, HandleIntermissionStatus(net, status))
<1>1. Lasts(net, net)
  BY DEF Lasts
<1>2. ASSUME NEW supported \in BOOLEAN PROVE Lasts(net, HandleWelcome(net, supported))
  BY DEF Lasts, HandleWelcome, IsNet, IsRec, NetFields
<1>3. Lasts(net, ConnectTimedOut(net))
  BY DEF Lasts, ConnectTimedOut, IsNet, IsRec, NetFields
<1>4. Lasts(net, Disconnected(net))
  BY DEF Lasts, Disconnected, IsNet, IsRec, NetFields
<1>5. Lasts(net, ConsumeVotes(net))
  BY DEF Lasts, ConsumeVotes, IsNet, IsRec, NetFields
<1>6. Lasts(net, EnterMatch(net))
  BY DEF Lasts, EnterMatch, IsNet, IsRec, NetFields
<1>7. ASSUME NEW phase PROVE Lasts(net, HandleSnapshot(net, phase))
  BY DEF Lasts, HandleSnapshot, IsNet, IsRec, NetFields
<1>8. ASSUME NEW places PROVE Lasts(net, HandleLobbyList(net, places))
  BY DEF Lasts, HandleLobbyList, IsNet, IsRec, NetFields
<1>9. ASSUME NEW watching PROVE Lasts(net, HandleLobbyJoined(net, watching))
  BY DEF Lasts, HandleLobbyJoined, IsNet, IsRec, NetFields
<1>10. ASSUME NEW ready PROVE Lasts(net, HandleLobbyRoster(net, ready))
  BY DEF Lasts, HandleLobbyRoster, IsNet, IsRec, NetFields
<1>11. ASSUME NEW status PROVE Lasts(net, HandleIntermissionStatus(net, status))
  <2> DEFINE votes == [received |-> TRUE, round |-> status.round, resolved |-> status.resolved,
                       decision |-> status.decision, consumed |-> net.votes.consumed]
             told == [net EXCEPT !.votes = votes]
  <2>1. HandleIntermissionStatus(net, status) \in {net, told}
    BY DEF HandleIntermissionStatus
  <2> HIDE DEF votes
  <2>2. Lasts(net, told)
    BY DEF Lasts, IsNet, IsRec, NetFields
  <2> QED BY <1>1, <2>1, <2>2
<1> QED BY <1>1, <1>2, <1>3, <1>4, <1>5, <1>6, <1>7, <1>8, <1>9, <1>10, <1>11

-----------------------------------------------------------------------------
(* The operators of quick_match.c return a Quick Match.                    *)
LEMMA MatchFacts ==
  /\ IsMatch(IdleMatch) /\ IsMatch(BeginMatch)
  /\ \A m : IsMatch(m) => /\ IsMatch(DirectoryFailed(m)) /\ IsMatch(ServersFull(m)) /\ IsMatch(EndPreview(m))
                          /\ IsMatch(ConnectionSucceeded(m)) /\ IsMatch(CancelMatch(m))
<1>1. IsMatch(IdleMatch)
  BY DEF IsMatch, IsRec, MatchFields, IdleMatch
<1>2. IsMatch(BeginMatch)
  BY <1>1 DEF IsMatch, IsRec, MatchFields, BeginMatch
<1>3. ASSUME NEW m, IsMatch(m)
      PROVE  /\ IsMatch(DirectoryFailed(m)) /\ IsMatch(ServersFull(m)) /\ IsMatch(EndPreview(m))
             /\ IsMatch(ConnectionSucceeded(m)) /\ IsMatch(CancelMatch(m))
  BY <1>3 DEF IsMatch, IsRec, MatchFields, DirectoryFailed, ServersFull, SearchFailed, EndPreview,
      ConnectionSucceeded, CancelMatch
<1> QED BY <1>1, <1>2, <1>3

(* The servers tried, and the Quick Match, left as they were, or ended     *)
(* before it found any.                                                    *)
SameSearch(a, b) == b.tried = a.tried /\ b.quick \in {a.quick, IdleMatch, DirectoryFailed(a.quick)}

(* What leaving a screen does: it may close the connection and take the    *)
(* resumption back, and changes nothing else of the session                *)
(* (screen.c:27).                                                          *)
LEMMA CleanupFacts ==
  ASSUME NEW a, Shaped(a)
  PROVE  LET c == Cleanup(a)
         IN /\ Shaped(c) /\ c.screen = a.screen /\ c.tried = a.tried /\ c.quick = a.quick
            /\ c.pending = a.pending /\ c.active = a.active /\ c.selected = a.selected
            /\ c.net = a.net \/ c.net = NoNet
            /\ c.resume => a.resume
            /\ a.screen = "results" /\ ~a.pending /\ a.resume => ~c.resume /\ c.net = a.net
            /\ a.screen = "results" /\ ~a.pending /\ ~a.resume /\ Online(a) => c.net = NoNet
            /\ a.screen = "results" /\ a.pending => c = a
            /\ a.screen = "game" /\ a.show => c = a
            /\ a.screen \notin {"game", "results"} => c.net = a.net /\ c.resume = a.resume
<1>1. IsNet(NoNet)
  BY NetFacts
<1>2. CASE a.screen = "game"
  BY <1>1, <1>2 DEF Cleanup, GameShutdown, Shaped, IsApp, IsRec, AppFields
<1>3. CASE a.screen = "results"
  BY <1>1, <1>3 DEF Cleanup, GameShutdown, Shaped, IsApp, IsRec, AppFields
<1>4. CASE a.screen = "lobby"
  BY <1>4 DEF Cleanup, Shaped, IsApp, IsRec, AppFields
<1>5. CASE a.screen \notin {"game", "results", "lobby"}
  <2>1. Cleanup(a) = a
    BY <1>5 DEF Cleanup
  <2> QED BY <1>5, <2>1
<1> QED BY <1>2, <1>3, <1>4, <1>5

(* A refresh of the browser's list ends a search whose directory cannot    *)
(* be asked, and touches nothing else (BeginDiscoveryRefresh).             *)
LEMMA RefreshFacts ==
  ASSUME NEW a, Shaped(a)
  PROVE  LET r == BeginDiscoveryRefresh(a)
         IN /\ Shaped(r) /\ r.screen = a.screen /\ SameSearch(a, r) /\ r.net = a.net /\ r.resume = a.resume
            /\ r.pending = a.pending /\ r.active = a.active
<1> DEFINE loading == [EmptyListing EXCEPT !.state = "loading"]
           failed == [EmptyListing EXCEPT !.state = "failed"]
<1>1. BeginDiscoveryRefresh(a) = IF a.directory THEN [a EXCEPT !.listing = loading]
                                 ELSE [a EXCEPT !.listing = failed, !.quick = DirectoryFailed(a.quick)]
  BY DEF BeginDiscoveryRefresh, Shaped, IsApp, IsRec, AppFields
<1> HIDE DEF loading, failed
<1>2. IsMatch(DirectoryFailed(a.quick))
  BY MatchFacts DEF Shaped
<1> QED BY <1>1, <1>2 DEF SameSearch, Shaped, IsApp, IsRec, AppFields

(* A match that starts has the connection of its lobby, or none that is    *)
(* open (GameInit).                                                        *)
LEMMA GameInitFacts ==
  ASSUME NEW a, Shaped(a)
  PROVE  LET g == GameInit(a)
         IN /\ Shaped(g) /\ g.screen = a.screen /\ SameSearch(a, g) /\ ~g.pending /\ ~g.resume
            /\ g.active = a.selected
            /\ a.selected = "lobby" => g.net = a.net
            /\ a.selected # "lobby" => ~g.net.live
<1> DEFINE fresh == [NoNet EXCEPT !.status = "connected"]
           net == IF a.selected = "lobby" THEN a.net ELSE fresh
<1>1. IsNet(fresh) /\ ~fresh.live
  BY NetFacts DEF IsNet, IsRec, NetFields
<1>2. GameInit(a) = [a EXCEPT !.active = a.selected, !.quick = IdleMatch, !.pending = FALSE, !.resume = FALSE,
                              !.show = FALSE, !.auto = FALSE, !.world = "running", !.net = net,
                              !.server = IF a.selected = "lobby" THEN NoServer ELSE a.server]
  BY DEF GameInit, Shaped, IsApp, IsRec, AppFields
<1>3. IsMatch(IdleMatch)
  BY MatchFacts
<1>4. IsNet(net) /\ (a.selected = "lobby" => net = a.net) /\ (a.selected # "lobby" => ~net.live)
  BY <1>1 DEF Shaped
<1> DEFINE server == IF a.selected = "lobby" THEN NoServer ELSE a.server
<1> HIDE DEF net, server
<1>5. PICK g : g = GameInit(a)
  OBVIOUS
<1>6. g = [a EXCEPT !.active = a.selected, !.quick = IdleMatch, !.pending = FALSE, !.resume = FALSE,
                    !.show = FALSE, !.auto = FALSE, !.world = "running", !.net = net, !.server = server]
  BY <1>2, <1>5 DEF server
<1>7. IsApp(g) /\ g.net = net /\ g.quick = IdleMatch
  BY <1>6 DEF Shaped, IsApp, IsRec, AppFields
<1>8. SameSearch(a, g) /\ g.screen = a.screen /\ ~g.pending /\ ~g.resume /\ g.active = a.selected
  BY <1>6 DEF SameSearch, Shaped, IsApp, IsRec, AppFields
<1>9. Shaped(g)
  BY <1>3, <1>4, <1>7 DEF Shaped
<1> QED BY <1>4, <1>5, <1>7, <1>8, <1>9

(* What entering a screen does: the match consumes pending, or starts a    *)
(* session of its own (GameplayInit).                                      *)
LEMMA EnterFacts ==
  ASSUME NEW a, Shaped(a)
  PROVE  LET e == Enter(a)
         IN /\ Shaped(e) /\ e.screen = a.screen /\ SameSearch(a, e)
            /\ a.screen # "game" => /\ e.net = a.net /\ e.resume = a.resume /\ e.pending = a.pending
                                    /\ e.active = a.active
            /\ a.screen = "game" => ~e.pending
            /\ a.screen = "game" /\ a.pending => e.net = a.net /\ e.resume = a.resume /\ e.active = a.active
            /\ a.screen = "game" /\ ~a.pending =>
                 /\ ~e.resume /\ e.active = a.selected
                 /\ a.selected = "lobby" => e.net = a.net
                 /\ a.selected # "lobby" => ~e.net.live
<1>1. CASE a.screen = "browser"
  <2> DEFINE b == [a EXCEPT !.listing = EmptyListing]
  <2>1. Enter(a) = IF a.quick.phase = "finding" THEN BeginDiscoveryRefresh(b) ELSE b
    BY <1>1 DEF Enter, ServerBrowserInit
  <2>2. /\ Shaped(b) /\ b.screen = a.screen /\ b.tried = a.tried /\ b.quick = a.quick /\ b.net = a.net
        /\ b.resume = a.resume /\ b.pending = a.pending /\ b.active = a.active
    BY DEF Shaped, IsApp, IsRec, AppFields
  <2> HIDE DEF b
  <2>3. Shaped(Enter(a)) /\ Enter(a).screen = a.screen /\ SameSearch(a, Enter(a))
    BY <2>1, <2>2, RefreshFacts DEF SameSearch
  <2> QED BY <1>1, <2>1, <2>2, <2>3, RefreshFacts
<1>2. CASE a.screen = "game"
  <2>1. Enter(a) = IF a.pending THEN [a EXCEPT !.pending = FALSE] ELSE GameInit(a)
    BY <1>2 DEF Enter, GameplayInit
  <2>2. CASE a.pending
    BY <1>2, <2>1, <2>2 DEF SameSearch, Shaped, IsApp, IsRec, AppFields
  <2>3. CASE ~a.pending
    BY <1>2, <2>1, <2>3, GameInitFacts
  <2> QED BY <2>2, <2>3
<1>3. CASE a.screen = "lobby"
  <2>1. Enter(a) = [a EXCEPT !.queried = FALSE]
    BY <1>3 DEF Enter
  <2> QED BY <1>3, <2>1 DEF SameSearch, Shaped, IsApp, IsRec, AppFields
<1>4. CASE a.screen \notin {"browser", "game", "lobby"}
  <2>1. Enter(a) = a
    BY <1>4 DEF Enter
  <2> QED BY <1>4, <2>1 DEF SameSearch
<1> QED BY <1>1, <1>2, <1>3, <1>4

(* Both together: the client reaches the screen it asked for, or stays     *)
(* where it was because its lobby cannot be resumed                        *)
(* (ShroomScreenManagerTransition).                                        *)
LEMMA TransitionFacts ==
  ASSUME NEW a, Shaped(a), NEW to
  PROVE  LET t == Transition(a, to)
             c == Cleanup(a)
         IN /\ Shaped(t) /\ SameSearch(a, t)
            /\ to # "game" => /\ t.screen = to /\ t.net = c.net /\ t.resume = c.resume /\ t.pending = a.pending
                              /\ t.active = a.active
            /\ to = "game" =>
                 \/ /\ t.screen = a.screen /\ t.net = c.net /\ t.resume = c.resume /\ t.pending = a.pending
                    /\ t.active = a.active
                 \/ /\ t.screen = "game" /\ ~t.pending
                    /\ a.pending => t.net = c.net /\ t.resume = c.resume /\ t.active = a.active
                    /\ ~a.pending => /\ ~t.resume /\ t.active = a.selected
                                     /\ a.selected = "lobby" => t.net = c.net
                                     /\ a.selected # "lobby" => ~t.net.live
<1> DEFINE c == Cleanup(a)
           b == [c EXCEPT !.previous = a.screen, !.screen = to]
           stays == [b EXCEPT !.screen = a.screen, !.previous = "none"]
<1>1. /\ Shaped(c) /\ c.tried = a.tried /\ c.quick = a.quick /\ c.pending = a.pending /\ c.active = a.active
      /\ c.selected = a.selected
  BY CleanupFacts
<1> HIDE DEF c
<1>2. /\ Shaped(b) /\ b.screen = to /\ b.tried = c.tried /\ b.quick = c.quick /\ b.pending = c.pending
      /\ b.active = c.active /\ b.selected = c.selected /\ b.net = c.net /\ b.resume = c.resume
  BY <1>1 DEF Shaped, IsApp, IsRec, AppFields
<1>3. Transition(a, to) = IF to = "game" /\ ~MayEnterGame(b) THEN stays ELSE Enter(b)
  BY DEF Transition, c
<1> HIDE DEF b
<1>4. CASE to = "game" /\ ~MayEnterGame(b)
  <2>1. /\ Shaped(stays) /\ stays.screen = a.screen /\ stays.tried = b.tried /\ stays.quick = b.quick
        /\ stays.pending = b.pending /\ stays.active = b.active /\ stays.net = b.net /\ stays.resume = b.resume
    BY <1>2 DEF Shaped, IsApp, IsRec, AppFields
  <2> HIDE DEF stays
  <2>2. SameSearch(a, stays)
    BY <1>1, <1>2, <2>1 DEF SameSearch
  <2> QED BY <1>1, <1>2, <1>3, <1>4, <2>1, <2>2 DEF c
<1>5. CASE ~(to = "game" /\ ~MayEnterGame(b))
  <2> DEFINE e == Enter(b)
  <2>1. /\ Shaped(e) /\ e.screen = b.screen /\ SameSearch(b, e)
        /\ b.screen # "game" => /\ e.net = b.net /\ e.resume = b.resume /\ e.pending = b.pending
                                /\ e.active = b.active
        /\ b.screen = "game" => ~e.pending
        /\ b.screen = "game" /\ b.pending => e.net = b.net /\ e.resume = b.resume /\ e.active = b.active
        /\ b.screen = "game" /\ ~b.pending =>
             /\ ~e.resume /\ e.active = b.selected
             /\ b.selected = "lobby" => e.net = b.net
             /\ b.selected # "lobby" => ~e.net.live
    BY <1>2, EnterFacts
  <2>2. Transition(a, to) = e
    BY <1>3, <1>5
  <2> HIDE DEF e
  <2>3. SameSearch(a, e)
    BY <1>1, <1>2, <2>1 DEF SameSearch
  <2> QED BY <1>1, <1>2, <2>1, <2>2, <2>3 DEF c
<1> QED BY <1>4, <1>5

(* A match of a lobby that waits keeps its connection, whether the client  *)
(* gets to it or not.                                                      *)
LEMMA PendingMatch ==
  ASSUME NEW a, Shaped(a), a.pending
  PROVE  LET t == Transition(a, "game")
             c == Cleanup(a)
         IN /\ Shaped(t) /\ SameSearch(a, t)
            /\ \/ /\ t.screen = a.screen /\ t.net = c.net /\ t.resume = c.resume /\ t.pending = a.pending
                  /\ t.active = a.active
               \/ /\ t.screen = "game" /\ ~t.pending
                  /\ t.net = c.net /\ t.resume = c.resume /\ t.active = a.active
<1> DEFINE t == Transition(a, "game")
           c == Cleanup(a)
<1>1. Shaped(t) /\ SameSearch(a, t)
  BY TransitionFacts
<1>2. \/ /\ t.screen = a.screen /\ t.net = c.net /\ t.resume = c.resume /\ t.pending = a.pending
         /\ t.active = a.active
      \/ t.screen = "game" /\ ~t.pending /\ t.net = c.net /\ t.resume = c.resume /\ t.active = a.active
  BY TransitionFacts, ZenonT(30)
<1> HIDE DEF t, c
<1> QED BY <1>1, <1>2 DEF t, c

(* A client without a connection stays without one, whatever screen it     *)
(* goes to.                                                                *)
Quiet(a) == ~a.net.live /\ ~a.resume /\ (a.screen = "game" => ~a.pending)

(* No transition opens a connection (ShroomScreenManagerTransition).       *)
LEMMA QuietStays ==
  ASSUME NEW a, Shaped(a), Quiet(a)
  PROVE  /\ \A to : Shaped(Transition(a, to)) /\ SameSearch(a, Transition(a, to)) /\ Quiet(Transition(a, to))
         /\ Shaped(GoBack(a)) /\ SameSearch(a, GoBack(a)) /\ Quiet(GoBack(a))
<1> DEFINE c == Cleanup(a)
<1>1. /\ Shaped(c) /\ c.tried = a.tried /\ c.quick = a.quick /\ c.pending = a.pending /\ c.active = a.active
      /\ c.selected = a.selected /\ ~c.net.live /\ ~c.resume
  BY CleanupFacts, NetFacts DEF Quiet
<1> HIDE DEF c
<1>2. ASSUME NEW to
      PROVE  Shaped(Transition(a, to)) /\ SameSearch(a, Transition(a, to)) /\ Quiet(Transition(a, to))
  <2> DEFINE t == Transition(a, to)
  <2>1. /\ Shaped(t) /\ SameSearch(a, t)
        /\ to # "game" => t.screen = to /\ t.net = c.net /\ t.resume = c.resume /\ t.pending = a.pending
        /\ to = "game" =>
             \/ t.screen = a.screen /\ t.net = c.net /\ t.resume = c.resume /\ t.pending = a.pending
             \/ /\ t.screen = "game" /\ ~t.pending
                /\ a.pending => t.net = c.net /\ t.resume = c.resume
                /\ ~a.pending => /\ ~t.resume
                                 /\ a.selected = "lobby" => t.net = c.net
                                 /\ a.selected # "lobby" => ~t.net.live
    BY TransitionFacts DEF c
  <2> HIDE DEF t
  <2>2. Quiet(t)
    BY <1>1, <2>1 DEF Quiet
  <2> QED BY <2>1, <2>2 DEF t
<1>3. Shaped(GoBack(a)) /\ SameSearch(a, GoBack(a)) /\ Quiet(GoBack(a))
  <2> DEFINE b == [c EXCEPT !.previous = "none", !.screen = a.previous]
             stays == [b EXCEPT !.screen = "none"]
  <2>1. /\ Shaped(b) /\ b.tried = c.tried /\ b.quick = c.quick /\ b.pending = c.pending
        /\ b.selected = c.selected /\ b.net = c.net /\ b.resume = c.resume
    BY <1>1 DEF Shaped, IsApp, IsRec, AppFields
  <2>2. GoBack(a) = IF a.previous = "none" THEN a
                    ELSE IF b.screen = "game" /\ ~MayEnterGame(b) THEN stays ELSE Enter(b)
    BY DEF GoBack, c
  <2> HIDE DEF b
  <2>3. Shaped(a) /\ SameSearch(a, a) /\ Quiet(a)
    BY DEF SameSearch
  <2>4. Shaped(stays) /\ SameSearch(a, stays) /\ Quiet(stays)
    BY <1>1, <2>1 DEF SameSearch, Quiet, Shaped, IsApp, IsRec, AppFields
  <2> HIDE DEF stays
  <2>5. Shaped(Enter(b)) /\ SameSearch(a, Enter(b)) /\ Quiet(Enter(b))
    <3> DEFINE e == Enter(b)
    <3>1. /\ Shaped(e) /\ e.screen = b.screen /\ SameSearch(b, e)
          /\ b.screen # "game" => e.net = b.net /\ e.resume = b.resume
          /\ b.screen = "game" => ~e.pending
          /\ b.screen = "game" /\ b.pending => e.net = b.net /\ e.resume = b.resume
          /\ b.screen = "game" /\ ~b.pending =>
               /\ ~e.resume
               /\ b.selected = "lobby" => e.net = b.net
               /\ b.selected # "lobby" => ~e.net.live
      BY <2>1, EnterFacts
    <3> HIDE DEF e
    <3>2. SameSearch(a, e)
      BY <1>1, <2>1, <3>1 DEF SameSearch
    <3>3. Quiet(e)
      BY <1>1, <2>1, <3>1 DEF Quiet
    <3> QED BY <3>1, <3>2, <3>3 DEF e
  <2> QED BY <2>2, <2>3, <2>4, <2>5
<1> QED BY <1>2, <1>3

-----------------------------------------------------------------------------
(* What a connection may be open for.                                      *)
Kept(a) ==
  /\ ~a.resume
  /\ a.screen = "game" => ~a.pending
  /\ a.net.live => /\ a.screen \in {"lobby", "roster", "game", "results"}
                   /\ a.screen \in {"game", "results"} => Online(a)
                   /\ a.screen = "results" /\ a.pending => a.net.welcome

Sound(a) == Shaped(a) /\ Kept(a)

(* A quiet client has nothing to keep.                                     *)
LEMMA QuietIsKept == ASSUME NEW a, Quiet(a) PROVE Kept(a)
  BY DEF Quiet, Kept

(* So every screen a quiet client goes to is sound.                        *)
LEMMA QuietMoves ==
  ASSUME NEW a, Shaped(a), Quiet(a)
  PROVE  /\ Sound(a) /\ Sound(GoBack(a)) /\ SameSearch(a, GoBack(a))
         /\ \A to : Sound(Transition(a, to)) /\ SameSearch(a, Transition(a, to))
  BY QuietStays, QuietIsKept DEF Sound

(* Without a connection in the menus.                                      *)
LEMMA MenusAreQuiet ==
  ASSUME NEW a, Kept(a), a.screen \notin {"lobby", "roster", "game", "results"} PROVE Quiet(a)
  BY DEF Kept, Quiet

-----------------------------------------------------------------------------
(* What the lobby answers, and what the network brings                     *)

Kinds == {"list", "joined", "roster", "status"}
Answers(messages) == \E letters : messages \in Seq(letters) /\ \A letter \in letters : letter.type \in Kinds

(* Messages of those kinds are answers.                                    *)
LEMMA IsAnswers ==
  ASSUME NEW letters, \A letter \in letters : letter.type \in Kinds, NEW messages \in Seq(letters)
  PROVE  Answers(messages)
  BY Zenon DEF Answers

(* Answers are put together and taken apart.                               *)
LEMMA AnswerFacts ==
  /\ Answers(<<>>)
  /\ \A letter : letter.type \in Kinds => Answers(<<letter>>)
  /\ \A messages, more : Answers(messages) /\ Answers(more) => Answers(messages \o more)
  /\ \A messages : Answers(messages) /\ messages # <<>> =>
       Head(messages).type \in Kinds /\ Answers(Tail(messages))
<1>1. Answers(<<>>)
  <2>1. <<>> \in Seq({})
    OBVIOUS
  <2> QED BY <2>1, IsAnswers
<1>2. ASSUME NEW letter, letter.type \in Kinds PROVE Answers(<<letter>>)
  <2>1. <<letter>> \in Seq({letter})
    OBVIOUS
  <2> QED BY <1>2, <2>1, IsAnswers
<1>3. ASSUME NEW messages, NEW more, Answers(messages), Answers(more) PROVE Answers(messages \o more)
  <2>1. PICK letters : messages \in Seq(letters) /\ \A letter \in letters : letter.type \in Kinds
    BY <1>3 DEF Answers
  <2>2. PICK others : more \in Seq(others) /\ \A letter \in others : letter.type \in Kinds
    BY <1>3 DEF Answers
  <2>3. messages \in Seq(letters \cup others) /\ more \in Seq(letters \cup others)
    BY <2>1, <2>2
  <2>4. messages \o more \in Seq(letters \cup others)
    BY <2>3
  <2> QED BY <2>1, <2>2, <2>4, IsAnswers
<1>4. ASSUME NEW messages, Answers(messages), messages # <<>>
      PROVE  Head(messages).type \in Kinds /\ Answers(Tail(messages))
  <2>1. PICK letters : messages \in Seq(letters) /\ \A letter \in letters : letter.type \in Kinds
    BY <1>4 DEF Answers
  <2>2. Head(messages) \in letters /\ Tail(messages) \in Seq(letters)
    BY <1>4, <2>1
  <2> QED BY <2>1, <2>2, IsAnswers
<1> QED BY <1>1, <1>2, <1>3, <1>4

(* What the lobby sends is of those kinds (BroadcastLobbyRoster, the       *)
(* intermission status, the join).                                         *)
LEMMA LobbyAnswers ==
  ASSUME NEW r
  PROVE  Answers(<<Status(r)>>) /\ Answers(<<Roster(r)>>) /\ Answers(Welcomes(r))
         /\ \A s : Answers(<<Status(r), Roster(s)>>)
<1>1. \A s : Status(s).type \in Kinds /\ Roster(s).type \in Kinds
  BY DEF Status, Roster, Kinds
<1>2. \A s : Answers(<<Status(s)>>) /\ Answers(<<Roster(s)>>)
  BY <1>1, AnswerFacts
<1>3. ASSUME NEW s PROVE Answers(<<Status(r), Roster(s)>>)
  <2>1. <<Status(r), Roster(s)>> \in Seq({Status(r), Roster(s)})
    OBVIOUS
  <2> QED BY <1>1, <2>1, IsAnswers
<1>4. Answers(Welcomes(r))
  <2> DEFINE joined == [type |-> "joined", watching |-> r.seat = "watch"]
             first == <<joined, Roster(r)>>
             last == IF r.phase = "results" THEN <<Status(r)>> ELSE <<>>
  <2>1. joined.type \in Kinds
    BY DEF Kinds
  <2> HIDE DEF joined
  <2>2. first \in Seq({joined, Roster(r)})
    OBVIOUS
  <2>3. Answers(first)
    BY <1>1, <2>1, <2>2, IsAnswers
  <2>4. Answers(last)
    BY <1>2, AnswerFacts
  <2> HIDE DEF first, last
  <2>5. Answers(first \o last)
    BY <2>3, <2>4, AnswerFacts
  <2> QED BY <2>5 DEF Welcomes, first, last, joined
<1> QED BY <1>2, <1>3, <1>4

(* And so is its mail to a client that has a seat.                         *)
LEMMA PostedAnswers ==
  ASSUME NEW messages, Answers(mail), Answers(messages) PROVE Answers(Posted(messages))
  BY AnswerFacts DEF Posted

(* A client of which only the connection changed.                          *)
With(a, net) == [a EXCEPT !.net = net]

(* Its other fields are those of before.                                   *)
LEMMA WithFacts ==
  ASSUME NEW a, Shaped(a), NEW net, IsNet(net)
  PROVE  LET b == With(a, net)
         IN /\ Shaped(b) /\ SameSearch(a, b) /\ b.net = net /\ b.screen = a.screen /\ b.pending = a.pending
            /\ b.resume = a.resume /\ b.active = a.active /\ b.selected = a.selected /\ b.show = a.show
            /\ b.quick = a.quick
  BY DEF With, SameSearch, Shaped, IsApp, IsRec, AppFields

(* A connection that lasts, or is lost, leaves the client sound.           *)
LEMMA LastingIsSound ==
  ASSUME NEW a, Sound(a), NEW net, Lasts(a.net, net)
  PROVE  Sound(With(a, net))
<1>1. IsNet(net)
  BY DEF Lasts
<1>2. Shaped(a)
  BY DEF Sound
<1>3. /\ Shaped(With(a, net)) /\ With(a, net).net = net /\ With(a, net).screen = a.screen
      /\ With(a, net).pending = a.pending /\ With(a, net).resume = a.resume /\ With(a, net).active = a.active
  BY <1>1, <1>2, WithFacts
<1>4. Kept(With(a, net))
  BY <1>3 DEF Sound, Kept, Lasts, Online
<1> QED BY <1>3, <1>4 DEF Sound

(* A message of the lobby is one of the handlers of net.c.                 *)
LEMMA ReceivedLasts ==
  ASSUME NEW a, Shaped(a), NEW message, message.type \in Kinds
  PROVE  \E net : Lasts(a.net, net) /\ Received(a, message) = With(a, net)
<1>0. IsNet(a.net)
  BY DEF Shaped
<1>1. CASE message.type = "list"
  <2>1. Received(a, message) = With(a, HandleLobbyList(a.net, message.places))
    BY <1>1 DEF Received, With, Shaped, IsApp, IsRec, AppFields
  <2> QED BY <1>0, <2>1, HandlersLast
<1>2. CASE message.type = "joined"
  <2>1. Received(a, message) = With(a, HandleLobbyJoined(a.net, message.watching))
    BY <1>2 DEF Received, With, Shaped, IsApp, IsRec, AppFields
  <2> QED BY <1>0, <2>1, HandlersLast
<1>3. CASE message.type = "roster"
  <2>1. Received(a, message) = With(a, HandleLobbyRoster(a.net, message.ready))
    BY <1>3 DEF Received, With, Shaped, IsApp, IsRec, AppFields
  <2> QED BY <1>0, <2>1, HandlersLast
<1>4. CASE message.type = "status"
  <2>1. Received(a, message) = With(a, HandleIntermissionStatus(a.net, message))
    BY <1>4 DEF Received, With, Shaped, IsApp, IsRec, AppFields
  <2> QED BY <1>0, <2>1, HandlersLast
<1> QED BY <1>1, <1>2, <1>3, <1>4 DEF Kinds

(* A pump of the network (Arrivals): the client but for its connection is  *)
(* as it was.                                                              *)
IsArrival(r) == IsRec(r, {"app", "mail", "room", "losses"})
Brought(arrival) ==
  /\ IsArrival(arrival) /\ Answers(arrival.mail)
  /\ \E net : Lasts(app.net, net) /\ arrival.app = With(app, net)

(* Every thing a pump may bring is a client whose connection lasted.       *)
LEMMA ArrivalFacts ==
  ASSUME Shaped(app), Answers(mail), NEW arrival \in Arrivals PROVE Brought(arrival)
<1>0. IsNet(app.net) /\ \A net : IsNet(net) => With(app, net) = [app EXCEPT !.net = net]
  BY DEF Shaped, With
<1>1. ASSUME NEW a, NEW net, Lasts(app.net, net), a = With(app, net) PROVE Brought(Arrival(a))
  BY <1>1 DEF Brought, Arrival, IsArrival, IsRec
<1>2. app = With(app, app.net)
  BY DEF With, Shaped, IsApp, IsRec, AppFields
<1>3. CASE arrival = Arrival(app)
  BY <1>0, <1>1, <1>2, <1>3, HandlersLast
<1>4. ASSUME NEW supported \in BOOLEAN, arrival = Arrival([app EXCEPT !.net = HandleWelcome(@, supported)])
      PROVE  Brought(arrival)
  <2>1. [app EXCEPT !.net = HandleWelcome(@, supported)] = With(app, HandleWelcome(app.net, supported))
    BY DEF With, Shaped, IsApp, IsRec, AppFields
  <2> QED BY <1>0, <1>1, <1>4, <2>1, HandlersLast
<1>5. CASE arrival = Arrival([app EXCEPT !.net = ConnectTimedOut(@)])
  <2>1. [app EXCEPT !.net = ConnectTimedOut(@)] = With(app, ConnectTimedOut(app.net))
    BY DEF With, Shaped, IsApp, IsRec, AppFields
  <2> QED BY <1>0, <1>1, <1>5, <2>1, HandlersLast
<1>6. CASE arrival = Arrival([app EXCEPT !.net = HandleSnapshot(@, room.phase)])
  <2>1. [app EXCEPT !.net = HandleSnapshot(@, room.phase)] = With(app, HandleSnapshot(app.net, room.phase))
    BY DEF With, Shaped, IsApp, IsRec, AppFields
  <2> QED BY <1>0, <1>1, <1>6, <2>1, HandlersLast
<1>7. ASSUME mail # <<>>, arrival = [Arrival(Received(app, Head(mail))) EXCEPT !.mail = Tail(@)]
      PROVE  Brought(arrival)
  <2>1. Head(mail).type \in Kinds /\ Answers(Tail(mail))
    BY <1>7, AnswerFacts
  <2>2. PICK net : Lasts(app.net, net) /\ Received(app, Head(mail)) = With(app, net)
    BY <2>1, ReceivedLasts
  <2>3. arrival = [app |-> With(app, net), mail |-> Tail(mail), room |-> room, losses |-> losses]
    BY <1>7, <2>2 DEF Arrival
  <2> QED BY <2>1, <2>2, <2>3 DEF Brought, IsArrival, IsRec
<1>8. CASE arrival = Lost
  <2>1. [app EXCEPT !.net = Disconnected(@)] = With(app, Disconnected(app.net))
    BY DEF With, Shaped, IsApp, IsRec, AppFields
  <2>2. Lasts(app.net, Disconnected(app.net))
    BY <1>0, HandlersLast
  <2> QED BY <1>8, <2>1, <2>2, AnswerFacts DEF Lost, Brought, IsArrival, IsRec
<1>9. \/ arrival = Arrival(app)
      \/ \E supported \in BOOLEAN : arrival = Arrival([app EXCEPT !.net = HandleWelcome(@, supported)])
      \/ arrival = Arrival([app EXCEPT !.net = ConnectTimedOut(@)])
      \/ arrival = Arrival([app EXCEPT !.net = HandleSnapshot(@, room.phase)])
      \/ mail # <<>> /\ arrival = [Arrival(Received(app, Head(mail))) EXCEPT !.mail = Tail(@)]
      \/ arrival = Lost
  BY Zenon DEF Arrivals
<1> QED BY <1>3, <1>4, <1>5, <1>6, <1>7, <1>8, <1>9

-----------------------------------------------------------------------------
(* What an action does to the Quick Match and to the servers tried.        *)
Changed(a, match, tried) ==
  \/ match = a.quick /\ tried = a.tried
  \/ match \in {IdleMatch, ServersFull(a.quick), DirectoryFailed(a.quick), CancelMatch(a.quick),
                ConnectionSucceeded(a.quick), ConnectionFailed(a.quick)} /\ tried = a.tried
  \/ /\ \E offers \in SUBSET Offers : IsFiniteSet(offers) /\ match = SetCandidates(a.quick, offers)
     /\ tried = a.tried
  \/ match = BeginMatch /\ tried = <<>>
  \/ a.quick.phase = "preview" /\ match = EndPreview(a.quick) /\ tried = Append(a.tried, match.selected)
Moved(a, b) == \E match, tried : /\ Changed(a, match, tried) /\ b.tried = tried
                                 /\ b.quick \in {match, IdleMatch, DirectoryFailed(match)}

(* A change of the search, and a screen after it, is a move.               *)
LEMMA Moves ==
  ASSUME NEW a, NEW x, NEW b, Changed(a, x.quick, x.tried), SameSearch(x, b) PROVE Moved(a, b)
  BY Zenon DEF Moved, SameSearch

(* So is a screen alone.                                                   *)
LEMMA MovesOn == ASSUME NEW a, NEW b, SameSearch(a, b) PROVE Moved(a, b)
  BY Moves DEF Changed

(* SelectNext returns a Quick Match, and so do its callers.                *)
LEMMA SearchFacts ==
  ASSUME NEW m, IsMatch(m)
  PROVE  /\ IsMatch(ConnectionFailed(m))
         /\ \A offers : IsMatch(SetCandidates(m, offers))
<1>1. ASSUME NEW k, IsMatch(k) PROVE IsMatch(SelectNext(k))
  <2> DEFINE best == Best({offer \in k.offers : offer.server \notin k.excluded})
  <2>1. SelectNext(k) = IF best = NoServer
          THEN [k EXCEPT !.selected = NoServer, !.phase = "failed",
                         !.failure = IF k.attempts > 0 THEN "exhausted" ELSE "no servers"]
          ELSE [k EXCEPT !.selected = best, !.phase = "preview", !.failure = "none"]
    BY DEF SelectNext
  <2> HIDE DEF best
  <2> QED BY <1>1, <2>1 DEF IsMatch, IsRec, MatchFields
<1>2. IsMatch(ConnectionFailed(m))
  <2> DEFINE k == [m EXCEPT !.excluded = m.excluded \cup {m.selected}]
  <2>1. ConnectionFailed(m) \in {m, SelectNext(k)}
    BY DEF ConnectionFailed, IsMatch, IsRec, MatchFields
  <2>2. IsMatch(k)
    BY DEF IsMatch, IsRec, MatchFields
  <2> HIDE DEF k
  <2> QED BY <1>1, <2>1, <2>2
<1>3. ASSUME NEW offers PROVE IsMatch(SetCandidates(m, offers))
  <2> DEFINE k == [m EXCEPT !.offers = offers]
  <2>1. SetCandidates(m, offers) \in {m, SelectNext(k), [SelectNext(k) EXCEPT !.failure = "full"]}
    BY DEF SetCandidates
  <2>2. IsMatch(k)
    BY DEF IsMatch, IsRec, MatchFields
  <2> HIDE DEF k
  <2>3. IsMatch(SelectNext(k))
    BY <1>1, <2>2
  <2>4. IsMatch([SelectNext(k) EXCEPT !.failure = "full"])
    BY <2>3 DEF IsMatch, IsRec, MatchFields
  <2> QED BY <2>1, <2>3, <2>4
<1> QED BY <1>2, <1>3

Good(a) == Sound(a) /\ Moved(app, a)

(* A good client that is shown keeps the mail of answers, or none.         *)
LEMMA ShownFacts ==
  ASSUME Answers(mail), NEW a, Good(a), Shown(a)
  PROVE  Sound(app') /\ Answers(mail)' /\ Moved(app, app')
<1>1. app' = a
  BY DEF Shown
<1>2. mail' = mail \/ mail' = <<>>
  BY DEF Shown, Leaves
<1>3. Answers(mail')
  BY <1>2, AnswerFacts
<1> QED BY <1>1, <1>3 DEF Good

(* From a client that is quiet, any screen, and any change of its search.  *)
LEMMA QuietShown ==
  ASSUME NEW a, Shaped(a), Quiet(a), Changed(app, a.quick, a.tried)
  PROVE  /\ Good(a) /\ Good(GoBack(a)) /\ \A to : Good(Transition(a, to))
<1>1. /\ Sound(a) /\ Sound(GoBack(a)) /\ SameSearch(a, GoBack(a))
      /\ \A to : Sound(Transition(a, to)) /\ SameSearch(a, Transition(a, to))
  BY QuietMoves
<1>2. SameSearch(a, a)
  BY DEF SameSearch
<1> QED BY <1>1, <1>2, Moves DEF Good

(* The search of a client that did not search.                             *)
LEMMA Unchanged == Changed(app, app.quick, app.tried)
  BY DEF Changed

Ready == Sound(app) /\ Answers(mail)
GoesOn == Sound(app') /\ Answers(mail)' /\ Moved(app, app')

(* The end of a preview opens the connection on the way to the lobbies     *)
(* (ConnectQuickMatch).                                                    *)
LEMMA PreviewSound == ASSUME Ready, PreviewEnds PROVE GoesOn
<1> DEFINE x == [app EXCEPT !.quick = EndPreview(app.quick)]
           y == [x EXCEPT !.auto = TRUE, !.tried = Append(x.tried, x.quick.selected)]
           opened == Connect(x.quick.selected \in Servers)
           z == [y EXCEPT !.server = x.quick.selected, !.net = opened]
           t == Transition(z, "lobby")
<1>0. Shaped(app) /\ app.screen = "browser" /\ ~app.resume /\ IsMatch(app.quick) /\ app.quick.phase = "preview"
  BY DEF Ready, Sound, Shaped, Kept, PreviewEnds
<1>1. IsMatch(EndPreview(app.quick)) /\ IsNet(opened)
  BY <1>0, MatchFacts, NetFacts
<1>2. Shaped(x) /\ x.screen = "browser" /\ ~x.resume /\ x.tried = app.tried /\ x.quick = EndPreview(app.quick)
  BY <1>0, <1>1 DEF Shaped, IsApp, IsRec, AppFields
<1>3. Shown(t)
  <2>1. x = [app EXCEPT !.quick = EndPreview(@)]
    BY <1>0 DEF Shaped, IsApp, IsRec, AppFields
  <2> HIDE DEF x
  <2>2. y = [x EXCEPT !.auto = TRUE, !.tried = Append(@, x.quick.selected)]
    BY <1>2 DEF Shaped, IsApp, IsRec, AppFields
  <2> QED BY <2>1, <2>2 DEF PreviewEnds, ConnectQuickMatch, JoinServer
<1> HIDE DEF x, opened
<1>4. /\ Shaped(z) /\ z.screen = "browser" /\ ~z.resume /\ z.quick = x.quick
      /\ z.tried = Append(app.tried, x.quick.selected)
  BY <1>1, <1>2 DEF Shaped, IsApp, IsRec, AppFields, opened
<1> HIDE DEF z
<1>5. Shaped(t) /\ SameSearch(z, t) /\ t.screen = "lobby" /\ ~t.resume
  BY <1>4, TransitionFacts, CleanupFacts
<1>6. Sound(t)
  BY <1>5 DEF Sound, Kept
<1>7. Changed(app, z.quick, z.tried)
  BY <1>0, <1>2, <1>4 DEF Changed
<1>8. Good(t)
  BY <1>5, <1>6, <1>7, Moves DEF Good
<1> HIDE DEF t
<1> QED BY <1>3, <1>8, ShownFacts DEF Ready, GoesOn

(* The same as far as the connection is concerned.                         *)
Alike(a, b) ==
  /\ Shaped(b) /\ b.screen = a.screen /\ b.net = a.net /\ b.pending = a.pending /\ b.resume = a.resume
  /\ b.active = a.active

(* A client with the same connection on the same screen is as sound.       *)
LEMMA AlikeIsSound == ASSUME NEW a, Sound(a), NEW b, Alike(a, b) PROVE Sound(b)
  BY DEF Sound, Kept, Alike, Online

(* A sound client of the same search is good.                              *)
LEMMA SameIsGood == ASSUME NEW a, Sound(a), SameSearch(app, a) PROVE Good(a)
  BY MovesOn DEF Good

(* A step that changes neither the client nor its mail.                    *)
LEMMA StaySound == ASSUME Ready, UNCHANGED <<app, mail>> PROVE GoesOn
<1>1. SameSearch(app, app)
  BY DEF SameSearch
<1> QED BY <1>1, MovesOn DEF Ready, GoesOn

(* A discovery that ends gives its offers to the search.                   *)
LEMMA DiscoverySound == ASSUME Ready, DiscoveryEnds PROVE GoesOn
<1>0. Shaped(app) /\ IsMatch(app.quick) /\ mail' = mail
  BY DEF Ready, Sound, Shaped, DiscoveryEnds
<1>1. ASSUME NEW listing, NEW quick, IsMatch(quick), Changed(app, quick, app.tried),
             app' = [app EXCEPT !.listing = listing, !.quick = quick]
      PROVE  GoesOn
  <2> DEFINE b == [app EXCEPT !.listing = listing, !.quick = quick]
  <2>1. Alike(app, b) /\ b.quick = quick /\ b.tried = app.tried
    BY <1>0, <1>1 DEF Alike, Shaped, IsApp, IsRec, AppFields
  <2> HIDE DEF b
  <2>2. Sound(b)
    BY <2>1, AlikeIsSound DEF Ready
  <2>3. Moved(app, b)
    <3>1. SameSearch(b, b) /\ Changed(app, b.quick, b.tried)
      BY <1>1, <2>1 DEF SameSearch
    <3> QED BY <3>1, Moves
  <2>4. app' = b
    BY <1>1 DEF b
  <2> QED BY <1>0, <2>2, <2>3, <2>4 DEF Ready, GoesOn
<1>2. ASSUME NEW offers \in Listings
      PROVE  LET free == {offer \in offers : Joinable(offer)}
                 a == [app EXCEPT !.listing = [state |-> IF free = {} THEN "empty" ELSE "ready", offers |-> free]]
             IN  app' = (IF free = {} /\ offers # {} THEN [a EXCEPT !.quick = ServersFull(@)]
                         ELSE PopulateQuickMatch(a, free)) => GoesOn
  <2> DEFINE free == {offer \in offers : Joinable(offer)}
             listing == [state |-> IF free = {} THEN "empty" ELSE "ready", offers |-> free]
             a == [app EXCEPT !.listing = listing]
  <2>1. free \in SUBSET Offers /\ IsFiniteSet(free)
    BY FlowParameters, FS_Subset DEF Offers
  <2> HIDE DEF free, listing
  <2>2. [a EXCEPT !.quick = ServersFull(@)] = [app EXCEPT !.listing = listing, !.quick = ServersFull(app.quick)]
    BY <1>0 DEF Shaped, IsApp, IsRec, AppFields
  <2>3. PopulateQuickMatch(a, free) = [app EXCEPT !.listing = listing, !.quick = SetCandidates(app.quick, free)]
    BY <1>0 DEF PopulateQuickMatch, Shaped, IsApp, IsRec, AppFields
  <2>4. IsMatch(ServersFull(app.quick)) /\ IsMatch(SetCandidates(app.quick, free))
    BY <1>0, MatchFacts, SearchFacts
  <2>5. Changed(app, ServersFull(app.quick), app.tried) /\ Changed(app, SetCandidates(app.quick, free), app.tried)
    BY <2>1 DEF Changed
  <2>6. app' = (IF free = {} /\ offers # {} THEN [a EXCEPT !.quick = ServersFull(@)]
                ELSE PopulateQuickMatch(a, free)) => GoesOn
    <3>1. ASSUME app' = [app EXCEPT !.listing = listing, !.quick = ServersFull(app.quick)] PROVE GoesOn
      BY <1>1, <2>4, <2>5, <3>1
    <3>2. ASSUME app' = [app EXCEPT !.listing = listing, !.quick = SetCandidates(app.quick, free)] PROVE GoesOn
      BY <1>1, <2>4, <2>5, <3>2
    <3> QED BY <2>2, <2>3, <3>1, <3>2
  <2> QED BY <2>6 DEF free, listing
<1>3. ASSUME app' = [app EXCEPT !.listing.state = "failed", !.quick = DirectoryFailed(@)] PROVE GoesOn
  <2> DEFINE listing == [app.listing EXCEPT !.state = "failed"]
  <2>1. app' = [app EXCEPT !.listing = listing, !.quick = DirectoryFailed(app.quick)]
    BY <1>0, <1>3 DEF Shaped, IsApp, IsRec, AppFields
  <2>2. IsMatch(DirectoryFailed(app.quick)) /\ Changed(app, DirectoryFailed(app.quick), app.tried)
    BY <1>0, MatchFacts DEF Changed
  <2> HIDE DEF listing
  <2> QED BY <1>1, <2>1, <2>2
<1> QED BY <1>2, <1>3 DEF DiscoveryEnds

(* A list that grows old.                                                  *)
LEMMA ListSound == ASSUME Ready, ListGrowsOld PROVE GoesOn
<1> DEFINE b == [app EXCEPT !.listing.state = "stale"]
<1>1. Alike(app, b) /\ SameSearch(app, b)
  BY DEF Ready, Sound, Alike, SameSearch, Shaped, IsApp, IsRec, AppFields
<1>2. app' = b /\ mail' = mail
  BY DEF ListGrowsOld
<1> HIDE DEF b
<1>3. Good(b)
  BY <1>1, AlikeIsSound, SameIsGood DEF Ready
<1> QED BY <1>2, <1>3 DEF Ready, GoesOn, Good

(* A frame of the roster.                                                  *)
LEMMA RosterSound == ASSUME Ready, LobbyRosterUpdate PROVE GoesOn
<1>1. PICK arrival \in Arrivals : Becomes(arrival)
  BY DEF LobbyRosterUpdate
<1>2. Brought(arrival)
  BY ArrivalFacts DEF Ready, Sound
<1>3. PICK net : Lasts(app.net, net) /\ arrival.app = With(app, net)
  BY <1>2 DEF Brought
<1>4. Sound(With(app, net))
  BY <1>3, LastingIsSound DEF Ready
<1>5. SameSearch(app, With(app, net))
  BY <1>3, WithFacts DEF Ready, Sound, Lasts
<1> QED BY <1>1, <1>2, <1>3, <1>4, <1>5, SameIsGood DEF Becomes, Brought, GoesOn, Good

(* An arrival that the list of lobbies has not shown yet.                  *)
Carries(r, a) ==
  /\ IsArrival(r) /\ Answers(r.mail)
  /\ Alike(a, r.app) /\ r.app.quick = a.quick /\ r.app.tried = a.tried

(* What it becomes while the rest of the frame runs.                       *)
LEMMA CarriesOn ==
  ASSUME NEW r, NEW a, Carries(r, a), NEW s, IsArrival(s), Answers(s.mail),
         Alike(r.app, s.app), s.app.quick = r.app.quick, s.app.tried = r.app.tried
  PROVE  Carries(s, a)
  BY DEF Carries, Alike

(* The list asked for, and its answer (LobbyBrowserUpdate).                *)
LEMMA ListAnswerFacts ==
  ASSUME NEW r, NEW a, Carries(r, a), NEW s \in ListAnswer(r) PROVE Carries(s, a)
<1>1. ASSUME NEW asked, asked = [r EXCEPT !.app.queried = TRUE]
      PROVE  /\ IsArrival(asked) /\ asked.mail = r.mail
             /\ Alike(r.app, asked.app) /\ asked.app.quick = r.app.quick /\ asked.app.tried = r.app.tried
  <2>1. IsArrival(asked) /\ asked.mail = r.mail /\ asked.app = [r.app EXCEPT !.queried = TRUE]
    BY <1>1 DEF Carries, IsArrival, IsRec
  <2> QED BY <2>1 DEF Carries, Alike, Shaped, IsApp, IsRec, AppFields
<1>2. ASSUME NEW asked, asked = [r EXCEPT !.app.queried = TRUE], NEW places,
             s = [asked EXCEPT !.mail = Append(@, [type |-> "list", places |-> places])]
      PROVE  Carries(s, a)
  <2> DEFINE letter == [type |-> "list", places |-> places]
  <2>1. letter.type \in Kinds
    BY DEF Kinds
  <2>2. /\ IsArrival(asked) /\ asked.mail = r.mail /\ Alike(r.app, asked.app)
        /\ asked.app.quick = r.app.quick /\ asked.app.tried = r.app.tried
    BY <1>1, <1>2
  <2>3. s = [asked EXCEPT !.mail = Append(asked.mail, letter)]
    BY <1>2
  <2> HIDE DEF letter
  <2>4. IsArrival(s) /\ s.app = asked.app /\ s.mail = Append(r.mail, letter)
    BY <2>2, <2>3 DEF IsArrival, IsRec
  <2>5. Answers(r.mail) /\ Answers(<<letter>>)
    BY <2>1, AnswerFacts DEF Carries
  <2>6. Append(r.mail, letter) = r.mail \o <<letter>>
    <3>1. PICK letters : r.mail \in Seq(letters)
      BY <2>5 DEF Answers
    <3> QED BY <3>1
  <2>7. Answers(s.mail)
    BY <2>4, <2>5, <2>6, AnswerFacts
  <2> QED BY <2>2, <2>4, <2>7, CarriesOn
<1>3. ASSUME s = [r EXCEPT !.app.queried = TRUE] PROVE Carries(s, a)
  <2>1. /\ IsArrival(s) /\ s.mail = r.mail
        /\ Alike(r.app, s.app) /\ s.app.quick = r.app.quick /\ s.app.tried = r.app.tried
    BY <1>1, <1>3
  <2> QED BY <2>1, CarriesOn DEF Carries
<1>4. PICK asked : asked = [r EXCEPT !.app.queried = TRUE]
  OBVIOUS
<1>5. s = r \/ s = asked
      \/ \E places \in {"open", "full"} : s = [asked EXCEPT !.mail = Append(@, [type |-> "list", places |-> places])]
  <2>1. ListAnswer(r) \subseteq {r, asked} \cup
          {[asked EXCEPT !.mail = Append(@, [type |-> "list", places |-> places])] : places \in {"open", "full"}}
    BY <1>4 DEF ListAnswer
  <2> QED BY <2>1
<1>6. CASE s = r
  BY <1>6
<1>7. CASE s = asked
  BY <1>3, <1>4, <1>7
<1>8. ASSUME NEW places \in {"open", "full"}, s = [asked EXCEPT !.mail = Append(@, [type |-> "list", places |-> places])]
      PROVE  Carries(s, a)
  BY <1>2, <1>4, <1>8
<1> QED BY <1>5, <1>6, <1>7, <1>8

(* The lobby joined by itself.                                             *)
LEMMA AutoJoinFacts ==
  ASSUME NEW r, NEW a, Carries(r, a), NEW s \in AutoJoin(r) PROVE Carries(s, a)
<1>1. ASSUME NEW done, done = [r EXCEPT !.app.auto = FALSE]
      PROVE  /\ IsArrival(done) /\ done.mail = r.mail
             /\ Alike(r.app, done.app) /\ done.app.quick = r.app.quick /\ done.app.tried = r.app.tried
  <2>1. IsArrival(done) /\ done.mail = r.mail /\ done.app = [r.app EXCEPT !.auto = FALSE]
    BY <1>1 DEF Carries, IsArrival, IsRec
  <2> QED BY <2>1 DEF Carries, Alike, Shaped, IsApp, IsRec, AppFields
<1>2. ASSUME NEW done, done = [r EXCEPT !.app.auto = FALSE], NEW seated,
             s = [done EXCEPT !.room = seated, !.mail = @ \o Welcomes(seated)]
      PROVE  Carries(s, a)
  <2>1. /\ IsArrival(done) /\ done.mail = r.mail /\ Alike(r.app, done.app)
        /\ done.app.quick = r.app.quick /\ done.app.tried = r.app.tried
    BY <1>1, <1>2
  <2>2. IsArrival(s) /\ s.app = done.app /\ s.mail = r.mail \o Welcomes(seated)
    BY <1>2, <2>1 DEF IsArrival, IsRec
  <2>3. Answers(s.mail)
    BY <2>2, LobbyAnswers, AnswerFacts DEF Carries
  <2> QED BY <2>1, <2>2, <2>3, CarriesOn
<1>3. PICK done : done = [r EXCEPT !.app.auto = FALSE]
  OBVIOUS
<1>4. PICK seated : seated = [EmptySeat(r.room) EXCEPT !.seat = "play"]
  OBVIOUS
<1>5. s \in {r, done, [done EXCEPT !.room = seated, !.mail = @ \o Welcomes(seated)]}
  BY <1>3, <1>4 DEF AutoJoin
<1>6. CASE s = r
  BY <1>6
<1>7. CASE s = done
  <2>1. /\ IsArrival(s) /\ s.mail = r.mail
        /\ Alike(r.app, s.app) /\ s.app.quick = r.app.quick /\ s.app.tried = r.app.tried
    BY <1>1, <1>3, <1>7
  <2> QED BY <2>1, CarriesOn DEF Carries
<1>8. CASE s = [done EXCEPT !.room = seated, !.mail = @ \o Welcomes(seated)]
  BY <1>2, <1>3, <1>8
<1> QED BY <1>5, <1>6, <1>7, <1>8

(* A frame of the list of lobbies: the Quick Match gives up on a server    *)
(* with the connection closed, or the lobby is shown with it open.         *)
LEMMA LobbyBrowserSound == ASSUME Ready, LobbyBrowserUpdate PROVE GoesOn
<1>0. Shaped(app) /\ app.screen = "lobby" /\ ~app.resume
  BY DEF Ready, Sound, Kept, LobbyBrowserUpdate
<1>1. PICK arrival \in Arrivals :
        LET a == arrival.app
            succeeded == [arrival EXCEPT !.app.quick = ConnectionSucceeded(@)]
            failed == a.quick.phase = "connecting" /\ ~a.net.handshake
                      /\ a.net.status \in {"error", "disconnected"}
            next == [a EXCEPT !.net = NoNet, !.auto = FALSE, !.quick = ConnectionFailed(@)]
        IN  IF failed
            THEN Becomes([arrival EXCEPT !.app = Transition(next, "browser"), !.mail = <<>>, !.room = EmptySeat(@)])
            ELSE \E listed \in ListAnswer(IF a.net.handshake THEN succeeded ELSE arrival) :
                   \E joined \in AutoJoin(listed) : Becomes(LobbyShown(joined))
  BY DEF LobbyBrowserUpdate
<1>2. Brought(arrival)
  BY <1>0, ArrivalFacts DEF Ready
<1> DEFINE a == arrival.app
           next == [a EXCEPT !.net = NoNet, !.auto = FALSE, !.quick = ConnectionFailed(@)]
           failing == [arrival EXCEPT !.app = Transition(next, "browser"), !.mail = <<>>, !.room = EmptySeat(@)]
           succeeded == [arrival EXCEPT !.app.quick = ConnectionSucceeded(@)]
<1>3. PICK net : Lasts(app.net, net) /\ a = With(app, net)
  BY <1>2 DEF Brought
<1>4. /\ Sound(a) /\ a.screen = "lobby" /\ a.quick = app.quick /\ a.tried = app.tried
  BY <1>0, <1>3, LastingIsSound, WithFacts DEF Ready, Lasts, SameSearch
<1>5. CASE Becomes(failing)
  <2> DEFINE t == Transition(next, "browser")
  <2>1. Shaped(next) /\ Quiet(next) /\ next.quick = ConnectionFailed(app.quick) /\ next.tried = app.tried
    BY <1>4, NetFacts, SearchFacts DEF Sound, Kept, Quiet, Shaped, IsApp, IsRec, AppFields
  <2> HIDE DEF next
  <2>2. Good(t)
    <3>1. Changed(app, next.quick, next.tried)
      BY <2>1 DEF Changed
    <3> QED BY <2>1, <3>1, QuietShown
  <2>3. app' = t /\ mail' = <<>>
    BY <1>2, <1>5 DEF Becomes, Brought, IsArrival, IsRec
  <2> HIDE DEF t
  <2> QED BY <2>2, <2>3, AnswerFacts DEF GoesOn, Good
<1>6. ASSUME NEW r, r = arrival \/ r = succeeded, NEW listed \in ListAnswer(r), NEW joined \in AutoJoin(listed),
             Becomes(LobbyShown(joined))
      PROVE  GoesOn
  <2> DEFINE b == r.app
  <2>1. /\ Alike(a, b) /\ b.quick \in {app.quick, ConnectionSucceeded(app.quick)} /\ b.tried = app.tried
        /\ IsArrival(r) /\ Answers(r.mail)
    <3>1. CASE r = arrival
      BY <1>2, <1>4, <3>1 DEF Brought, Alike, Sound
    <3>2. CASE r = succeeded
      <4> DEFINE m == [a EXCEPT !.quick = ConnectionSucceeded(a.quick)]
      <4>1. r = [app |-> m, mail |-> arrival.mail, room |-> arrival.room, losses |-> arrival.losses]
        BY <1>2, <1>4, <3>2 DEF Brought, IsArrival, Sound, Shaped, IsApp, IsRec, AppFields
      <4>2. Alike(a, m) /\ m.quick = ConnectionSucceeded(app.quick) /\ m.tried = app.tried
        BY <1>4, MatchFacts DEF Alike, Sound, Shaped, IsApp, IsRec, AppFields
      <4> HIDE DEF m
      <4> QED BY <1>2, <4>1, <4>2 DEF IsArrival, IsRec, Brought
    <3> QED BY <1>6, <3>1, <3>2
  <2>2. Carries(r, b)
    BY <2>1 DEF Carries, Alike
  <2>3. Carries(listed, b)
    BY <1>6, <2>2, ListAnswerFacts
  <2>4. Carries(joined, b)
    BY <1>6, <2>3, AutoJoinFacts
  <2> DEFINE j == joined.app
  <2>5. Alike(a, j) /\ Changed(app, j.quick, j.tried) /\ Answers(joined.mail) /\ IsArrival(joined)
    BY <2>1, <2>4 DEF Carries, Alike, Changed
  <2>6. Sound(j) /\ j.screen = "lobby"
    BY <1>4, <2>5, AlikeIsSound DEF Alike
  <2>7. CASE LobbyShown(joined) = joined
    <3>1. SameSearch(j, j)
      BY DEF SameSearch
    <3>2. Moved(app, j)
      BY <2>5, <3>1, Moves
    <3>3. app' = j /\ mail' = joined.mail
      BY <1>6, <2>7 DEF Becomes
    <3> QED BY <2>5, <2>6, <3>2, <3>3 DEF GoesOn
  <2>8. CASE LobbyShown(joined) = [joined EXCEPT !.app = Transition(@, "roster")]
    <3> DEFINE t == Transition(j, "roster")
    <3>1. Shaped(j) /\ ~j.resume
      BY <2>6 DEF Sound, Kept
    <3>2. Shaped(t) /\ SameSearch(j, t) /\ t.screen = "roster" /\ ~t.resume
      BY <2>6, <3>1, TransitionFacts, CleanupFacts
    <3>3. Sound(t)
      BY <3>2 DEF Sound, Kept
    <3>4. app' = t /\ mail' = joined.mail
      BY <1>6, <2>5, <2>8 DEF Becomes, IsArrival, IsRec
    <3>5. Moved(app, t)
      BY <2>5, <3>2, Moves
    <3> HIDE DEF t
    <3> QED BY <2>5, <3>3, <3>4, <3>5 DEF GoesOn
  <2> QED BY <2>7, <2>8 DEF LobbyShown
<1>7. \/ Becomes(failing)
      \/ \E r \in {arrival, succeeded} : \E listed \in ListAnswer(r) : \E joined \in AutoJoin(listed) :
           Becomes(LobbyShown(joined))
  BY <1>1
<1> HIDE DEF failing, succeeded
<1> QED BY <1>5, <1>6, <1>7

(* The client after Watched is as it was, but for the world it shows.      *)
LEMMA WatchedFacts ==
  ASSUME NEW a, Shaped(a)
  PROVE  LET w == Watched(a)
         IN /\ Alike(a, w) /\ w.quick = a.quick /\ w.tried = a.tried /\ w.selected = a.selected
<1> QED BY DEF Watched, Alike, Shaped, IsApp, IsRec, AppFields

(* A pump of the network while a match or its results are shown.           *)
LEMMA PumpFacts ==
  ASSUME Ready, NEW arrival \in Arrivals
  PROVE  LET w == Watched(arrival.app)
         IN /\ IsArrival(arrival) /\ Answers(arrival.mail)
            /\ Sound(w) /\ w.screen = app.screen /\ w.quick = app.quick /\ w.tried = app.tried
            /\ w.pending = app.pending /\ w.active = app.active
<1>0. Shaped(app)
  BY DEF Ready, Sound
<1>1. Brought(arrival)
  BY <1>0, ArrivalFacts DEF Ready
<1> DEFINE a == arrival.app
           w == Watched(a)
<1>2. PICK net : Lasts(app.net, net) /\ a = With(app, net)
  BY <1>1 DEF Brought
<1>3. /\ Sound(a) /\ a.screen = app.screen /\ a.quick = app.quick /\ a.tried = app.tried
      /\ a.pending = app.pending /\ a.active = app.active
  BY <1>0, <1>2, LastingIsSound, WithFacts DEF Ready, Lasts, SameSearch
<1> HIDE DEF a
<1>4. Alike(a, w) /\ w.quick = a.quick /\ w.tried = a.tried
  BY <1>3, WatchedFacts DEF Sound
<1> HIDE DEF w
<1>5. Sound(w)
  BY <1>3, <1>4, AlikeIsSound
<1> QED BY <1>1, <1>3, <1>4, <1>5 DEF Brought, Alike, a, w

(* A frame of a match: the results of a round keep the connection of a     *)
(* player that was welcome.                                                *)
LEMMA GameplaySound == ASSUME Ready, GameplayUpdate PROVE GoesOn
<1>1. PICK arrival \in Arrivals :
        LET a == Watched(arrival.app)
        IN  Becomes([arrival EXCEPT !.app =
              IF a.net.welcome /\ a.world = "results"
              THEN Transition([a EXCEPT !.show = TRUE, !.pending = TRUE], "results") ELSE a])
  BY DEF GameplayUpdate
<1> DEFINE a == Watched(arrival.app)
           x == [a EXCEPT !.show = TRUE, !.pending = TRUE]
           t == Transition(x, "results")
           b == IF a.net.welcome /\ a.world = "results" THEN t ELSE a
<1>2. /\ IsArrival(arrival) /\ Answers(arrival.mail)
      /\ Sound(a) /\ a.screen = "game" /\ a.quick = app.quick /\ a.tried = app.tried /\ Online(a)
  BY <1>1, PumpFacts DEF GameplayUpdate, Online
<1>3. app' = b /\ mail' = arrival.mail
  BY <1>1, <1>2 DEF Becomes, IsArrival, IsRec
<1> HIDE DEF a
<1>4. CASE ~(a.net.welcome /\ a.world = "results")
  <2>1. SameSearch(app, a)
    BY <1>2 DEF SameSearch
  <2> QED BY <1>2, <1>3, <1>4, <2>1, SameIsGood DEF Good, GoesOn
<1>5. CASE a.net.welcome /\ a.world = "results"
  <2>1. /\ Shaped(x) /\ x.screen = "game" /\ x.quick = app.quick /\ x.tried = app.tried /\ x.net = a.net
        /\ ~x.resume /\ x.active = a.active /\ x.show /\ x.pending
    BY <1>2 DEF Sound, Kept, Shaped, IsApp, IsRec, AppFields
  <2> HIDE DEF x
  <2>2. /\ Shaped(t) /\ SameSearch(x, t) /\ t.screen = "results" /\ t.net = x.net /\ ~t.resume
        /\ t.active = x.active
    BY <2>1, TransitionFacts, CleanupFacts
  <2> HIDE DEF t
  <2>3. Sound(t)
    BY <1>2, <1>5, <2>1, <2>2 DEF Sound, Kept, Online
  <2>4. SameSearch(app, t)
    BY <2>1, <2>2 DEF SameSearch
  <2> QED BY <1>2, <1>3, <1>5, <2>3, <2>4, SameIsGood DEF Good, GoesOn
<1> QED BY <1>4, <1>5

(* Out of a match the connection stays, until the results are left.        *)
LEMMA ReturnSound == ASSUME Ready, ReturnToMenu PROVE GoesOn
<1> DEFINE x == [app EXCEPT !.show = TRUE]
           t == Transition(x, "results")
<1>0. Sound(app) /\ app.screen = "game" /\ Shown(t)
  BY DEF Ready, ReturnToMenu
<1>1. /\ Shaped(x) /\ x.screen = "game" /\ x.quick = app.quick /\ x.tried = app.tried /\ x.net = app.net
      /\ ~x.resume /\ x.active = app.active /\ x.show /\ ~x.pending
  BY <1>0 DEF Sound, Kept, Shaped, IsApp, IsRec, AppFields
<1> HIDE DEF x
<1>2. /\ Shaped(t) /\ SameSearch(x, t) /\ t.screen = "results" /\ t.net = x.net /\ ~t.resume
      /\ t.active = x.active /\ ~t.pending
  BY <1>1, TransitionFacts, CleanupFacts
<1> HIDE DEF t
<1>3. Sound(t)
  BY <1>0, <1>1, <1>2 DEF Sound, Kept, Online
<1>4. SameSearch(app, t)
  BY <1>1, <1>2 DEF SameSearch
<1>5. Good(t)
  BY <1>3, <1>4, SameIsGood
<1> QED BY <1>0, <1>5, ShownFacts DEF Ready, GoesOn

(* Practice starts again without a connection.                             *)
LEMMA RestartSound == ASSUME Ready, RestartPractice PROVE GoesOn
<1> DEFINE g == GameInit(app)
<1>0. Sound(app) /\ app.screen = "game" /\ ~Online(app) /\ Shown(GameInit(GameShutdown(app)))
  BY DEF Ready, RestartPractice
<1>1. GameShutdown(app) = app /\ ~app.net.live
  BY <1>0 DEF GameShutdown, Sound, Kept
<1>2. /\ Shaped(g) /\ SameSearch(app, g) /\ g.screen = "game" /\ ~g.pending /\ ~g.resume /\ ~g.net.live
  BY <1>0, <1>1, GameInitFacts DEF Sound
<1>3. Shown(g)
  BY <1>0, <1>1
<1> HIDE DEF g
<1>4. Good(g)
  <2>1. Sound(g)
    BY <1>2 DEF Sound, Kept
  <2> QED BY <1>2, <2>1, SameIsGood
<1> QED BY <1>3, <1>4, ShownFacts DEF Ready, GoesOn

(* A decision followed: with the votes of the lobby, and only with them.   *)
LEMMA FollowedSound ==
  ASSUME NEW a, Sound(a), a.screen = "results", a.pending, Online(a) PROVE Sound(Followed(a)) /\ SameSearch(a, Followed(a))
<1>0. Shaped(a) /\ IsNet(a.net) /\ ~a.resume
  BY DEF Sound, Shaped, Kept
<1> DEFINE route == Route(a.net, a.world)
<1>1. CASE route \in {"lobby", "spectate"}
  <2> DEFINE watching == route = "spectate"
             net == ConsumeVotes([a.net EXCEPT !.watching = watching])
             x == [a EXCEPT !.net = net, !.show = FALSE, !.pending = FALSE, !.resume = TRUE]
             t == Transition(x, "lobby")
  <2>1. Followed(a) = Transition([Consumed([a EXCEPT !.net.watching = watching])
                                    EXCEPT !.pending = FALSE, !.resume = TRUE], "lobby")
    BY <1>1 DEF Followed
  <2> HIDE DEF watching
  <2>2. IsNet(net)
    <3>1. IsNet([a.net EXCEPT !.watching = watching])
      BY <1>0 DEF IsNet, IsRec, NetFields
    <3> QED BY <3>1, HandlersLast DEF Lasts
  <2>3. PICK y : y = [Consumed([a EXCEPT !.net.watching = watching]) EXCEPT !.pending = FALSE, !.resume = TRUE]
    OBVIOUS
  <2>4. PICK u : u = [a EXCEPT !.net.watching = watching]
    OBVIOUS
  <2>5. Shaped(u) /\ u.screen = "results" /\ u.quick = a.quick /\ u.tried = a.tried
    <3>1. IsApp(u) /\ u.net = [a.net EXCEPT !.watching = watching] /\ u.screen = "results" /\ u.quick = a.quick
          /\ u.tried = a.tried
      BY <1>0, <2>4 DEF Shaped, IsApp, IsRec, AppFields
    <3>2. IsNet(u.net)
      BY <1>0, <3>1 DEF IsNet, IsRec, NetFields
    <3> QED BY <1>0, <3>1, <3>2 DEF Shaped
  <2>6. PICK v : v = Consumed(u)
    OBVIOUS
  <2>7. Shaped(v) /\ v.screen = "results" /\ v.quick = a.quick /\ v.tried = a.tried
    <3>1. IsNet(ConsumeVotes(u.net))
      BY <2>5, HandlersLast DEF Shaped, Lasts
    <3> QED BY <2>5, <2>6, <3>1 DEF Consumed, Shaped, IsApp, IsRec, AppFields
  <2>8. /\ Shaped(y) /\ y.screen = "results" /\ ~y.pending /\ y.resume /\ y.quick = a.quick
        /\ y.tried = a.tried
    <3>1. y = [v EXCEPT !.pending = FALSE, !.resume = TRUE]
      BY <2>3, <2>4, <2>6
    <3> QED BY <2>7, <3>1 DEF Shaped, IsApp, IsRec, AppFields
  <2> DEFINE z == Transition(y, "lobby")
  <2>9. Shaped(z) /\ SameSearch(y, z) /\ z.screen = "lobby" /\ ~z.resume
    BY <2>8, TransitionFacts, CleanupFacts
  <2>10. Followed(a) = z
    BY <2>1, <2>3
  <2> HIDE DEF z
  <2> QED BY <2>8, <2>9, <2>10 DEF Sound, Kept, SameSearch
<1>2. CASE route = "game"
  <2>1. PICK v : v = Consumed(a)
    OBVIOUS
  <2>2. PICK y : y = [v EXCEPT !.pending = TRUE]
    OBVIOUS
  <2>3. Lasts(a.net, ConsumeVotes(a.net))
    BY <1>0, HandlersLast
  <2>4. /\ Shaped(v) /\ v.screen = "results" /\ v.quick = a.quick /\ v.tried = a.tried /\ ~v.resume
        /\ v.net = ConsumeVotes(a.net) /\ v.active = a.active
    BY <1>0, <2>1, <2>3 DEF Consumed, Lasts, Shaped, IsApp, IsRec, AppFields
  <2>5. /\ Shaped(y) /\ y.screen = "results" /\ y.quick = a.quick /\ y.tried = a.tried /\ ~y.resume
        /\ y.net = v.net /\ y.active = a.active /\ y.pending
    BY <2>2, <2>4 DEF Shaped, IsApp, IsRec, AppFields
  <2> DEFINE t == Transition(y, "game")
  <2>6. Followed(a) = t
    BY <1>2, <2>1, <2>2 DEF Followed
  <2>7. Cleanup(y) = y
    BY <2>5, CleanupFacts
  <2>8. /\ Shaped(t) /\ SameSearch(y, t)
        /\ \/ /\ t.screen = "results" /\ t.net = y.net /\ t.resume = y.resume /\ t.pending = y.pending
              /\ t.active = y.active
           \/ t.screen = "game" /\ ~t.pending /\ t.net = y.net /\ t.resume = y.resume /\ t.active = y.active
    BY <2>5, <2>7, PendingMatch
  <2> HIDE DEF t
  <2>9. Online(t) /\ (t.net.live => a.net.welcome /\ t.net.welcome) /\ ~t.resume
    BY <2>3, <2>4, <2>5, <2>8 DEF Lasts, Sound, Kept, Online
  <2> QED BY <2>5, <2>6, <2>8, <2>9 DEF Sound, Kept, SameSearch
<1>3. CASE route \notin {"lobby", "spectate", "game"}
  <2>1. Followed(a) = a
    BY <1>3 DEF Followed
  <2> QED BY <2>1 DEF SameSearch
<1> QED BY <1>1, <1>2, <1>3

(* A frame of the results.                                                 *)
LEMMA ResultsSound == ASSUME Ready, ResultsUpdate PROVE GoesOn
<1>1. PICK arrival \in Arrivals : Becomes([arrival EXCEPT !.app = Followed(Watched(@))])
  BY DEF ResultsUpdate
<1> DEFINE w == Watched(arrival.app)
           f == Followed(w)
<1>2. /\ IsArrival(arrival) /\ Answers(arrival.mail)
      /\ Sound(w) /\ w.screen = "results" /\ w.quick = app.quick /\ w.tried = app.tried
      /\ w.pending /\ Online(w)
  BY PumpFacts DEF ResultsUpdate, Authoritative, Online
<1>3. app' = f /\ mail' = arrival.mail
  BY <1>1, <1>2 DEF Becomes, IsArrival, IsRec
<1> HIDE DEF w
<1>4. Sound(f) /\ SameSearch(w, f)
  BY <1>2, FollowedSound
<1> HIDE DEF f
<1>5. SameSearch(app, f)
  BY <1>2, <1>4 DEF SameSearch
<1> QED BY <1>2, <1>3, <1>4, <1>5, SameIsGood DEF Good, GoesOn

(* Playing again: with the connection kept, if the lobby may be resumed;   *)
(* in practice; or with a new one.                                         *)
LEMMA PlayAgainSound == ASSUME Ready, PlayAgain PROVE GoesOn
<1> DEFINE a == [app EXCEPT !.show = FALSE]
           lobby == Transition(a, "lobby")
           opened == Connect(a.server \in Servers)
           joined == [lobby EXCEPT !.net = opened, !.auto = TRUE]
           resumed == [a EXCEPT !.resume = TRUE]
<1>0. Sound(app) /\ app.screen = "results" /\ ~Authoritative(app) /\ Answers(mail)
  BY DEF Ready, PlayAgain
<1>1. /\ Alike(app, a) /\ a.quick = app.quick /\ a.tried = app.tried
  BY <1>0 DEF Alike, Sound, Shaped, IsApp, IsRec, AppFields
<1>2. \/ a.active = "lobby" /\ CanResume(a.net) /\ Shown(Transition(resumed, "game"))
      \/ a.active = "offline" /\ Shown(Transition(a, "game"))
      \/ Shown(joined)
  BY DEF PlayAgain
<1> HIDE DEF a
<1>3. Sound(a) /\ a.screen = "results" /\ Shaped(a)
  BY <1>0, <1>1, AlikeIsSound DEF Alike, Sound
<1>4. CASE a.active = "lobby" /\ CanResume(a.net) /\ Shown(Transition(resumed, "game"))
  <2>1. ~a.pending /\ a.net.live
    BY <1>0, <1>1, <1>4 DEF Authoritative, Alike, Sound, Kept, CanResume, Online
  <2>2. /\ Shaped(resumed) /\ resumed.screen = "results" /\ ~resumed.pending /\ resumed.resume
        /\ resumed.net = a.net /\ resumed.active = "lobby" /\ resumed.quick = a.quick /\ resumed.tried = a.tried
    BY <1>3, <1>4, <2>1 DEF Shaped, IsApp, IsRec, AppFields
  <2> HIDE DEF resumed
  <2> DEFINE t == Transition(resumed, "game")
  <2>3. ~Cleanup(resumed).resume /\ Cleanup(resumed).net = a.net
    BY <2>2, CleanupFacts
  <2>4. /\ Shaped(t) /\ SameSearch(resumed, t) /\ ~t.resume /\ ~t.pending
        /\ \/ t.screen = "results" /\ t.active = "lobby"
           \/ /\ t.screen = "game" /\ t.active = resumed.selected
              /\ resumed.selected # "lobby" => ~t.net.live
    BY <2>2, <2>3, TransitionFacts
  <2>5. Shown(t)
    BY <1>4
  <2> HIDE DEF t
  <2>6. Sound(t)
    BY <2>4 DEF Sound, Kept, Online
  <2>7. SameSearch(app, t)
    BY <1>1, <2>2, <2>4 DEF SameSearch
  <2> QED BY <1>0, <2>5, <2>6, <2>7, SameIsGood, ShownFacts DEF GoesOn
<1>5. CASE a.active = "offline" /\ Shown(Transition(a, "game"))
  <2>1. Quiet(a)
    BY <1>3, <1>5 DEF Sound, Kept, Quiet, Online
  <2>2. Good(Transition(a, "game"))
    <3>1. Changed(app, a.quick, a.tried)
      BY <1>1 DEF Changed
    <3> QED BY <1>3, <2>1, <3>1, QuietShown
  <2> QED BY <1>0, <1>5, <2>2, ShownFacts DEF GoesOn
<1>6. CASE Shown(joined)
  <2>1. Shaped(lobby) /\ SameSearch(a, lobby) /\ lobby.screen = "lobby" /\ ~lobby.resume
    BY <1>3, TransitionFacts, CleanupFacts DEF Sound, Kept
  <2> HIDE DEF lobby
  <2>2. IsNet(opened)
    BY NetFacts
  <2> HIDE DEF opened
  <2>3. Shaped(joined) /\ SameSearch(a, joined) /\ joined.screen = "lobby" /\ ~joined.resume
    BY <2>1, <2>2 DEF SameSearch, Shaped, IsApp, IsRec, AppFields
  <2> HIDE DEF joined
  <2>4. Sound(joined)
    BY <2>3 DEF Sound, Kept
  <2>5. SameSearch(app, joined)
    BY <1>1, <2>3 DEF SameSearch
  <2>6. Good(joined)
    BY <2>4, <2>5, SameIsGood
  <2> QED BY <1>0, <1>6, <2>6, ShownFacts DEF GoesOn, joined
<1> QED BY <1>2, <1>4, <1>5, <1>6

(* Leaving the results closes the connection, by hand or by the screen's   *)
(* cleanup (results.c:240, screen.c:27).                                   *)
LEMMA LeaveResultsSound == ASSUME Ready, LeaveResults PROVE GoesOn
<1> DEFINE a == [app EXCEPT !.show = FALSE]
           b == [a EXCEPT !.pending = FALSE]
           x == IF Authoritative(a) THEN GameShutdown(b) ELSE a
           t == Transition(x, "menu")
<1>0. Sound(app) /\ app.screen = "results" /\ Answers(mail) /\ Shown(t)
  BY DEF Ready, LeaveResults
<1>1. /\ Shaped(a) /\ Kept(a) /\ a.screen = "results" /\ a.quick = app.quick /\ a.tried = app.tried
  BY <1>0 DEF Sound, Kept, Online, Shaped, IsApp, IsRec, AppFields
<1> HIDE DEF a
<1>2. CASE Authoritative(a)
  <2>1. x = [b EXCEPT !.net = NoNet]
    BY <1>1, <1>2 DEF GameShutdown, Authoritative, Online, Shaped, IsApp, IsRec, AppFields
  <2>2. Shaped(x) /\ Quiet(x) /\ x.quick = app.quick /\ x.tried = app.tried
    BY <1>1, <2>1, NetFacts DEF Kept, Quiet, Shaped, IsApp, IsRec, AppFields
  <2> HIDE DEF x
  <2>3. Changed(app, x.quick, x.tried)
    BY <2>2 DEF Changed
  <2>4. Good(t)
    BY <2>2, <2>3, QuietShown
  <2> QED BY <1>0, <2>4, ShownFacts DEF GoesOn
<1>3. CASE ~Authoritative(a)
  <2>1. x = a
    BY <1>3
  <2>2. /\ Shaped(t) /\ SameSearch(a, t) /\ t.screen = "menu" /\ ~t.resume /\ t.net = Cleanup(a).net
    BY <1>1, <2>1, TransitionFacts, CleanupFacts DEF Kept
  <2>3. ~t.net.live
    <3>1. CASE a.pending
      <4>1. ~a.net.live
        BY <1>1, <1>3, <3>1 DEF Kept, Authoritative, Online
      <4> QED BY <1>1, <2>2, <4>1, CleanupFacts, NetFacts
    <3>2. CASE ~a.pending
      <4>1. CASE Online(a)
        BY <1>1, <2>2, <3>2, <4>1, CleanupFacts, NetFacts DEF Kept
      <4>2. CASE ~Online(a)
        BY <1>1, <2>2, <3>2, <4>2, CleanupFacts, NetFacts DEF Kept
      <4> QED BY <4>1, <4>2
    <3> QED BY <3>1, <3>2
  <2> HIDE DEF t
  <2>4. Sound(t)
    BY <2>2, <2>3 DEF Sound, Kept
  <2>5. SameSearch(app, t)
    BY <1>1, <2>2 DEF SameSearch
  <2>6. Good(t)
    BY <2>4, <2>5, SameIsGood
  <2> QED BY <1>0, <2>6, ShownFacts DEF GoesOn
<1> QED BY <1>2, <1>3

(* A connection is opened on the way to the list of lobbies.               *)
LEMMA JoinFacts ==
  ASSUME NEW a, Sound(a), SameSearch(app, a), a.quick = app.quick, a.screen = "browser", NEW server
  PROVE  Good(JoinServer(a, server))
<1> DEFINE opened == Connect(server \in Servers)
           x == [a EXCEPT !.server = server, !.net = opened]
           t == Transition(x, "lobby")
<1>0. IsNet(opened) /\ Shaped(a) /\ ~a.resume
  BY NetFacts DEF Sound, Kept
<1>1. JoinServer(a, server) = t
  BY DEF JoinServer
<1> HIDE DEF opened
<1>2. Shaped(x) /\ x.screen = "browser" /\ ~x.resume /\ x.quick = a.quick /\ x.tried = a.tried
  BY <1>0 DEF Shaped, IsApp, IsRec, AppFields
<1> HIDE DEF x
<1>3. Shaped(t) /\ SameSearch(x, t) /\ t.screen = "lobby" /\ ~t.resume
  BY <1>2, TransitionFacts, CleanupFacts
<1> HIDE DEF t
<1>4. Sound(t)
  BY <1>3 DEF Sound, Kept
<1>5. SameSearch(app, t)
  BY <1>2, <1>3 DEF SameSearch
<1> QED BY <1>1, <1>4, <1>5, SameIsGood

(* A client is of its own search.                                          *)
LEMMA AppIsSame == SameSearch(app, app)
  BY DEF SameSearch

(* The clicks in the menus, where no connection is open.                   *)
LEMMA MenuSound ==
  ASSUME Ready, \/ PlayOnline \/ PlayOffline \/ (\E to \in {"browser", "modes", "aside"} : OpenMenu(to)) \/ LeaveMenu
  PROVE  GoesOn
<1>0. Shaped(app) /\ Sound(app) /\ IsMatch(BeginMatch) /\ IsNet(NoNet) /\ ~NoNet.live
  BY MatchFacts, NetFacts DEF Ready, Sound
<1>1. app.screen \in {"menu", "modes", "aside"}
  BY DEF PlayOnline, PlayOffline, OpenMenu, LeaveMenu
<1>2. Quiet(app)
  BY <1>0, <1>1, MenusAreQuiet DEF Sound
<1>3. /\ Good(GoBack(app)) /\ \A to : Good(Transition(app, to))
  BY <1>0, <1>2, QuietShown, Unchanged
<1>4. CASE PlayOnline
  <2> DEFINE x == [app EXCEPT !.net = NoNet, !.auto = FALSE, !.quick = BeginMatch, !.tried = <<>>]
  <2>1. Shaped(x) /\ Quiet(x) /\ x.quick = BeginMatch /\ x.tried = <<>>
    BY <1>0, <1>2 DEF Quiet, Shaped, IsApp, IsRec, AppFields
  <2>2. Shown(Transition(x, "browser"))
    BY <1>4 DEF PlayOnline
  <2> HIDE DEF x
  <2>3. Changed(app, x.quick, x.tried)
    BY <2>1 DEF Changed
  <2>4. Good(Transition(x, "browser"))
    BY <2>1, <2>3, QuietShown
  <2> QED BY <2>2, <2>4, ShownFacts DEF GoesOn, Ready
<1>5. CASE PlayOffline
  <2> DEFINE x == [app EXCEPT !.selected = "offline"]
  <2>1. Shaped(x) /\ Quiet(x) /\ x.quick = app.quick /\ x.tried = app.tried
    BY <1>0, <1>2 DEF Quiet, Shaped, IsApp, IsRec, AppFields
  <2>2. Shown(Transition(x, "game"))
    BY <1>5 DEF PlayOffline
  <2> HIDE DEF x
  <2>3. Changed(app, x.quick, x.tried)
    BY <2>1 DEF Changed
  <2>4. Good(Transition(x, "game"))
    BY <2>1, <2>3, QuietShown
  <2> QED BY <2>2, <2>4, ShownFacts DEF GoesOn, Ready
<1>6. CASE \E to \in {"browser", "modes", "aside"} : OpenMenu(to)
  BY <1>3, <1>6, ShownFacts DEF OpenMenu, GoesOn, Ready
<1>7. CASE LeaveMenu
  BY <1>3, <1>7, ShownFacts DEF LeaveMenu, GoesOn, Ready
<1> QED BY <1>4, <1>5, <1>6, <1>7

(* The clicks in the server browser.                                       *)
LEMMA BrowserSound ==
  ASSUME Ready, StopQuickMatch \/ RetryQuickMatch \/ BrowseInstead \/ JoinHost \/ JoinSelected \/ Refresh \/ LeaveBrowser
  PROVE  GoesOn
<1>0. Shaped(app) /\ Sound(app) /\ IsMatch(BeginMatch) /\ IsMatch(IdleMatch) /\ IsMatch(CancelMatch(app.quick))
  BY MatchFacts DEF Ready, Sound, Shaped
<1>1. app.screen = "browser"
  BY DEF StopQuickMatch, RetryQuickMatch, BrowseInstead, JoinHost, JoinSelected, Refresh, LeaveBrowser
<1>2. Quiet(app)
  BY <1>0, <1>1, MenusAreQuiet DEF Sound
<1>3. CASE StopQuickMatch
  <2> DEFINE x == [app EXCEPT !.quick = CancelMatch(app.quick)]
  <2>1. Shaped(x) /\ Quiet(x) /\ x.quick = CancelMatch(app.quick) /\ x.tried = app.tried
    BY <1>0, <1>2 DEF Quiet, Shaped, IsApp, IsRec, AppFields
  <2>2. Shown(Transition(x, "menu"))
    <3>1. AbandonedMatch = x
      BY <1>0 DEF AbandonedMatch, Shaped, IsApp, IsRec, AppFields
    <3> QED BY <1>3, <3>1 DEF StopQuickMatch
  <2> HIDE DEF x
  <2>3. Changed(app, x.quick, x.tried)
    BY <2>1 DEF Changed
  <2>4. Good(Transition(x, "menu"))
    BY <2>1, <2>3, QuietShown
  <2> QED BY <2>2, <2>4, ShownFacts DEF GoesOn, Ready
<1>4. CASE RetryQuickMatch
  <2> DEFINE x == [app EXCEPT !.quick = BeginMatch, !.tried = <<>>]
             r == BeginDiscoveryRefresh(x)
  <2>1. Shaped(x) /\ Quiet(x) /\ x.quick = BeginMatch /\ x.tried = <<>>
    BY <1>0, <1>2 DEF Quiet, Shaped, IsApp, IsRec, AppFields
  <2>2. Shown(r)
    BY <1>4 DEF RetryQuickMatch
  <2> HIDE DEF x
  <2>3. Shaped(r) /\ SameSearch(x, r) /\ r.screen = x.screen /\ r.net = x.net /\ r.resume = x.resume
        /\ r.pending = x.pending
    BY <2>1, RefreshFacts
  <2> HIDE DEF r
  <2>4. Sound(r)
    BY <2>1, <2>3, QuietIsKept DEF Quiet, Sound
  <2>5. Changed(app, x.quick, x.tried)
    BY <2>1 DEF Changed
  <2>6. Good(r)
    BY <2>3, <2>4, <2>5, Moves DEF Good
  <2> QED BY <2>2, <2>6, ShownFacts DEF GoesOn, Ready
<1>5. CASE BrowseInstead
  <2> DEFINE x == [app EXCEPT !.quick = IdleMatch]
  <2>1. Shaped(x) /\ Quiet(x) /\ x.quick = IdleMatch /\ x.tried = app.tried
    BY <1>0, <1>2 DEF Quiet, Shaped, IsApp, IsRec, AppFields
  <2>2. Shown(x)
    BY <1>5 DEF BrowseInstead
  <2> HIDE DEF x
  <2>3. Changed(app, x.quick, x.tried)
    BY <2>1 DEF Changed
  <2>4. Good(x)
    BY <2>1, <2>3, QuietShown
  <2> QED BY <2>2, <2>4, ShownFacts DEF GoesOn, Ready
<1>6. CASE JoinHost \/ JoinSelected
  <2>1. \A server : Good(JoinServer(app, server))
    BY <1>0, <1>1, AppIsSame, JoinFacts
  <2> QED BY <1>6, <2>1, ShownFacts DEF JoinHost, JoinSelected, GoesOn, Ready
<1>7. CASE Refresh
  <2> DEFINE x == [app EXCEPT !.listing.state = "cancelled"]
             r == BeginDiscoveryRefresh(app)
  <2>1. Shown(x) \/ Shown(r)
    BY <1>7 DEF Refresh
  <2>2. Alike(app, x) /\ SameSearch(app, x)
    BY <1>0 DEF Alike, SameSearch, Shaped, IsApp, IsRec, AppFields
  <2>3. Alike(app, r) /\ SameSearch(app, r)
    BY <1>0, RefreshFacts DEF Alike
  <2> HIDE DEF x, r
  <2>4. Good(x) /\ Good(r)
    BY <1>0, <2>2, <2>3, AlikeIsSound, SameIsGood
  <2> QED BY <2>1, <2>4, ShownFacts DEF GoesOn, Ready
<1>8. CASE LeaveBrowser
  <2>1. Good(GoBack(app))
    BY <1>0, <1>2, QuietShown, Unchanged
  <2> QED BY <1>8, <2>1, ShownFacts DEF LeaveBrowser, GoesOn, Ready
<1> QED BY <1>3, <1>4, <1>5, <1>6, <1>7, <1>8

(* The clicks in the list of lobbies and in the roster.                    *)
LEMMA LobbySound ==
  ASSUME Ready, \/ RetryConnection \/ (\E watching \in BOOLEAN : JoinLobby(watching)) \/ LeaveLobbyList
                \/ (\E ready \in BOOLEAN : GetReady(ready)) \/ LeaveRoster
  PROVE  GoesOn
<1>0. Shaped(app) /\ Sound(app) /\ Answers(mail) /\ ~app.resume /\ app.screen \in {"lobby", "roster"}
      /\ IsNet(NoNet) /\ ~NoNet.live /\ IsMatch(CancelMatch(app.quick))
  BY MatchFacts, NetFacts
  DEF Ready, Sound, Shaped, Kept, RetryConnection, JoinLobby, LeaveLobbyList, GetReady, LeaveRoster
<1>1. CASE RetryConnection
  <2> DEFINE opened == Connect(app.server \in Servers)
             x == [app EXCEPT !.net = opened]
  <2>1. IsNet(opened)
    BY NetFacts
  <2>2. Shown(x) /\ app.screen = "lobby"
    BY <1>1 DEF RetryConnection
  <2> HIDE DEF opened
  <2>3. Shaped(x) /\ SameSearch(app, x) /\ x.screen = "lobby" /\ ~x.resume
    BY <1>0, <2>1, <2>2 DEF SameSearch, Shaped, IsApp, IsRec, AppFields
  <2> HIDE DEF x
  <2>4. Good(x)
    <3>1. Sound(x)
      BY <2>3 DEF Sound, Kept
    <3> QED BY <2>3, <3>1, SameIsGood
  <2> QED BY <1>0, <2>2, <2>4, ShownFacts DEF GoesOn
<1>2. ASSUME NEW watching \in BOOLEAN, JoinLobby(watching) PROVE GoesOn
  <2>1. app' = app /\ (mail' = mail \/ mail' = mail \o Welcomes(room'))
    BY <1>2 DEF JoinLobby, AnswersJoin
  <2>2. Answers(mail')
    BY <1>0, <2>1, LobbyAnswers, AnswerFacts
  <2> QED BY <1>0, <2>1, <2>2, AppIsSame, MovesOn DEF GoesOn
<1>3. ASSUME NEW a, a \in {app, [app EXCEPT !.auto = FALSE], [app EXCEPT !.auto = FALSE, !.quick = CancelMatch(app.quick)]},
             NEW to, Shown(Transition([a EXCEPT !.net = NoNet], to))
      PROVE  GoesOn
  <2> DEFINE x == [a EXCEPT !.net = NoNet]
  <2>1. Shaped(a) /\ a.tried = app.tried /\ a.quick \in {app.quick, CancelMatch(app.quick)} /\ ~a.resume
        /\ a.screen = app.screen
    <3>1. CASE a = app
      BY <1>0, <3>1
    <3>2. CASE a = [app EXCEPT !.auto = FALSE]
      BY <1>0, <3>2 DEF Shaped, IsApp, IsRec, AppFields
    <3>3. CASE a = [app EXCEPT !.auto = FALSE, !.quick = CancelMatch(app.quick)]
      BY <1>0, <3>3 DEF Shaped, IsApp, IsRec, AppFields
    <3> QED BY <1>3, <3>1, <3>2, <3>3
  <2>2. Shaped(x) /\ x.tried = a.tried /\ x.quick = a.quick /\ ~x.resume /\ ~x.net.live /\ x.screen = app.screen
    BY <1>0, <2>1 DEF Shaped, IsApp, IsRec, AppFields
  <2> HIDE DEF x
  <2>3. Changed(app, x.quick, x.tried)
    BY <2>1, <2>2 DEF Changed
  <2>4. Quiet(x)
    BY <1>0, <2>2 DEF Quiet
  <2>5. Good(Transition(x, to))
    BY <2>2, <2>3, <2>4, QuietShown
  <2> QED BY <1>0, <1>3, <2>5, ShownFacts DEF GoesOn, x
<1>4. CASE LeaveLobbyList
  <2> DEFINE a == [app EXCEPT !.net = NoNet, !.auto = FALSE]
             b == [a EXCEPT !.quick = CancelMatch(@)]
  <2>1. \/ Shown(Transition([app EXCEPT !.net = NoNet], "browser"))
        \/ Shown(Transition(b, "menu"))
        \/ Shown(Transition(a, "browser"))
    BY <1>4 DEF LeaveLobbyList
  <2>2. a = [[app EXCEPT !.auto = FALSE] EXCEPT !.net = NoNet]
    BY <1>0 DEF Shaped, IsApp, IsRec, AppFields
  <2>3. b = [[app EXCEPT !.auto = FALSE, !.quick = CancelMatch(app.quick)] EXCEPT !.net = NoNet]
    BY <1>0 DEF Shaped, IsApp, IsRec, AppFields
  <2> HIDE DEF a, b
  <2> QED BY <1>3, <2>1, <2>2, <2>3
<1>5. ASSUME NEW ready \in BOOLEAN, GetReady(ready) PROVE GoesOn
  <2>1. app' = app /\ mail' = Posted(<<Roster(room')>>)
    BY <1>5 DEF GetReady, AnswersReady
  <2>2. Answers(mail')
    BY <1>0, <2>1, LobbyAnswers, PostedAnswers
  <2> QED BY <1>0, <2>1, <2>2, AppIsSame, MovesOn DEF GoesOn
<1>6. CASE LeaveRoster
  BY <1>3, <1>6 DEF LeaveRoster
<1> QED BY <1>1, <1>2, <1>4, <1>5, <1>6

(* The match of a lobby starts on its connection (EnterLobbyMatch).        *)
LEMMA EntrySound == ASSUME Ready, EnterLobbyMatch PROVE GoesOn
<1> DEFINE net == EnterMatch(app.net)
           x == [app EXCEPT !.net = net, !.selected = "lobby", !.active = "lobby"]
           t == Transition(x, "game")
<1>0. Shaped(app) /\ ~app.resume /\ app.screen = "roster" /\ Answers(mail) /\ Lasts(app.net, net)
  BY HandlersLast DEF Ready, Sound, Kept, Shaped, EnterLobbyMatch
<1>1. app' = t
  <2>1. [app EXCEPT !.net = EnterMatch(@), !.selected = "lobby", !.active = "lobby"] = x
    BY <1>0 DEF Shaped, IsApp, IsRec, AppFields
  <2> QED BY <2>1 DEF EnterLobbyMatch
<1> HIDE DEF net
<1>2. /\ Shaped(x) /\ x.screen = "roster" /\ ~x.resume /\ x.active = "lobby" /\ x.selected = "lobby"
      /\ x.quick = app.quick /\ x.tried = app.tried
  BY <1>0 DEF Lasts, Shaped, IsApp, IsRec, AppFields
<1> HIDE DEF x
<1>3. ~Cleanup(x).resume
  BY <1>2, CleanupFacts
<1>4. /\ Shaped(t) /\ SameSearch(x, t) /\ ~t.resume
      /\ t.screen = "roster" \/ (t.screen = "game" /\ ~t.pending /\ t.active = "lobby")
  <2> DEFINE c == Cleanup(x)
  <2>1. /\ Shaped(t) /\ SameSearch(x, t)
        /\ \/ t.screen = x.screen /\ t.resume = c.resume
           \/ /\ t.screen = "game" /\ ~t.pending
              /\ x.pending => t.resume = c.resume /\ t.active = x.active
              /\ ~x.pending => ~t.resume /\ t.active = x.selected
    BY <1>2, TransitionFacts
  <2> HIDE DEF t
  <2> QED BY <1>2, <1>3, <2>1
<1> HIDE DEF t
<1>5. Sound(t)
  BY <1>4 DEF Sound, Kept, Online
<1>6. SameSearch(app, t)
  BY <1>2, <1>4 DEF SameSearch
<1>7. Answers(mail')
  <2>1. mail' = mail \/ mail' = Posted(<<Roster(room)>>)
    BY DEF EnterLobbyMatch, AnswersEntry
  <2> QED BY <1>0, <2>1, LobbyAnswers, PostedAnswers
<1> QED BY <1>1, <1>5, <1>6, <1>7, SameIsGood DEF Good, GoesOn

(* The lobby's rounds only send.                                           *)
LEMMA RoundSound == ASSUME Ready, RoundEnds \/ RoundResolves PROVE GoesOn
<1>1. app' = app
  BY DEF RoundEnds, RoundResolves
<1>2. mail' = Posted(<<Status(room')>>) \/ \E r, s : mail' = Posted(<<Status(r), Roster(s)>>)
  BY DEF RoundEnds, RoundResolves
<1>3. Answers(mail')
  BY <1>2, LobbyAnswers, PostedAnswers DEF Ready
<1> QED BY <1>1, <1>3, AppIsSame, MovesOn DEF GoesOn, Ready

(* Every step keeps a client sound, and moves its search in one of the     *)
(* ways named.                                                             *)
LEMMA StepSound == ASSUME Ready, [Next]_vars PROVE GoesOn
<1>1. CASE UNCHANGED vars
  BY <1>1, StaySound DEF vars
<1> QED BY <1>1, PreviewSound, DiscoverySound, ListSound, LobbyBrowserSound, RosterSound, GameplaySound, ReturnSound,
           RestartSound, ResultsSound, PlayAgainSound, LeaveResultsSound, MenuSound, BrowserSound, LobbySound,
           EntrySound, RoundSound DEF Next

(* A client that starts has no connection.                                 *)
LEMMA InitSound == ASSUME Init PROVE Ready
<1>1. PICK directory \in BOOLEAN : app = NewGame(directory)
  BY DEF Init
<1>2. Shaped(app) /\ app.net = NoNet /\ ~app.resume /\ app.screen = "menu"
  BY <1>1, NetFacts, MatchFacts DEF NewGame, Shaped, IsApp, IsRec, AppFields
<1>3. Sound(app)
  BY <1>2, NetFacts DEF Sound, Kept
<1> QED BY <1>3, AnswerFacts DEF Init, Ready

(* Whatever way a client goes through its screens, with whatever the       *)
(* network brings, loses or repeats meanwhile, no connection is open in    *)
(* the menus (screen.c:27, results.c:240, gameplay.c:305).                 *)
THEOREM SessionsEnd == Spec => []NoLingeringSession
<1>1. Init => Ready
  BY InitSound
<1>2. Ready /\ [Next]_vars => Ready'
  BY StepSound DEF GoesOn, Ready
<1>3. Ready => NoLingeringSession
  BY DEF Ready, Sound, Kept, NoLingeringSession
<1> QED BY <1>1, <1>2, <1>3, PTL DEF Spec

(* Every set of numbers has a least one.                                   *)
LEMMA Least == ASSUME NEW T, T \subseteq Nat, T # {} PROVE \E x \in T : \A y \in T : x <= y
<1> DEFINE R == OpToRel(<, Nat)
<1>1. IsWellFoundedOn(R, Nat)
  BY NatLessThanWellFounded
<1>2. \A x, y \in Nat : x < y => <<x, y>> \in R
  BY DEF OpToRel
<1> HIDE DEF R
<1>3. PICK x \in T : \A y \in T : ~(<<y, x>> \in R)
  BY <1>1, WFMin
<1>4. ASSUME NEW y \in T PROVE x <= y
  <2>1. x \in Nat /\ y \in Nat
    OBVIOUS
  <2>2. ~(y < x)
    BY <1>2, <1>3, <2>1
  <2> QED BY <2>1, <2>2
<1> QED BY <1>4

(* A finite set of numbers has a bound, by induction on its size.          *)
LEMMA Bounded == ASSUME NEW T, T \subseteq Nat, IsFiniteSet(T) PROVE \E b \in Nat : \A y \in T : y <= b
<1> DEFINE bounded(U) == \E b \in Nat : \A y \in U : y <= b
           D == {Cardinality(U) : U \in {V \in SUBSET T : ~bounded(V)}}
<1>1. \A U \in SUBSET T : IsFiniteSet(U) /\ Cardinality(U) \in Nat
  BY FS_Subset, FS_CardinalityType
<1>2. CASE D = {}
  <2>1. bounded(T)
    BY <1>2
  <2> QED BY <2>1
<1>3. CASE D # {}
  <2>1. D \subseteq Nat
    BY <1>1
  <2>2. PICK d \in D : \A e \in D : d <= e
    BY <1>3, <2>1, Least
  <2>3. PICK U \in SUBSET T : ~bounded(U) /\ d = Cardinality(U)
    BY <2>2
  <2>4. U # {}
    <3>1. bounded({})
      OBVIOUS
    <3> QED BY <2>3, <3>1
  <2>5. PICK x \in U : TRUE
    BY <2>4
  <2>6. Cardinality(U \ {x}) = Cardinality(U) - 1 /\ U \ {x} \in SUBSET T
    BY <1>1, FS_RemoveElement
  <2>7. bounded(U \ {x})
    <3>1. SUFFICES ASSUME ~bounded(U \ {x}) PROVE FALSE
      OBVIOUS
    <3>2. Cardinality(U \ {x}) \in D
      BY <2>6, <3>1
    <3>3. d <= Cardinality(U \ {x})
      BY <2>2, <3>2
    <3> QED BY <1>1, <2>3, <2>6, <3>3
  <2>8. PICK b \in Nat : \A y \in U \ {x} : y <= b
    BY <2>7
  <2>9. x \in Nat
    OBVIOUS
  <2>10. bounded(U)
    <3>1. CASE x <= b
      BY <2>8, <3>1
    <3>2. CASE ~(x <= b)
      <4>1. \A y \in U : y <= x
        <5>1. ASSUME NEW y \in U PROVE y <= x
          <6>1. y \in Nat
            OBVIOUS
          <6> QED BY <2>8, <2>9, <3>2, <6>1
        <5> QED BY <5>1
      <4> QED BY <2>9, <4>1
    <3> QED BY <3>1, <3>2
  <2> QED BY <2>3, <2>10
<1> QED BY <1>2, <1>3

(* A finite set of numbers has a greatest one (Max).                       *)
LEMMA Greatest == ASSUME NEW T, T \subseteq Nat, T # {}, IsFiniteSet(T) PROVE Max(T) \in T /\ \A y \in T : Max(T) >= y
<1>1. PICK b \in Nat : \A y \in T : y <= b
  BY Bounded
<1> DEFINE D == {b - y : y \in T}
<1>2. D \subseteq Nat /\ D # {}
  <2>1. ASSUME NEW y \in T PROVE b - y \in Nat
    BY <1>1
  <2> QED BY <2>1
<1>3. PICK d \in D : \A e \in D : d <= e
  BY <1>2, Least
<1>4. PICK m \in T : d = b - m
  BY <1>3
<1>5. ASSUME NEW y \in T PROVE m >= y
  <2>1. b - m <= b - y
    BY <1>3, <1>4
  <2>2. m \in Nat /\ y \in Nat
    OBVIOUS
  <2> QED BY <2>1, <2>2
<1>6. \E n \in T : \A y \in T : n >= y BY <1>5
<1> QED BY <1>6 DEF Max

(* Of offers with a place one beats all others (ShroomMatchmakingSelect).  *)
LEMMA OneBeatsAll ==
  ASSUME NEW pool, pool \subseteq Offers, pool # {}, NEW slowest \in Nat
  PROVE  \E offer \in pool : \A other \in pool \ {offer} : Beats(offer, other, slowest)
<1> DEFINE score(o) == Score(o, slowest)
           best == {o \in pool : \A other \in pool : score(o) <= score(other)}
           near == {o \in best : \A other \in best : o.latency <= other.latency}
           empty == {o \in near : \A other \in near : o.players <= other.players}
           first == {o \in empty : \A other \in empty : o.server <= other.server}
<1>0. Capacity \in Nat
  BY FlowParameters
<1>1. \A o \in pool : score(o) \in Nat /\ o.latency \in Nat /\ o.players \in Nat /\ o.server \in Nat
  <2>1. ASSUME NEW o \in pool
        PROVE  score(o) \in Nat /\ o.latency \in Nat /\ o.players \in Nat /\ o.server \in Nat
    <3>1. o.latency \in Nat /\ o.players \in Nat /\ o.server \in Nat
      BY DEF Offers, NoServer
    <3>2. 7 * o.latency * Capacity \in Nat /\ 3 * o.players * slowest \in Nat
      BY <1>0, <3>1
    <3> QED BY <3>1, <3>2 DEF Score, LatencyWeight, LoadWeight
  <2> QED BY <2>1
<1> HIDE DEF score
<1>2. best # {}
  <2> DEFINE T == {score(o) : o \in pool}
  <2>1. T \subseteq Nat /\ T # {}
    BY <1>1
  <2>2. PICK x \in T : \A y \in T : x <= y
    BY <2>1, Least
  <2> QED BY <2>2
<1>3. near # {}
  <2> DEFINE T == {o.latency : o \in best}
  <2>1. T \subseteq Nat /\ T # {}
    BY <1>1, <1>2
  <2>2. PICK x \in T : \A y \in T : x <= y
    BY <2>1, Least
  <2> QED BY <2>2
<1>4. empty # {}
  <2> DEFINE T == {o.players : o \in near}
  <2>1. T \subseteq Nat /\ T # {}
    BY <1>1, <1>3
  <2>2. PICK x \in T : \A y \in T : x <= y
    BY <2>1, Least
  <2> QED BY <2>2
<1>5. first # {}
  <2> DEFINE T == {o.server : o \in empty}
  <2>1. T \subseteq Nat /\ T # {}
    BY <1>1, <1>4
  <2>2. PICK x \in T : \A y \in T : x <= y
    BY <2>1, Least
  <2> QED BY <2>2
<1>6. PICK offer \in first : TRUE
  BY <1>5
<1>7. ASSUME NEW other \in pool \ {offer} PROVE Beats(offer, other, slowest)
  <2>1. offer \in pool /\ other \in pool /\ offer \in Offers /\ other \in Offers
    BY <1>6
  <2>2. score(offer) <= score(other)
    BY <1>6
  <2>3. CASE score(offer) = score(other)
    <3>1. other \in best
      BY <1>1, <1>6, <2>1, <2>3
    <3>2. offer.latency <= other.latency
      BY <1>6, <3>1
    <3>3. CASE offer.latency = other.latency
      <4>1. other \in near
        BY <1>1, <1>6, <3>1, <3>3
      <4>2. offer.players <= other.players
        BY <1>6, <4>1
      <4>3. CASE offer.players = other.players
        <5>1. other \in empty
          BY <1>1, <1>6, <4>1, <4>3
        <5>2. offer.server <= other.server
          BY <1>6, <5>1
        <5>3. offer.server # other.server
          <6>1. offer = other <=> /\ offer.server = other.server /\ offer.players = other.players
                                  /\ offer.latency = other.latency
            BY <2>1 DEF Offers
          <6> QED BY <3>3, <4>3, <6>1
        <5>4. WinsTie(offer, other)
          BY <1>1, <2>1, <3>3, <4>3, <5>2, <5>3 DEF WinsTie
        <5> QED BY <2>3, <5>4 DEF Beats, score
      <4>4. CASE offer.players # other.players
        <5>1. WinsTie(offer, other)
          BY <1>1, <2>1, <3>3, <4>2, <4>4 DEF WinsTie
        <5> QED BY <2>3, <5>1 DEF Beats, score
      <4> QED BY <4>3, <4>4
    <3>4. CASE offer.latency # other.latency
      <4>1. WinsTie(offer, other)
        BY <1>1, <2>1, <3>2, <3>4 DEF WinsTie
      <4> QED BY <2>3, <4>1 DEF Beats, score
    <3> QED BY <3>3, <3>4
  <2>4. CASE score(offer) # score(other)
    <3>1. score(offer) < score(other)
      BY <1>1, <2>1, <2>2, <2>4
    <3> QED BY <3>1 DEF Beats, score
  <2> QED BY <2>3, <2>4
<1> QED BY <1>6, <1>7

(* The selector names a server of the offers with a place, or none if      *)
(* there is none (ShroomMatchmakingSelect).                                *)
LEMMA BestFacts ==
  ASSUME NEW offers, offers \subseteq Offers, IsFiniteSet(offers)
  PROVE  LET free == {offer.server : offer \in {o \in offers : Joinable(o)}}
         IN /\ free = {} => Best(offers) = NoServer
            /\ free # {} => Best(offers) \in free /\ Best(offers) # NoServer
<1> DEFINE pool == Pool(offers)
           free == {o \in offers : Joinable(o)}
<1>1. pool \subseteq free /\ (pool = {} <=> free = {})
  BY DEF Pool, Near
<1>2. CASE pool = {}
  BY <1>1, <1>2 DEF Best
<1>3. CASE pool # {}
  <2> DEFINE latencies == {offer.latency : offer \in pool}
  <2>1. IsFiniteSet(pool)
    BY <1>1, FS_Subset
  <2>2. IsFiniteSet(latencies)
    <3> DEFINE f == [offer \in pool |-> offer.latency]
    <3>1. f \in Surjection(pool, latencies)
      BY DEF Surjection
    <3> QED BY <2>1, <3>1, FS_Surjection
  <2>3. IsFiniteSet(latencies \cup {1})
    BY <2>2, FS_AddElement
  <2>4. latencies \cup {1} \subseteq Nat
    BY <1>1 DEF Offers
  <2>5. Slowest(pool) \in Nat
    BY <2>3, <2>4, Greatest DEF Slowest
  <2> DEFINE wins(o) == \A other \in pool \ {o} : Beats(o, other, Slowest(pool))
  <2>6. \E offer \in pool : wins(offer)
    BY <1>1, <1>3, <2>5, OneBeatsAll
  <2>7. (CHOOSE offer \in pool : wins(offer)) \in pool
    <3> HIDE DEF wins
    <3> QED BY <2>6
  <2>8. Best(offers) = (CHOOSE offer \in pool : wins(offer)).server
    BY <1>3 DEF Best
  <2> HIDE DEF pool, wins
  <2>9. PICK offer \in free : Best(offers) = offer.server
    BY <1>1, <2>7, <2>8
  <2>10. offer.server # NoServer
    BY DEF Offers
  <2> QED BY <2>9, <2>10
<1> QED BY <1>2, <1>3

-----------------------------------------------------------------------------
Places(offers) == {offer.server : offer \in {o \in offers : Joinable(o)}}
Listed(offers) == offers \subseteq Offers /\ IsFiniteSet(offers)

(* SelectNext finds a server with a place that did not fail yet, or there  *)
(* is none (quick_match.c:5).                                              *)
LEMMA SelectFacts ==
  ASSUME NEW m, IsMatch(m), Listed(m.offers)
  PROVE  LET s == SelectNext(m)
         IN /\ IsMatch(s) /\ s.offers = m.offers /\ s.excluded = m.excluded
            /\ \/ s.phase = "preview" /\ s.failure = "none" /\ s.selected \in Places(m.offers) \ m.excluded
               \/ s.phase = "failed" /\ Places(m.offers) \subseteq m.excluded
<1> DEFINE rest == {offer \in m.offers : offer.server \notin m.excluded}
           free == Places(rest)
           best == Best(rest)
           failed == [m EXCEPT !.selected = NoServer, !.phase = "failed",
                               !.failure = IF m.attempts > 0 THEN "exhausted" ELSE "no servers"]
           found == [m EXCEPT !.selected = best, !.phase = "preview", !.failure = "none"]
<1>1. rest \subseteq Offers /\ IsFiniteSet(rest)
  BY FS_Subset DEF Listed
<1>2. free = Places(m.offers) \ m.excluded
  BY DEF Places
<1>3. (free = {} => best = NoServer) /\ (free # {} => best \in free /\ best # NoServer)
  BY <1>1, BestFacts DEF Places
<1>4. SelectNext(m) = IF best = NoServer THEN failed ELSE found
  BY DEF SelectNext
<1> HIDE DEF rest, free, best
<1>5. IsMatch(failed) /\ failed.offers = m.offers /\ failed.excluded = m.excluded /\ failed.phase = "failed"
  BY DEF IsMatch, IsRec, MatchFields
<1>6. IsMatch(found) /\ found.offers = m.offers /\ found.excluded = m.excluded /\ found.phase = "preview"
      /\ found.failure = "none" /\ found.selected = best
  BY DEF IsMatch, IsRec, MatchFields
<1> HIDE DEF failed, found
<1> QED BY <1>2, <1>3, <1>4, <1>5, <1>6

Searched(m, tried) ==
  LET T == ToSet(tried)
      free == Places(m.offers)
  IN  /\ Listed(m.offers) /\ tried \in Seq(Nat) /\ IsInjective(tried)
      /\ m.phase = "finding" => tried = <<>> /\ m.excluded = {}
      /\ m.phase = "preview" => T = m.excluded /\ m.excluded \subseteq free /\ m.selected \in free \ m.excluded
      /\ m.phase = "connecting" =>
           T = m.excluded \cup {m.selected} /\ m.excluded \subseteq free /\ m.selected \in free \ m.excluded
      /\ m.failure = "exhausted" => m.phase = "failed" /\ T = free

(* Before the first server.                                                *)
LEMMA NoneTried == <<>> \in Seq(Nat) /\ IsInjective(<<>>) /\ ToSet(<<>>) = {}
  BY DEF IsInjective, ToSet

(* One more server, not tried before.                                      *)
LEMMA AppendFresh ==
  ASSUME NEW tried \in Seq(Nat), IsInjective(tried), NEW server \in Nat, server \notin ToSet(tried)
  PROVE  LET more == Append(tried, server)
         IN  more \in Seq(Nat) /\ IsInjective(more) /\ ToSet(more) = ToSet(tried) \cup {server}
<1> DEFINE more == Append(tried, server)
<1>1. more \in Seq(Nat) /\ Len(more) = Len(tried) + 1 /\ Len(tried) \in Nat
      /\ more[Len(tried) + 1] = server /\ \A i \in 1..Len(tried) : more[i] = tried[i]
  OBVIOUS
<1>2. DOMAIN more = 1..Len(more) /\ DOMAIN tried = 1..Len(tried)
  OBVIOUS
<1> HIDE DEF more
<1>3. \A i \in 1..Len(more) : i \in 1..Len(tried) \/ i = Len(tried) + 1
  BY <1>1
<1>4. Len(tried) + 1 \in 1..Len(more) /\ 1..Len(tried) \subseteq 1..Len(more)
  BY <1>1
<1>5. ToSet(more) = ToSet(tried) \cup {server}
  <2>1. ASSUME NEW x \in ToSet(more) PROVE x \in ToSet(tried) \cup {server}
    BY <1>1, <1>2, <1>3 DEF ToSet
  <2>2. ASSUME NEW x \in ToSet(tried) \cup {server} PROVE x \in ToSet(more)
    <3>1. CASE x = server
      BY <1>1, <1>2, <1>4, <3>1 DEF ToSet
    <3>2. CASE x \in ToSet(tried)
      <4>1. PICK i \in 1..Len(tried) : x = tried[i]
        BY <1>2, <3>2 DEF ToSet
      <4>2. i \in 1..Len(more) /\ more[i] = x
        BY <1>1, <1>4, <4>1
      <4> QED BY <1>2, <4>2 DEF ToSet
    <3> QED BY <3>1, <3>2
  <2> QED BY <2>1, <2>2
<1>6. IsInjective(more)
  <2>1. SUFFICES ASSUME NEW i \in 1..Len(more), NEW j \in 1..Len(more), more[i] = more[j] PROVE i = j
    BY <1>2 DEF IsInjective
  <2>2. \A k \in 1..Len(tried) : tried[k] # server
    BY <1>2 DEF ToSet
  <2>3. CASE i \in 1..Len(tried) /\ j \in 1..Len(tried)
    BY <1>1, <1>2, <2>1, <2>3 DEF IsInjective
  <2>4. CASE i = Len(tried) + 1 /\ j = Len(tried) + 1
    BY <2>4
  <2>5. CASE i \in 1..Len(tried) /\ j = Len(tried) + 1
    BY <1>1, <2>1, <2>2, <2>5
  <2>6. CASE i = Len(tried) + 1 /\ j \in 1..Len(tried)
    BY <1>1, <2>1, <2>2, <2>6
  <2> QED BY <1>3, <2>3, <2>4, <2>5, <2>6
<1> QED BY <1>1, <1>5, <1>6 DEF more

(* Nothing a search does tries a server twice or one that was not found.   *)
LEMMA EndsSearched ==
  ASSUME NEW m, IsMatch(m), NEW tried, Searched(m, tried)
  PROVE  /\ Searched(IdleMatch, tried) /\ Searched(DirectoryFailed(m), tried) /\ Searched(ServersFull(m), tried)
         /\ Searched(CancelMatch(m), tried) /\ Searched(ConnectionSucceeded(m), tried)
<1>1. Listed({})
  BY FS_EmptySet DEF Listed
<1>2. Searched(IdleMatch, tried)
  BY <1>1 DEF Searched, IdleMatch
<1>3. ASSUME NEW failure, failure # "exhausted"
      PROVE  Searched(SearchFailed(m, failure), tried)
  <2> DEFINE f == [m EXCEPT !.phase = "failed", !.failure = failure]
  <2>1. f.phase = "failed" /\ f.failure = failure /\ f.offers = m.offers
    BY DEF IsMatch, IsRec, MatchFields
  <2>2. SearchFailed(m, failure) \in {m, f}
    BY DEF SearchFailed
  <2> HIDE DEF f
  <2>3. Searched(f, tried)
    BY <1>3, <2>1 DEF Searched
  <2> QED BY <2>2, <2>3
<1>4. Searched(DirectoryFailed(m), tried) /\ Searched(ServersFull(m), tried)
  BY <1>3 DEF DirectoryFailed, ServersFull
<1>5. ASSUME NEW phase \in {"cancelled", "succeeded"} PROVE Searched([m EXCEPT !.phase = phase, !.failure = "none"], tried)
  <2> DEFINE f == [m EXCEPT !.phase = phase, !.failure = "none"]
  <2>1. f.phase = phase /\ f.failure = "none" /\ f.offers = m.offers
    BY DEF IsMatch, IsRec, MatchFields
  <2> HIDE DEF f
  <2>2. Searched(f, tried)
    BY <1>5, <2>1 DEF Searched
  <2> QED BY <2>2 DEF f
<1>6. Searched(CancelMatch(m), tried) /\ Searched(ConnectionSucceeded(m), tried)
  BY <1>5 DEF CancelMatch, ConnectionSucceeded
<1> QED BY <1>2, <1>4, <1>6

(* The next server, after those that failed.                               *)
LEMMA SelectSearched ==
  ASSUME NEW m, IsMatch(m), Listed(m.offers), NEW tried \in Seq(Nat), IsInjective(tried),
         ToSet(tried) = m.excluded, m.excluded \subseteq Places(m.offers)
  PROVE  Searched(SelectNext(m), tried)
<1> DEFINE s == SelectNext(m)
<1>1. /\ s.offers = m.offers /\ s.excluded = m.excluded
      /\ \/ s.phase = "preview" /\ s.failure = "none" /\ s.selected \in Places(m.offers) \ m.excluded
         \/ s.phase = "failed" /\ Places(m.offers) \subseteq m.excluded
  BY SelectFacts
<1> SUFFICES Searched(s, tried)
  OBVIOUS
<1> HIDE DEF s
<1>2. CASE s.phase = "preview" /\ s.failure = "none" /\ s.selected \in Places(m.offers) \ m.excluded
  BY <1>1, <1>2 DEF Searched
<1>3. CASE s.phase = "failed" /\ Places(m.offers) \subseteq m.excluded
  <2>1. ToSet(tried) = Places(m.offers)
    BY <1>3
  <2> QED BY <1>1, <1>3, <2>1 DEF Searched
<1> QED BY <1>1, <1>2, <1>3

(* Every change of the search keeps its account of the servers.            *)
LEMMA ChangedSearched ==
  ASSUME NEW a, Shaped(a), Searched(a.quick, a.tried), NEW m, NEW tried, Changed(a, m, tried)
  PROVE  IsMatch(m) /\ Searched(m, tried)
<1> DEFINE q == a.quick
<1>0. IsMatch(q) /\ Searched(q, a.tried)
  BY DEF Shaped
<1> HIDE DEF q
<1>1. CASE m \in {q, IdleMatch, ServersFull(q), DirectoryFailed(q), CancelMatch(q), ConnectionSucceeded(q)} /\ tried = a.tried
  BY <1>0, <1>1, EndsSearched, MatchFacts
<1>2. CASE m = ConnectionFailed(q) /\ tried = a.tried
  <2> DEFINE k == [q EXCEPT !.excluded = q.excluded \cup {q.selected}]
  <2>1. ConnectionFailed(q) = IF q.phase # "connecting" \/ q.selected = NoServer THEN q ELSE SelectNext(k)
    BY <1>0 DEF ConnectionFailed, IsMatch, IsRec, MatchFields
  <2>2. CASE q.phase # "connecting" \/ q.selected = NoServer
    BY <1>0, <1>2, <2>1, <2>2
  <2>3. CASE q.phase = "connecting"
    <3>1. IsMatch(k) /\ k.offers = q.offers /\ k.excluded = q.excluded \cup {q.selected}
      BY <1>0 DEF IsMatch, IsRec, MatchFields
    <3> HIDE DEF k
    <3>2. Searched(SelectNext(k), a.tried)
      <4>1. /\ Listed(k.offers) /\ a.tried \in Seq(Nat) /\ IsInjective(a.tried)
            /\ ToSet(a.tried) = k.excluded /\ k.excluded \subseteq Places(k.offers)
        BY <1>0, <2>3, <3>1 DEF Searched
      <4> QED BY <3>1, <4>1, SelectSearched
    <3> QED BY <1>0, <1>2, <2>1, <3>2, SearchFacts
  <2> QED BY <2>2, <2>3
<1>3. ASSUME NEW offers \in SUBSET Offers, IsFiniteSet(offers), m = SetCandidates(q, offers), tried = a.tried
      PROVE  IsMatch(m) /\ Searched(m, tried)
  <2> DEFINE k == [q EXCEPT !.offers = offers]
             full == [SelectNext(k) EXCEPT !.failure = "full"]
  <2>1. m = q \/ (q.phase = "finding" /\ (m = SelectNext(k) \/ (SelectNext(k).phase = "failed" /\ m = full)))
    BY <1>3 DEF SetCandidates
  <2>2. IsMatch(k) /\ k.offers = offers /\ k.excluded = q.excluded
    BY <1>0 DEF IsMatch, IsRec, MatchFields
  <2> HIDE DEF k
  <2>3. CASE q.phase = "finding"
    <3>1. /\ Listed(k.offers) /\ a.tried \in Seq(Nat) /\ IsInjective(a.tried)
          /\ ToSet(a.tried) = k.excluded /\ k.excluded \subseteq Places(k.offers)
      BY <1>0, <1>3, <2>2, <2>3, NoneTried DEF Searched, Listed
    <3>2. Searched(SelectNext(k), a.tried)
      BY <2>2, <3>1, SelectSearched
    <3>3. IsMatch(SelectNext(k))
      BY <2>2, <3>1, SelectFacts
    <3>4. ASSUME SelectNext(k).phase = "failed" PROVE Searched(full, a.tried)
      <4>1. full.phase = "failed" /\ full.failure = "full" /\ full.offers = SelectNext(k).offers
        BY <3>3, <3>4 DEF IsMatch, IsRec, MatchFields
      <4> HIDE DEF full
      <4> QED BY <3>2, <4>1 DEF Searched
    <3> QED BY <1>0, <1>3, <2>1, <3>2, <3>4, SearchFacts
  <2> QED BY <1>0, <1>3, <2>1, <2>3
<1>4. CASE m = BeginMatch /\ tried = <<>>
  <2>1. Listed({})
    BY FS_EmptySet DEF Listed
  <2>2. BeginMatch.phase = "finding" /\ BeginMatch.excluded = {} /\ BeginMatch.offers = {} /\ BeginMatch.failure = "none"
    BY DEF BeginMatch, IdleMatch
  <2> QED BY <1>4, <2>1, <2>2, NoneTried, MatchFacts DEF Searched
<1>5. CASE q.phase = "preview" /\ m = EndPreview(q) /\ tried = Append(a.tried, m.selected)
  <2>1. /\ IsMatch(m) /\ m.phase = "connecting" /\ m.offers = q.offers /\ m.excluded = q.excluded
        /\ m.selected = q.selected /\ m.failure = q.failure
    BY <1>0, <1>5 DEF EndPreview, IsMatch, IsRec, MatchFields
  <2>2. /\ Listed(q.offers) /\ a.tried \in Seq(Nat) /\ IsInjective(a.tried) /\ ToSet(a.tried) = q.excluded
        /\ q.excluded \subseteq Places(q.offers) /\ q.selected \in Places(q.offers) \ q.excluded
        /\ q.failure # "exhausted"
    BY <1>0, <1>5 DEF Searched
  <2>3. q.selected \in Nat
    BY <2>2 DEF Places, Listed, Offers
  <2>4. tried \in Seq(Nat) /\ IsInjective(tried) /\ ToSet(tried) = ToSet(a.tried) \cup {q.selected}
    BY <1>5, <2>1, <2>2, <2>3, AppendFresh
  <2> QED BY <2>1, <2>2, <2>4 DEF Searched
<1> QED BY <1>1, <1>2, <1>3, <1>4, <1>5 DEF Changed, q

(* And so does every move.                                                 *)
LEMMA MovedSearched ==
  ASSUME NEW a, Shaped(a), Searched(a.quick, a.tried), NEW b, Moved(a, b) PROVE Searched(b.quick, b.tried)
<1>1. PICK m, tried : Changed(a, m, tried) /\ b.tried = tried /\ b.quick \in {m, IdleMatch, DirectoryFailed(m)}
  BY Zenon DEF Moved
<1>2. IsMatch(m) /\ Searched(m, tried)
  BY <1>1, ChangedSearched
<1> QED BY <1>1, <1>2, EndsSearched

(* A Quick Match tries no server twice, and when it gives up as exhausted  *)
(* it has tried each that had a place, for any lists, capacities and       *)
(* latencies (quick_match.c:5, matchmaking_selector.c:45).                 *)
THEOREM SearchIsExhaustive == Spec => []QuickMatchExhausts
<1> DEFINE Inv == Ready /\ Searched(app.quick, app.tried)
<1>1. Init => Inv
  <2> SUFFICES ASSUME Init PROVE Inv
    OBVIOUS
  <2>1. app.quick = IdleMatch /\ app.tried = <<>>
    BY DEF Init, NewGame
  <2>2. Listed({})
    BY FS_EmptySet DEF Listed
  <2>3. Searched(IdleMatch, <<>>)
    BY <2>2, NoneTried DEF Searched, IdleMatch
  <2> QED BY <2>1, <2>3, InitSound
<1>2. Inv /\ [Next]_vars => Inv'
  <2> SUFFICES ASSUME Inv, [Next]_vars PROVE Inv'
    OBVIOUS
  <2>1. GoesOn
    BY StepSound
  <2>2. Searched(app'.quick, app'.tried)
    BY <2>1, MovedSearched DEF GoesOn, Ready, Sound
  <2> QED BY <2>1, <2>2 DEF GoesOn, Ready
<1>3. Inv => QuickMatchExhausts
  BY DEF Searched, QuickMatchExhausts, Places
<1> QED BY <1>1, <1>2, <1>3, PTL DEF Spec

=============================================================================
