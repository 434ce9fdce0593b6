--------------------------- MODULE ServerDirectory ---------------------------
(***************************************************************************)
(* The directory of game servers (src/server/directory_registry.c and the  *)
(* directory mode of src/server/main.c) and the advertiser of each game    *)
(* server.                                                                 *)
(*                                                                         *)
(* Times are ages: registry[s] is how long ago the registration of s was   *)
(* last seen, attempt[s] and beat[s] how long ago the advertiser of s      *)
(* tried to connect and sent a heartbeat.  Ages stop counting where the    *)
(* code no longer tells them apart.  The directory takes the time once for *)
(* all the events of a turn: stale is how long ago that was.               *)
(*                                                                         *)
(* A link is dangling when only the advertiser believes in it.  A          *)
(* registration is its endpoint; what it says of the players, and the      *)
(* chunks a list is cut into, are in the model of the discovery.           *)
(***************************************************************************)
EXTENDS Integers, FiniteSets

CONSTANTS
  Servers,       \* endpoints of game servers
  Slots,         \* SHROOM_DIRECTORY_MAX_ENTRIES
  EntryTtl,      \* SHROOM_DIRECTORY_ENTRY_TTL_MS
  Heartbeat,     \* SHROOM_DIRECTORY_HEARTBEAT_INTERVAL_MS
  Reconnect,     \* SHROOM_DIRECTORY_RECONNECT_INTERVAL_MS
  Delay,         \* the longest a heartbeat travels
  TurnLength,    \* the longest turn of the directory
  MaxCrashes     \* bound on crashes of the directory

ASSUME DirectoryParameters ==
  /\ IsFiniteSet(Servers)
  /\ {Slots, EntryTtl, Heartbeat, Reconnect, TurnLength} \subseteq Nat \ {0} /\ {Delay, MaxCrashes} \subseteq Nat
  /\ Delay < Heartbeat /\ Heartbeat + Delay + TurnLength < EntryTtl

VARIABLES
  registry,    \* age of the registration of each endpoint, or Absent
  stale,       \* how old the time of this turn is
  running,     \* the game servers that run
  link,        \* "none", "connecting", "connected" or "dangling", by server
  attempt, beat,
  wire,        \* how long the heartbeat of each server travels, or Absent
  since,       \* how long each server is connected to this directory, or gone
  crashes

vars == <<registry, stale, running, link, attempt, beat, wire, since, crashes>>

Absent == -1
Oldest == EntryTtl + TurnLength
Older(age, most) == IF age = Absent THEN Absent ELSE IF age < most THEN age + 1 ELSE age

Init ==
  /\ registry = [s \in Servers |-> Absent] /\ stale = 0 /\ running = {}
  /\ link = [s \in Servers |-> "none"] /\ attempt = [s \in Servers |-> 0] /\ beat = [s \in Servers |-> Absent]
  /\ wire = [s \in Servers |-> Absent] /\ since = [s \in Servers |-> Delay + 1] /\ crashes = 0

Registered == {s \in Servers : registry[s] # Absent}

-----------------------------------------------------------------------------
(* ---- The advertiser of a game server ---------------------------------- *)
(* DirectoryAdvertiserInit: the first attempt; the address may not resolve *)
StartServer(s) ==
  /\ s \notin running
  /\ running' = running \cup {s} /\ attempt' = [attempt EXCEPT ![s] = 0] /\ beat' = [beat EXCEPT ![s] = Absent]
  /\ \E to \in {"none", "connecting"} : link' = [link EXCEPT ![s] = to]
  /\ UNCHANGED <<registry, stale, wire, since, crashes>>

(* The connection of a server that stops is closed or times out.           *)
StopServer(s) ==
  /\ s \in running
  /\ running' = running \ {s} /\ link' = [link EXCEPT ![s] = "none"] /\ since' = [since EXCEPT ![s] = 0]
  /\ wire' = [wire EXCEPT ![s] = Absent] /\ attempt' = [attempt EXCEPT ![s] = 0] /\ beat' = [beat EXCEPT ![s] = Absent]
  /\ UNCHANGED <<registry, stale, crashes>>

(* DirectoryAdvertiserUpdate: what happened to the connection, a new       *)
(* attempt when there is none, a heartbeat when one is due.  The first     *)
(* heartbeat of a connection is due at once.                               *)
Happened(s, event) ==
  CASE event = "connect" -> link[s] = "connecting"
    [] event = "disconnect" -> link[s] \in {"connecting", "dangling"}
    [] event = "none" -> TRUE

(* Slip: the advertiser keeps the connection it lost.                      *)
AdvertiserKeepsPeer(s, event) ==
  /\ s \in running /\ Happened(s, event)
  /\ LET last == IF event = "connect" THEN Absent ELSE beat[s]
         again == link[s] = "none" /\ attempt[s] >= Reconnect
     IN  /\ link' = [link EXCEPT ![s] = IF event = "connect" THEN "connected" ELSE IF again THEN "connecting" ELSE @]
         /\ attempt' = IF again THEN [attempt EXCEPT ![s] = 0] ELSE attempt
         /\ beat' = [beat EXCEPT ![s] = IF link[s] # "none" /\ (last = Absent \/ last >= Heartbeat) THEN 0 ELSE last]
         /\ wire' = IF link'[s] = "connected" /\ beat'[s] = 0 THEN [wire EXCEPT ![s] = 0] ELSE wire
         /\ since' = IF event = "connect" THEN [since EXCEPT ![s] = 0] ELSE since
  /\ UNCHANGED <<registry, stale, running, crashes>>

AdvertiserUpdate(s, event) ==
  /\ s \in running /\ Happened(s, event)
  /\ LET now == IF event = "connect" THEN "connected" ELSE IF event = "disconnect" THEN "none" ELSE link[s]
         last == IF event = "connect" THEN Absent ELSE beat[s]
         again == now = "none" /\ attempt[s] >= Reconnect
         due == now \in {"connected", "dangling"} /\ (last = Absent \/ last >= Heartbeat)
     IN  /\ \E to \in IF again THEN {"none", "connecting"} ELSE {now} : link' = [link EXCEPT ![s] = to]
         /\ attempt' = IF again THEN [attempt EXCEPT ![s] = 0] ELSE attempt
         /\ beat' = [beat EXCEPT ![s] = IF due THEN 0 ELSE last]
         /\ wire' = IF due /\ now = "connected" THEN [wire EXCEPT ![s] = 0] ELSE wire
         /\ since' = IF event = "connect" THEN [since EXCEPT ![s] = 0] ELSE since
  /\ UNCHANGED <<registry, stale, running, crashes>>

-----------------------------------------------------------------------------
(* ---- The directory (RunDirectoryServer) ------------------------------- *)
Expired(age) == age # Absent /\ age - stale >= EntryTtl
EvictExpired == [s \in Servers |-> IF Expired(registry[s]) THEN Absent ELSE registry[s]]

(* Slip: a heartbeat of an endpoint that is listed is not stored.          *)
RegisterOnce(s) ==
  /\ wire[s] # Absent
  /\ wire' = [wire EXCEPT ![s] = Absent]
  /\ registry' = IF s \notin Registered THEN [registry EXCEPT ![s] = stale] ELSE registry
  /\ UNCHANGED <<stale, running, link, attempt, beat, since, crashes>>
(* ShroomDirectoryRegistryRegister: the endpoint's registration, or a free *)
(* one; never back in time.                                                *)
Register(s) ==
  /\ wire[s] # Absent
  /\ wire' = [wire EXCEPT ![s] = Absent]
  /\ registry' = IF IF s \in Registered THEN stale <= registry[s] ELSE Cardinality(Registered) < Slots
                 THEN [registry EXCEPT ![s] = stale] ELSE registry
  /\ UNCHANGED <<stale, running, link, attempt, beat, since, crashes>>

(* A query is answered with what is left of the registry (CopyActive).     *)
AnswerQuery ==
  /\ registry' = EvictExpired
  /\ UNCHANGED <<stale, running, link, attempt, beat, wire, since, crashes>>

EndTurn ==
  /\ registry' = EvictExpired /\ stale' = 0
  /\ UNCHANGED <<running, link, attempt, beat, wire, since, crashes>>

(* The process ends and another starts: no registration and no connection  *)
(* outlives it.                                                            *)
RestartDirectory ==
  /\ crashes < MaxCrashes /\ crashes' = crashes + 1
  /\ registry' = [s \in Servers |-> Absent] /\ stale' = 0
  /\ wire' = [s \in Servers |-> Absent]
  /\ link' = [s \in Servers |-> IF link[s] = "connected" THEN "dangling" ELSE link[s]]
  /\ UNCHANGED <<running, attempt, beat, since>>

(* Time passes unless a heartbeat is due, arrives or ends the turn now.    *)
Tick ==
  /\ stale < TurnLength
  /\ \A s \in Servers : wire[s] < Delay
  /\ \A s \in running : link[s] \in {"connected", "dangling"} => beat[s] # Absent /\ beat[s] < Heartbeat
  /\ stale' = stale + 1
  /\ registry' = [s \in Servers |-> Older(registry[s], Oldest)]
  /\ attempt' = [s \in Servers |-> IF s \in running THEN Older(attempt[s], Reconnect) ELSE 0]
  /\ beat' = [s \in Servers |-> Older(beat[s], Heartbeat)]
  /\ wire' = [s \in Servers |-> Older(wire[s], Delay)]
  /\ since' = [s \in Servers |-> Older(since[s], Delay + 1)]
  /\ UNCHANGED <<running, link, crashes>>

Next ==
  \/ \E s \in Servers : StartServer(s) \/ StopServer(s) \/ Register(s)
  \/ \E s \in Servers, event \in {"connect", "disconnect", "none"} : AdvertiserUpdate(s, event)
  \/ AnswerQuery \/ EndTurn \/ RestartDirectory \/ Tick

(* A broken link is noticed, the directory's address resolves and an       *)
(* attempt is answered in the end, and time and the turns go on.           *)
Fairness ==
  /\ SF_vars(Tick) /\ WF_vars(EndTurn)
  /\ \A s \in Servers :
       /\ WF_vars(Register(s)) /\ SF_vars(AdvertiserUpdate(s, "none") /\ link'[s] # "none")
       /\ SF_vars(AdvertiserUpdate(s, "connect")) /\ WF_vars(link[s] = "dangling" /\ AdvertiserUpdate(s, "disconnect"))

Spec == Init /\ [][Next]_vars /\ Fairness

-----------------------------------------------------------------------------
(* ---- Properties ------------------------------------------------------- *)
Ages(most) == {Absent} \cup 0..most
TypeOK ==
  /\ registry \in [Servers -> Ages(Oldest)] /\ stale \in 0..TurnLength /\ running \subseteq Servers
  /\ link \in [Servers -> {"none", "connecting", "connected", "dangling"}]
  /\ attempt \in [Servers -> 0..Reconnect] /\ beat \in [Servers -> Ages(Heartbeat)]
  /\ wire \in [Servers -> Ages(Delay)] /\ since \in [Servers -> 0..Delay + 1] /\ crashes \in 0..MaxCrashes

(* The directory never holds more registrations than its array has places  *)
(* (SHROOM_DIRECTORY_MAX_ENTRIES).                                         *)
SlotsRespected == Cardinality(Registered) <= Slots

(* A server whose heartbeats arrive is listed all the time, also while     *)
(* others come and go, as long as there are slots for all (main.c:2616).   *)
LiveServersListed ==
  Cardinality(Servers) <= Slots =>
    \A s \in running : link[s] = "connected" /\ since[s] > Delay => s \in Registered

(* After a restart of the directory, or of its network, a server that runs *)
(* is listed again in the end (main.c:2635).                               *)
Relisted ==
  Cardinality(Servers) <= Slots => \A s \in Servers : s \in running ~> s \in Registered \/ s \notin running

=============================================================================
