--------------------------- MODULE ServerDiscovery ---------------------------
(***************************************************************************)
(* The client's search for servers (src/client/server_discovery.c and      *)
(* src/client/server_discovery_state.c): it asks the directory for its     *)
(* list, which comes in chunks, probes every server of the list that has a *)
(* place, and offers those that answer in time.                            *)
(*                                                                         *)
(* Update handles one event; two events of a frame are two updates at the  *)
(* same time.  A frame comes in every unit of time.  Times are ages, as    *)
(* long as a timeout looks at them.  Each search opens sockets of its own, *)
(* so nothing of an earlier search reaches it; an entry of the directory   *)
(* is a server with its players.                                           *)
(***************************************************************************)
EXTENDS Integers, FiniteSets, Sequences, SequencesExt

CONSTANTS
  Servers,          \* the servers there are
  Capacity,         \* the places of a server
  Lists,            \* lists of a directory: sequences of chunks, sets of [server, players]
  ProbeTimeout,     \* SHROOM_DISCOVERY_PROBE_TIMEOUT_MS
  OverallTimeout    \* SHROOM_DISCOVERY_OVERALL_TIMEOUT_MS

DiscoveryParameters ==
  /\ {Capacity, ProbeTimeout, OverallTimeout} \subseteq Nat \ {0}
  /\ \A list \in Lists : list # <<>> /\ \A i \in DOMAIN list : list[i] \subseteq [server : Servers, players : 0..Capacity]

VARIABLES
  phase, elapsed,
  candidates,    \* the state of the probe of each server of the list
  full,          \* full_server_count > 0
  directory,     \* the connection to the directory: "closed", "connecting", "asked"
  chunks,        \* the chunks of its list still to come
  listed,        \* what the list says
  probes,        \* the connection to each candidate
  players,       \* the players of each server
  updated        \* a frame came in this unit of time

vars == <<phase, elapsed, candidates, full, directory, chunks, listed, probes, players, updated>>

Earlier(a, b) == IF a < b THEN a ELSE b
Searching == phase \in {"directory", "probing"}
Link(state, told) == [state |-> state, told |-> told]
Closed == [s \in Servers |-> Link("closed", 0)]
Unknown == [status |-> "none", probed |-> 0, latency |-> 0]

Init ==
  /\ phase = "idle" /\ elapsed = 0 /\ full = FALSE /\ directory = "closed" /\ chunks = <<>> /\ listed = {}
  /\ candidates = [s \in Servers |-> Unknown] /\ probes = Closed
  /\ players = [s \in Servers |-> 0] /\ updated = FALSE

-----------------------------------------------------------------------------
(* ---- The state of a search (server_discovery_state.c) ----------------- *)
(* found is what an event leaves: phase, candidates, full, directory,      *)
(* chunks, listed, probes.                                                 *)
Now == [phase |-> phase, candidates |-> candidates, full |-> full, directory |-> directory, chunks |-> chunks,
        listed |-> listed, probes |-> probes]

MaybeFinish(found) ==
  IF found.phase = "probing" /\ \A s \in Servers : found.candidates[s].status # "pending"
  THEN [found EXCEPT !.phase = "complete"] ELSE found

Judged(found, s, status) ==
  IF found.phase = "probing" /\ found.candidates[s].status = "pending"
  THEN [found EXCEPT !.candidates[s].status = status] ELSE found
MarkUnavailable(found, s) == MaybeFinish(Judged(found, s, "unavailable"))

FailDirectory(found) ==
  [found EXCEPT !.phase = IF @ = "directory" THEN "failed" ELSE @, !.directory = "closed"]

(* AddDirectoryEntry, NormalizeEntry: a full server only counts.           *)
Free(entries) == {entry.server : entry \in {e \in entries : e.players < Capacity}}
AddEntries(found, entries) ==
  [found EXCEPT
     !.full = @ \/ \E entry \in entries : entry.players = Capacity,
     !.candidates = [s \in Servers |-> IF s \in Free(entries) /\ @[s].status = "none"
                                       THEN [@[s] EXCEPT !.status = "pending"] ELSE @[s]],
     !.listed = @ \cup entries]

(* StartCandidateProbes: all at once; an address may be of no use.         *)
StartProbes(found, useless) ==
  MaybeFinish([found EXCEPT
    !.directory = "closed",
    !.candidates = [s \in Servers |-> IF @[s].status = "pending" /\ s \in useless
                                      THEN [@[s] EXCEPT !.status = "unavailable"] ELSE @[s]],
    !.probes = [s \in Servers |-> IF found.candidates[s].status = "pending" /\ s \notin useless
                                  THEN Link("connecting", 0) ELSE Link("closed", 0)]])

(* ShroomServerDiscoveryStateIngestDirectory.                              *)
IngestDirectory ==
  LET taken == [AddEntries(Now, Head(chunks)) EXCEPT !.chunks = Tail(chunks)]
      pending == {s \in Servers : taken.candidates[s].status = "pending"}
  IN  IF elapsed >= OverallTimeout THEN {[Now EXCEPT !.chunks = Tail(chunks)]}
      ELSE IF Len(chunks) > 1 THEN {taken}
      ELSE IF pending = {} THEN {[taken EXCEPT !.phase = "complete"]}
      ELSE {StartProbes([taken EXCEPT !.phase = "probing"], useless) : useless \in SUBSET pending}

(* ShroomServerDiscoveryStateAcceptProbe; the answer ends the connection.  *)
AcceptProbe(s, told) ==
  MaybeFinish([Judged(Now, s, IF told < Capacity THEN "reachable" ELSE "unavailable") EXCEPT
                 !.candidates[s].latency = IF told < Capacity THEN candidates[s].probed ELSE @,
                 !.probes[s] = Link("closed", 0)])

(* Slip: the directory may take for ever.                                  *)
StateUpdateOfProbes(found) ==
  IF found.phase # "probing" THEN found
  ELSE MaybeFinish([found EXCEPT !.candidates =
         [s \in Servers |-> IF @[s].status = "pending" /\ elapsed >= OverallTimeout
                            THEN [@[s] EXCEPT !.status = "unavailable"] ELSE @[s]]])

(* ShroomServerDiscoveryStateUpdate.                                       *)
LateProbe(candidate) ==
  candidate.status = "pending" /\ (candidate.probed >= ProbeTimeout \/ elapsed >= OverallTimeout)
StateUpdate(found) ==
  IF found.phase = "directory" /\ elapsed >= OverallTimeout THEN [found EXCEPT !.phase = "failed"]
  ELSE IF found.phase # "probing" THEN found
  ELSE MaybeFinish([found EXCEPT !.candidates =
         [s \in Servers |-> IF LateProbe(@[s]) THEN [@[s] EXCEPT !.status = "unavailable"] ELSE @[s]]])

CleanupTransport(found) == [found EXCEPT !.directory = "closed", !.chunks = <<>>, !.probes = Closed]

-----------------------------------------------------------------------------
(* ---- Operations of the client ----------------------------------------- *)
Becomes(found) ==
  /\ phase' = found.phase /\ candidates' = found.candidates /\ full' = found.full /\ directory' = found.directory
  /\ chunks' = found.chunks /\ listed' = found.listed /\ probes' = found.probes

Fresh == [CleanupTransport(Now) EXCEPT !.candidates = [s \in Servers |-> Unknown], !.full = FALSE, !.listed = {}]

Begin ==
  /\ ~Searching
  /\ \/ Becomes([Fresh EXCEPT !.phase = "directory", !.directory = "connecting"])
     \/ Becomes([Fresh EXCEPT !.phase = "failed"])
  /\ elapsed' = 0 /\ updated' = FALSE /\ UNCHANGED players

Cancel ==
  /\ Searching
  /\ \/ Becomes([CleanupTransport(Now) EXCEPT !.phase = "cancelled"])
     \/ Becomes([Fresh EXCEPT !.phase = "idle"])
  /\ UNCHANGED <<elapsed, players, updated>>

(* ShroomServerDiscoveryUpdate with one event, then the timeouts, and the  *)
(* sockets closed when the search is over.                                 *)
Update(outcomes) ==
  /\ Searching
  /\ \E outcome \in outcomes :
       LET found == StateUpdate(outcome)
       IN  Becomes(IF found.phase \in {"directory", "probing"} THEN found ELSE CleanupTransport(found))
  /\ updated' = TRUE /\ UNCHANGED <<elapsed, players>>

QuietFrame == Update({Now})
DirectoryConnected ==
  directory = "connecting" /\ Update({FailDirectory(Now)} \cup {[Now EXCEPT !.directory = "asked", !.chunks = list] : list \in Lists})
DirectoryAnswered == directory = "asked" /\ chunks # <<>> /\ Update(IngestDirectory)
DirectoryLost == directory # "closed" /\ Update({FailDirectory(Now)})
ProbeConnected(s) == probes[s].state = "connecting" /\ Update({[Now EXCEPT !.probes[s].state = "asked"], MarkUnavailable(Now, s)})
ProbeAnswered(s, told) == probes[s] = Link("answered", told) /\ Update({AcceptProbe(s, told)})
ProbeLost(s) == probes[s].state # "closed" /\ Update({[MarkUnavailable(Now, s) EXCEPT !.probes[s] = Link("closed", 0)]})

-----------------------------------------------------------------------------
(* ---- The game servers and time ---------------------------------------- *)
(* SendServerProbeResponse, with CountAdvertisedPlayers of that moment.    *)
ServerAnswers(s) ==
  /\ probes[s].state = "asked" /\ probes' = [probes EXCEPT ![s] = Link("answered", players[s])]
  /\ UNCHANGED <<phase, elapsed, candidates, full, directory, chunks, listed, players, updated>>

PlayersChange(s) ==
  /\ players' = [players EXCEPT ![s] = Capacity - @]
  /\ UNCHANGED <<phase, elapsed, candidates, full, directory, chunks, listed, probes, updated>>

Tick ==
  /\ Searching /\ updated
  /\ elapsed' = Earlier(elapsed + 1, OverallTimeout) /\ updated' = FALSE
  /\ candidates' = [s \in Servers |-> IF candidates[s].status = "pending" /\ phase = "probing"
                                      THEN [candidates[s] EXCEPT !.probed = Earlier(@ + 1, ProbeTimeout + 1)] ELSE candidates[s]]
  /\ UNCHANGED <<phase, full, directory, chunks, listed, probes, players>>

Next ==
  \/ Begin \/ Cancel \/ QuietFrame \/ DirectoryConnected \/ DirectoryAnswered \/ DirectoryLost \/ Tick
  \/ \E s \in Servers : ProbeConnected(s) \/ ProbeLost(s) \/ ServerAnswers(s) \/ PlayersChange(s)
  \/ \E s \in Servers, told \in 0..Capacity : ProbeAnswered(s, told)

(* Frames come and time passes.                                            *)
Fairness == WF_vars(QuietFrame) /\ WF_vars(Tick)
Spec == Init /\ [][Next]_vars /\ Fairness

-----------------------------------------------------------------------------
(* ---- Properties ------------------------------------------------------- *)

(* Every search ends by itself: an unreachable directory, a list that      *)
(* stops half way and servers that never answer cannot keep it going       *)
(* (server_discovery_state.c:191).                                         *)
SearchEnds == Searching ~> ~Searching

=============================================================================
