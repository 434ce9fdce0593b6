------------------------ MODULE ServerDirectoryProofs ------------------------
(***************************************************************************)
(* A server whose heartbeats arrive is never dropped from a directory that *)
(* has a place for it: an argument about ages, for any times that leave    *)
(* room for a heartbeat, its way and a turn of the directory.              *)
(***************************************************************************)
EXTENDS ServerDirectory, FiniteSetTheorems, TLAPS

(* A heartbeat of age w is on its way, the last one is b old, and the      *)
(* registration, of age r, tells of that one if it arrived and else of the *)
(* one before; a connection that is d old may still wait for its first.    *)
Listed(r, b, w, d) ==
  /\ b \in 0..Heartbeat
  /\ w # Absent => w = b
  /\ \/ w = Absent /\ r # Absent /\ r <= b + TurnLength
     \/ w # Absent /\ d = b
     \/ w # Absent /\ r # Absent /\ r <= Heartbeat + b + TurnLength

HeartbeatsCount ==
  \A s \in Servers : link[s] = "connected" =>
    Listed(registry[s], beat[s], wire[s], since[s])

IInv ==
  /\ TypeOK /\ SlotsRespected
  /\ \A s \in Servers : link[s] = "connected" => s \in running
  /\ Cardinality(Servers) <= Slots => HeartbeatsCount

-----------------------------------------------------------------------------
(* The intervals of main.c and directory_registry.h as numbers.            *)
LEMMA Times ==
  /\ Slots \in Nat /\ EntryTtl \in Nat /\ Heartbeat \in Nat /\ Reconnect \in Nat /\ TurnLength \in Nat
  /\ Heartbeat > 0 /\ Reconnect > 0 /\ TurnLength > 0 /\ Delay \in Nat /\ MaxCrashes \in Nat
  /\ Delay < Heartbeat /\ Heartbeat + Delay + TurnLength < EntryTtl
  /\ Oldest \in Nat /\ Absent = -1
BY DirectoryParameters DEF Oldest, Absent

(* A registry with no more registrations than before is within its places, *)
(* and so is one with one more where there was room for it.                *)
LEMMA SlotsKept ==
  ASSUME SlotsRespected, NEW s \in Servers,
         \A q \in Servers \ {s} : registry'[q] # Absent => registry[q] # Absent,
         \/ registry'[s] # Absent => registry[s] # Absent
         \/ Cardinality(Registered) < Slots
  PROVE  SlotsRespected'
<1>1. /\ IsFiniteSet(Registered) /\ IsFiniteSet(Registered') /\ IsFiniteSet(Registered \cup {s})
      /\ Cardinality(Registered) \in Nat /\ Cardinality(Registered') \in Nat
      /\ Cardinality(Registered \cup {s}) <= Cardinality(Registered) + 1
      /\ Cardinality(Registered \cup {s}) \in Nat
  <2>1. IsFiniteSet(Registered) /\ IsFiniteSet(Registered')
    BY DirectoryParameters, FS_Subset DEF Registered
  <2>2. /\ IsFiniteSet(Registered \cup {s})
        /\ Cardinality(Registered \cup {s}) = IF s \in Registered THEN Cardinality(Registered)
                                              ELSE Cardinality(Registered) + 1
    BY <2>1, FS_AddElement
  <2> QED BY <2>1, <2>2, FS_CardinalityType
<1>2. CASE registry'[s] # Absent => registry[s] # Absent
  <2>1. Registered' \subseteq Registered
    BY <1>2 DEF Registered
  <2> QED BY <1>1, <2>1, Times, FS_Subset DEF SlotsRespected
<1>3. CASE Cardinality(Registered) < Slots
  <2>1. Registered' \subseteq Registered \cup {s}
    BY DEF Registered
  <2>2. Cardinality(Registered') <= Cardinality(Registered \cup {s})
    BY <1>1, <2>1, FS_Subset
  <2> QED BY <1>1, <1>3, <2>2, Times DEF SlotsRespected
<1> QED BY <1>2, <1>3

-----------------------------------------------------------------------------
(* A server starts (DirectoryAdvertiserInit) or stops.                     *)
LEMMA StartStep ==
  ASSUME IInv, NEW s \in Servers, StartServer(s)
  PROVE  IInv'
<1>1. PICK to \in {"none", "connecting"} : link' = [link EXCEPT ![s] = to]
  BY DEF StartServer
<1>2. TypeOK'
  BY <1>1, Times DEF IInv, TypeOK, StartServer, Ages
<1>3. link[s] # "connected"
  BY DEF IInv, StartServer
<1>4. \A q \in Servers \ {s} : link'[q] = link[q] /\ beat'[q] = beat[q]
  BY <1>1 DEF IInv, TypeOK, StartServer
<1>5. link'[s] # "connected"
  BY <1>1 DEF IInv, TypeOK
<1>6. HeartbeatsCount => HeartbeatsCount'
  BY <1>4, <1>5 DEF HeartbeatsCount, StartServer
<1> QED BY <1>2, <1>4, <1>5, <1>6 DEF IInv, StartServer, SlotsRespected, Registered

(* A server that stops has no connection.                                 *)
LEMMA StopStep ==
  ASSUME IInv, NEW s \in Servers, StopServer(s)
  PROVE  IInv'
<1>1. TypeOK'
  BY Times DEF IInv, TypeOK, StopServer, Ages
<1>2. /\ link'[s] # "connected"
      /\ \A q \in Servers \ {s} : /\ link'[q] = link[q] /\ beat'[q] = beat[q] /\ wire'[q] = wire[q]
                                  /\ since'[q] = since[q]
  BY DEF IInv, TypeOK, StopServer
<1>3. HeartbeatsCount => HeartbeatsCount'
  BY <1>2 DEF HeartbeatsCount, StopServer
<1> QED BY <1>1, <1>2, <1>3 DEF IInv, StopServer, SlotsRespected, Registered

(* The advertiser's turn: the heartbeat before the one it sends arrived,   *)
(* because a heartbeat travels less than the interval of them.             *)
LEMMA AdvertiserStep ==
  ASSUME IInv, NEW s \in Servers, NEW event \in {"connect", "disconnect", "none"}, AdvertiserUpdate(s, event)
  PROVE  IInv'
<1> DEFINE now == IF event = "connect" THEN "connected" ELSE IF event = "disconnect" THEN "none" ELSE link[s]
           last == IF event = "connect" THEN Absent ELSE beat[s]
           again == now = "none" /\ attempt[s] >= Reconnect
           due == now \in {"connected", "dangling"} /\ (last = Absent \/ last >= Heartbeat)
<1>1. /\ s \in running /\ Happened(s, event)
      /\ \E to \in IF again THEN {"none", "connecting"} ELSE {now} : link' = [link EXCEPT ![s] = to]
      /\ attempt' = IF again THEN [attempt EXCEPT ![s] = 0] ELSE attempt
      /\ beat' = [beat EXCEPT ![s] = IF due THEN 0 ELSE last]
      /\ wire' = IF due /\ now = "connected" THEN [wire EXCEPT ![s] = 0] ELSE wire
      /\ since' = IF event = "connect" THEN [since EXCEPT ![s] = 0] ELSE since
      /\ UNCHANGED <<registry, stale, running, crashes>>
  BY DEF AdvertiserUpdate
<1>2. PICK to \in IF again THEN {"none", "connecting"} ELSE {now} : link' = [link EXCEPT ![s] = to]
  BY <1>1
<1>3. TypeOK /\ now \in {"none", "connecting", "connected", "dangling"} /\ last \in Ages(Heartbeat)
  BY DEF IInv, TypeOK, Ages
<1>4. to \in {"none", "connecting", "connected", "dangling"} /\ (to = "connected" => now = "connected")
  BY <1>2, <1>3
<1>5. /\ link' \in [Servers -> {"none", "connecting", "connected", "dangling"}]
      /\ attempt' \in [Servers -> 0..Reconnect] /\ beat' \in [Servers -> Ages(Heartbeat)]
      /\ wire' \in [Servers -> Ages(Delay)] /\ since' \in [Servers -> 0..Delay + 1]
  <2> HIDE DEF now, last, again, due
  <2>1. beat' \in [Servers -> Ages(Heartbeat)]
    BY <1>1, <1>3, Times DEF TypeOK, Ages
  <2>2. attempt' \in [Servers -> 0..Reconnect] /\ since' \in [Servers -> 0..Delay + 1]
    BY <1>1, Times DEF IInv, TypeOK
  <2>3. wire' \in [Servers -> Ages(Delay)]
    BY <1>1, Times DEF IInv, TypeOK, Ages
  <2> QED BY <1>2, <1>3, <1>4, <2>1, <2>2, <2>3 DEF TypeOK
<1>6. TypeOK'
  BY <1>1, <1>5 DEF IInv, TypeOK
<1>7. \A q \in Servers \ {s} : /\ link'[q] = link[q] /\ beat'[q] = beat[q] /\ wire'[q] = wire[q]
                               /\ since'[q] = since[q]
  BY <1>1, <1>2, <1>3 DEF TypeOK
<1>8. ASSUME HeartbeatsCount, link'[s] = "connected"
      PROVE  Listed(registry[s], beat'[s], wire'[s], since'[s])
  <2>1. now = "connected" /\ to = now
    BY <1>2, <1>3, <1>4, <1>8 DEF TypeOK
  <2>2. CASE event = "connect"
    <3>1. due
      BY <2>1, <2>2
    <3>2. beat'[s] = 0 /\ wire'[s] = 0 /\ since'[s] = 0
      BY <1>1, <1>3, <2>1, <2>2, <3>1 DEF TypeOK
    <3> QED BY <3>2, Times DEF Listed
  <2>3. CASE event # "connect"
    <3>1. link[s] = "connected" /\ last = beat[s] /\ Listed(registry[s], beat[s], wire[s], since[s])
      BY <1>8, <2>1, <2>3 DEF HeartbeatsCount
    <3>2. since'[s] = since[s] /\ registry[s] \in Ages(Oldest)
      BY <1>1, <1>3, <2>3 DEF TypeOK
    <3>3. CASE due
      <4>1. beat[s] = Heartbeat
        BY <3>1, <3>3, Times DEF Listed
      <4>2. wire[s] = Absent
        BY <1>3, <3>1, <4>1, Times DEF TypeOK, Ages, Listed
      <4>3. beat'[s] = 0 /\ wire'[s] = 0
        BY <1>1, <1>3, <2>1, <3>3 DEF TypeOK
      <4> QED BY <3>1, <3>2, <4>1, <4>2, <4>3, Times DEF Listed, Ages
    <3>4. CASE ~due
      <4>1. beat'[s] = beat[s] /\ wire'[s] = wire[s]
        BY <1>1, <1>3, <3>1, <3>4 DEF TypeOK
      <4> QED BY <3>1, <3>2, <4>1
    <3> QED BY <3>3, <3>4
  <2> QED BY <2>2, <2>3
<1> HIDE DEF now, last, again, due
<1>9. HeartbeatsCount => HeartbeatsCount'
  BY <1>1, <1>7, <1>8 DEF HeartbeatsCount
<1>10. \A q \in Servers : link'[q] = "connected" => q \in running'
  BY <1>1, <1>7 DEF IInv
<1> QED BY <1>1, <1>6, <1>9, <1>10 DEF IInv, SlotsRespected, Registered

(* A heartbeat arrives: its endpoint is registered as of this turn, or is  *)
(* registered as of a later time already.                                  *)
LEMMA RegisterStep ==
  ASSUME IInv, NEW s \in Servers, Register(s)
  PROVE  IInv'
<1>1. /\ wire[s] # Absent /\ wire' = [wire EXCEPT ![s] = Absent]
      /\ UNCHANGED <<stale, running, link, attempt, beat, since, crashes>>
      /\ \/ registry' = registry /\ s \in Registered /\ ~(stale <= registry[s])
         \/ registry' = registry /\ s \notin Registered /\ ~(Cardinality(Registered) < Slots)
         \/ /\ registry' = [registry EXCEPT ![s] = stale]
            /\ s \in Registered \/ Cardinality(Registered) < Slots
  BY DEF Register
<1>2. /\ TypeOK /\ registry[s] \in Ages(Oldest) /\ stale \in 0..TurnLength /\ 0..TurnLength \subseteq Ages(Oldest)
      /\ wire[s] \in 0..Delay
  BY <1>1, Times DEF IInv, TypeOK, Ages, Oldest
<1>3. TypeOK'
  BY <1>1, <1>2, Times DEF TypeOK, Ages
<1>4. /\ \A q \in Servers \ {s} : registry'[q] = registry[q] /\ wire'[q] = wire[q]
      /\ wire'[s] = Absent
  BY <1>1, <1>2 DEF TypeOK
<1>5. SlotsRespected'
  BY <1>1, <1>4, SlotsKept DEF IInv, Registered
<1>6. ASSUME Cardinality(Servers) <= Slots
      PROVE  registry'[s] # Absent /\ registry'[s] <= TurnLength
  <2>1. s \notin Registered => Cardinality(Registered) < Slots
    <3>1. s \notin Registered => Registered \subseteq Servers /\ Registered # Servers
      BY DEF Registered
    <3> QED BY <1>6, <3>1, Times, DirectoryParameters, FS_Subset, FS_CardinalityType
  <2>2. CASE registry' = registry /\ s \in Registered /\ ~(stale <= registry[s])
    BY <1>2, <2>2, Times DEF Ages, Registered
  <2>3. CASE registry' = [registry EXCEPT ![s] = stale]
    BY <1>2, <2>3, Times DEF TypeOK
  <2> QED BY <1>1, <2>1, <2>2, <2>3
<1>7. ASSUME Cardinality(Servers) <= Slots, HeartbeatsCount
      PROVE  HeartbeatsCount'
  <2>1. link[s] = "connected" => Listed(registry'[s], beat[s], wire'[s], since[s])
    <3>1. registry'[s] \in Ages(Oldest)
      BY <1>3 DEF TypeOK
    <3> QED BY <1>4, <1>6, <1>7, <3>1, Times DEF HeartbeatsCount, Listed, Ages
  <2> QED BY <1>1, <1>4, <1>7, <2>1 DEF HeartbeatsCount
<1> QED BY <1>1, <1>3, <1>5, <1>7 DEF IInv

(* The registrations that go when a list is sent or a turn ends are not    *)
(* those of servers whose heartbeats arrive (EvictExpired).                *)
LEMMA EvictStep ==
  ASSUME IInv, registry' = EvictExpired, stale' \in {0, stale},
         UNCHANGED <<running, link, attempt, beat, wire, since, crashes>>
  PROVE  IInv'
<1>1. \A s \in Servers : registry'[s] = IF Expired(registry[s]) THEN Absent ELSE registry[s]
  BY DEF EvictExpired
<1>2. TypeOK'
  BY Times DEF IInv, TypeOK, EvictExpired, Ages
<1>3. SlotsRespected'
  <2>1. CASE Servers = {}
    BY <2>1 DEF IInv, SlotsRespected, Registered
  <2>2. CASE Servers # {}
    <3>1. PICK s \in Servers : TRUE
      BY <2>2
    <3> QED BY <1>1, <3>1, SlotsKept DEF IInv
  <2> QED BY <2>1, <2>2
<1>4. HeartbeatsCount => HeartbeatsCount'
  <2>1. ASSUME NEW s \in Servers, Listed(registry[s], beat[s], wire[s], since[s])
        PROVE  Listed(registry'[s], beat[s], wire[s], since[s])
    <3>1. registry[s] \in Ages(Oldest) /\ wire[s] \in Ages(Delay) /\ stale \in Nat
      BY Times DEF IInv, TypeOK
    <3>2. wire[s] # Absent => wire[s] \in Nat /\ wire[s] <= Delay
      BY <3>1 DEF Ages
    <3>3. registry[s] # Absent /\ registry[s] <= Heartbeat + Delay + TurnLength => ~Expired(registry[s])
      BY <3>1, Times DEF Ages, Expired
    <3>4. CASE registry[s] # Absent /\ registry[s] <= Heartbeat + Delay + TurnLength
      BY <1>1, <2>1, <3>3, <3>4
    <3>5. CASE wire[s] # Absent /\ since[s] = beat[s]
      BY <2>1, <3>5 DEF Listed
    <3> QED BY <2>1, <3>1, <3>2, <3>4, <3>5, Times DEF Listed, Ages
  <2> QED BY <2>1 DEF HeartbeatsCount
<1> QED BY <1>2, <1>3, <1>4 DEF IInv

(* The directory dies: every link it had dangles.                          *)
LEMMA RestartStep ==
  ASSUME IInv, RestartDirectory
  PROVE  IInv'
<1>1. TypeOK'
  BY Times DEF IInv, TypeOK, RestartDirectory, Ages
<1>2. Registered' = {}
  BY DEF RestartDirectory, Registered
<1>3. \A s \in Servers : link'[s] # "connected"
  BY DEF RestartDirectory
<1> QED BY <1>1, <1>2, <1>3, Times, FS_EmptySet DEF IInv, SlotsRespected, HeartbeatsCount

(* Time passes for the heartbeat, its way and the registration alike.      *)
LEMMA TickStep ==
  ASSUME IInv, Tick
  PROVE  IInv'
<1>1. TypeOK'
  <2>1. stale' \in 0..TurnLength
    BY Times DEF IInv, TypeOK, Tick
  <2>2. ASSUME NEW most \in Nat, NEW age \in Ages(most)
        PROVE  Older(age, most) \in Ages(most)
    BY <2>2, Times DEF Ages, Older
  <2>3. ASSUME NEW most \in Nat, NEW age \in 0..most
        PROVE  Older(age, most) \in 0..most
    BY <2>3, Times DEF Older
  <2>4. Delay + 1 \in Nat
    BY Times
  <2>5. registry' \in [Servers -> Ages(Oldest)] /\ beat' \in [Servers -> Ages(Heartbeat)]
        /\ wire' \in [Servers -> Ages(Delay)]
    BY <2>2, Times DEF IInv, TypeOK, Tick
  <2>6. since' \in [Servers -> 0..Delay + 1] /\ attempt' \in [Servers -> 0..Reconnect]
    BY <2>3, <2>4, Times DEF IInv, TypeOK, Tick
  <2> QED BY <2>1, <2>5, <2>6 DEF IInv, TypeOK, Tick
<1>2. \A s \in Servers : registry'[s] = Older(registry[s], Oldest)
  BY DEF Tick
<1>3. SlotsRespected'
  <2>1. \A s \in Servers : registry'[s] # Absent => registry[s] # Absent
    BY <1>2 DEF Older
  <2>2. Registered' \subseteq Registered /\ IsFiniteSet(Registered)
    BY <2>1, DirectoryParameters, FS_Subset DEF Registered
  <2> QED BY <2>2, Times, FS_Subset, FS_CardinalityType DEF IInv, SlotsRespected
<1>4. HeartbeatsCount => HeartbeatsCount'
  <2>1. ASSUME NEW s \in Servers, link[s] = "connected", Listed(registry[s], beat[s], wire[s], since[s])
        PROVE  Listed(registry'[s], beat'[s], wire'[s], since'[s])
    <3>1. /\ beat[s] \in Nat /\ beat[s] < Heartbeat /\ beat'[s] = beat[s] + 1
      BY <2>1, Times DEF IInv, Tick, Listed, Older
    <3>2. /\ wire[s] = Absent => wire'[s] = Absent
          /\ wire[s] # Absent => wire[s] < Delay /\ wire'[s] = wire[s] + 1 /\ wire'[s] # Absent
      BY Times DEF IInv, TypeOK, Tick, Ages, Older
    <3>3. registry[s] # Absent => registry'[s] # Absent /\ registry'[s] <= registry[s] + 1
      BY <1>2, Times DEF IInv, TypeOK, Ages, Older
    <3>4. since[s] <= Delay => since'[s] = since[s] + 1
      BY Times DEF IInv, TypeOK, Tick, Older, Absent
    <3>5. /\ registry[s] \in Ages(Oldest) /\ registry'[s] \in Ages(Oldest) /\ wire[s] \in Ages(Delay)
          /\ since[s] \in 0..Delay + 1
      BY <1>1 DEF IInv, TypeOK
    <3>6. CASE wire[s] = Absent
      BY <2>1, <3>1, <3>2, <3>3, <3>5, <3>6, Times DEF Listed, Ages
    <3>7. CASE wire[s] # Absent
      <4>1. wire[s] = beat[s] /\ wire'[s] = beat'[s] /\ wire[s] < Delay
        BY <2>1, <3>1, <3>2, <3>7 DEF Listed
      <4>2. CASE since[s] = beat[s]
        BY <3>1, <3>2, <3>4, <3>7, <4>1, <4>2, Times DEF Listed
      <4>3. CASE registry[s] # Absent /\ registry[s] <= Heartbeat + beat[s] + TurnLength
        BY <3>1, <3>2, <3>3, <3>5, <3>7, <4>1, <4>3, Times DEF Listed, Ages
      <4> QED BY <2>1, <3>7, <4>2, <4>3 DEF Listed
    <3> QED BY <3>6, <3>7
  <2> QED BY <2>1 DEF HeartbeatsCount, Tick
<1> QED BY <1>1, <1>3, <1>4 DEF IInv, Tick

(* An empty directory, and no server that runs.                            *)
LEMMA Initially == Init => IInv
<1> SUFFICES ASSUME Init PROVE IInv
  OBVIOUS
<1>1. TypeOK
  BY Times DEF Init, TypeOK, Ages
<1>2. Registered = {}
  BY DEF Init, Registered
<1> QED BY <1>1, <1>2, Times, FS_EmptySet DEF Init, IInv, SlotsRespected, HeartbeatsCount

(* Every step keeps the invariant, one lemma per step.                     *)
LEMMA Inductive == IInv /\ [Next]_vars => IInv'
<1>1. ASSUME IInv, UNCHANGED vars PROVE IInv'
  BY <1>1 DEF vars, IInv, TypeOK, SlotsRespected, Registered, HeartbeatsCount
<1>2. ASSUME IInv, AnswerQuery \/ EndTurn PROVE IInv'
  BY <1>2, EvictStep DEF AnswerQuery, EndTurn
<1> QED BY <1>1, <1>2, StartStep, StopStep, AdvertiserStep, RegisterStep, RestartStep, TickStep DEF Next

(* Whatever the servers, the directory and the network do, IInv holds.     *)
THEOREM Invariance == Spec => []IInv
BY Initially, Inductive, PTL DEF Spec

(* The ages and links stay within their ranges.                            *)
THEOREM TypeCorrect == Spec => []TypeOK
<1>1. IInv => TypeOK
  BY DEF IInv
<1> QED BY <1>1, Invariance, PTL

(* The array of registrations is never overrun                             *)
(* (ShroomDirectoryRegistryRegister).                                      *)
THEOREM SlotsHold == Spec => []SlotsRespected
<1>1. IInv => SlotsRespected
  BY DEF IInv
<1> QED BY <1>1, Invariance, PTL

(* A server whose heartbeats arrive is listed all the time                 *)
(* (RunDirectoryServer, ShroomDirectoryRegistryRegister, EvictExpired).    *)
THEOREM LiveServersAreListed == Spec => []LiveServersListed
<1>1. ASSUME IInv, Cardinality(Servers) <= Slots, NEW s \in running, link[s] = "connected", since[s] > Delay
      PROVE  s \in Registered
  <2>1. s \in Servers /\ wire[s] \in Ages(Delay) /\ since[s] \in 0..Delay + 1
    BY <1>1 DEF IInv, TypeOK
  <2>2. Listed(registry[s], beat[s], wire[s], since[s])
    BY <1>1, <2>1 DEF IInv, HeartbeatsCount
  <2> QED BY <1>1, <2>1, <2>2, Times DEF Listed, Ages, Registered
<1>2. IInv => LiveServersListed
  BY <1>1 DEF LiveServersListed
<1> QED BY <1>2, Invariance, PTL

=============================================================================
