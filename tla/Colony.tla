------------------------------- MODULE Colony --------------------------------
(***************************************************************************)
(* The colonies of one lobby's world (src/shared/sim.c): the array of      *)
(* pieces that players and bots live in.  A colony is one primary piece    *)
(* (piece = 0) and the fragments that splits have thrown off; a slot of    *)
(* the array is taken, cleared and taken again by spawns, splits, merges,  *)
(* meals and departures, while the server's sessions keep a pointer to the *)
(* slot of their primary.                                                  *)
(*                                                                         *)
(* Positions are not modelled: which pieces overlap in a tick is chosen    *)
(* freely.  Masses are whole units of the mass a colony starts with,       *)
(* fractions dropped but never below one; timers are ticks; and of the     *)
(* power-ups only the shield matters: a shielded piece is one that is not  *)
(* met.  What a dead slot keeps is never read before the slot is           *)
(* overwritten, so it is modelled as cleared.  Player ids are never reused *)
(* by the server, so an id that returns here stands for a fresh one.       *)
(***************************************************************************)
EXTENDS Integers, FiniteSets, SequencesExt

CONSTANTS
  People, Bots,      \* player ids
  NoOne,             \* player id 0
  Capacity,          \* SHROOM_MAX_PLAYER_ENTITIES: slots of the array
  MaxPieces,         \* SHROOM_MAX_SPLIT_PIECES: pieces of one colony
  SplitMass,         \* SHROOM_SPLIT_MIN_MASS, in starting masses
  MaxMass,           \* SHROOM_MAX_PLAYER_MASS, in starting masses
  Protection,        \* SHROOM_PLAYER_SPAWN_PROTECTION_SECONDS, in ticks
  SplitProtection,   \* SHROOM_SPLIT_PROTECTION_SECONDS, in ticks
  MergeDelay,        \* SHROOM_SPLIT_MERGE_SECONDS, in ticks
  Lives,             \* UINT8_MAX: life generations
  MaxMeets,          \* bound: pairs of pieces that meet in one tick
  MaxDeaths          \* bound: deaths of one colony in one round

ColonyParameters ==
  /\ NoOne \notin People \cup Bots /\ People \cap Bots = {}
  /\ Capacity \in Nat /\ MaxPieces \in Nat \ {0} /\ Lives \in Nat \ {0}
  /\ SplitMass \in Nat /\ SplitMass > 1 /\ MaxMass \in Nat /\ SplitMass <= MaxMass
  /\ Protection \in Nat /\ Protection > 1 /\ SplitProtection \in Nat /\ MergeDelay \in Nat
  /\ MaxMeets \in Nat /\ MaxDeaths \in Nat

VARIABLES
  world,     \* [slots, count, deaths]: players, player_count and round_stats
  phase,     \* match_phase
  owner,     \* session->player: the slot each person's session points at, 0 = none
  entered    \* the people whose session has entered the match
vars == <<world, phase, owner, entered>>

Ids == People \cup Bots
Slots == 1..Capacity
StartMass == 1

Piece == [id : Ids \cup {NoOne}, alive : BOOLEAN, mass : 0..MaxMass, piece : 0..(MaxPieces - 1),
          split : BOOLEAN, prot : Nat, merge : Nat, life : 0..Lives]
Cleared == [id |-> NoOne, alive |-> FALSE, mass |-> 0, piece |-> 0,
            split |-> FALSE, prot |-> 0, merge |-> 0, life |-> 0]

Grown(mass, gain) == IF mass + gain > MaxMass THEN MaxMass ELSE mass + gain
NextLife(life) == IF life = Lives THEN 1 ELSE life + 1
SpawnProtection(id) == IF id \in Bots THEN 0 ELSE Protection

Alive(w) == {s \in 1..w.count : w.slots[s].alive}
PiecesOf(w, id) == {s \in Alive(w) : w.slots[s].id = id}
Primaries(w, id) == {s \in PiecesOf(w, id) : w.slots[s].piece = 0}
Least(S) == CHOOSE s \in S : \A t \in S : s <= t
With(w, s, piece) == [w EXCEPT !.slots[s] = piece]

-----------------------------------------------------------------------------
(* Spawning and removing.                                                   *)
Unused(w) == {s \in 1..w.count : ~w.slots[s].alive}
SpawnSlot(w) ==
  IF Unused(w) # {} THEN Least(Unused(w)) ELSE IF w.count < Capacity THEN w.count + 1 ELSE 0
Spawned(w, id) ==
  LET s == SpawnSlot(w)
  IN  [slots  |-> [w.slots EXCEPT ![s] = [Cleared EXCEPT !.id = id, !.alive = TRUE,
                     !.mass = StartMass, !.prot = SpawnProtection(id), !.life = 1]],
       count  |-> IF s > w.count THEN s ELSE w.count,
       deaths |-> [w.deaths EXCEPT ![id] = 0]]

(* Slip: a departure leaves the fragments. *)
EmptiedPrimary(w, id) ==
  [w EXCEPT !.slots = [s \in Slots |-> IF s \in Primaries(w, id) THEN Cleared ELSE w.slots[s]]]
Emptied(w, id) ==
  [w EXCEPT !.slots = [s \in Slots |-> IF s <= w.count /\ w.slots[s].id = id
                                       THEN Cleared ELSE w.slots[s]]]
Shrunk(w) ==
  LET last == CHOOSE c \in 0..w.count : /\ c > 0 => w.slots[c].id # NoOne
                                        /\ \A s \in (c + 1)..w.count : w.slots[s].id = NoOne
  IN  [w EXCEPT !.count = last,
                !.slots = [s \in Slots |-> IF s > last THEN Cleared ELSE w.slots[s]]]
Removed(w, id) == [Shrunk(Emptied(w, id)) EXCEPT !.deaths[id] = 0]

-----------------------------------------------------------------------------
(* Splitting.                                                               *)
CanSplit(w, s) ==
  LET p == w.slots[s]
  IN  /\ p.alive /\ p.mass >= SplitMass
      /\ p.id \notin Bots => ~p.split
      /\ Cardinality(PiecesOf(w, p.id)) < MaxPieces
SplitSlot(w) ==
  LET free == {s \in Unused(w) : w.slots[s].id = NoOne}
  IN  IF free # {} THEN Least(free) ELSE IF w.count < Capacity THEN w.count + 1 ELSE 0

(* 5% of the mass is the price, and the rest is halved.                     *)
AtLeastOne(mass) == IF mass = 0 THEN 1 ELSE mass
Half(mass) == AtLeastOne((95 * mass) \div 200)
Split(w, s) ==
  LET p == w.slots[s]
      t == SplitSlot(w)
      half == Half(p.mass)
  IN  IF ~CanSplit(w, s) \/ t = 0 THEN w
      ELSE [w EXCEPT
        !.count = IF t > w.count THEN t ELSE w.count,
        !.slots = [w.slots EXCEPT
          ![t] = [id |-> p.id, alive |-> TRUE, mass |-> half, split |-> FALSE, life |-> p.life,
                  piece |-> Cardinality(PiecesOf(w, p.id)),
                  prot |-> SplitProtection, merge |-> MergeDelay],
          ![s] = [p EXCEPT !.mass = half, !.split = TRUE, !.prot = SplitProtection,
                           !.merge = IF p.merge = 0 THEN MergeDelay ELSE p.merge]]]

-----------------------------------------------------------------------------
(* Meals.  The first pass of ShroomResolveConsumes decides who is eaten by  *)
(* whom, attackers and targets in the order of their slots, on the world as *)
(* it is before any meal; the second carries the meals out, victims in the  *)
(* order of their slots.                                                    *)
CanConsume(w, a, t) ==
  LET attacker == w.slots[a]
      target == w.slots[t]
  IN  /\ attacker.alive /\ target.alive /\ attacker.id # target.id
      /\ target.prot = 0 /\ attacker.mass >= target.mass
Edible(w) == {pair \in (1..w.count) \X (1..w.count) : CanConsume(w, pair[1], pair[2])}
InScanOrder(p, q) == p[1] < q[1] \/ (p[1] = q[1] /\ p[2] < q[2])
Eaters(meets) ==
  FoldLeft(LAMBDA by, pair : IF by[pair[1]] = 0 /\ by[pair[2]] = 0
                             THEN [by EXCEPT ![pair[2]] = pair[1]] ELSE by,
           [s \in Slots |-> 0], SetToSortSeq(meets, InScanOrder))

Respawned(p) ==
  [p EXCEPT !.alive = TRUE, !.mass = StartMass, !.piece = 0, !.split = FALSE, !.merge = 0,
            !.prot = SpawnProtection(p.id), !.life = NextLife(p.life)]
(* Slip: fragments survive their primary. *)
OrphanedNever(w, v) == {}
Orphaned(w, v) ==   \* the fragments that go with the primary in slot v
  {s \in PiecesOf(w, w.slots[v].id) \ {v} : w.slots[s].piece > 0}
Fed(w, s, mass) ==
  IF w.slots[s].alive THEN [w EXCEPT !.slots[s].mass = Grown(@, (58 * mass) \div 100)] ELSE w
(* Slip: a lost fragment counts as a death. *)
ConsumedCountingAll(w, v, winner) ==
  LET victim == w.slots[v]
      fed == [Fed(w, winner, victim.mass) EXCEPT
                !.deaths = [id \in Ids |-> IF id = victim.id THEN @[id] + 1 ELSE @[id]]]
  IN  IF victim.piece = 0
      THEN [fed EXCEPT !.slots = [s \in Slots |-> IF s = v THEN Respawned(fed.slots[v])
                                        ELSE IF s \in Orphaned(fed, v) THEN Cleared
                                        ELSE fed.slots[s]]]
      ELSE With(fed, v, Cleared)
Consumed(w, v, winner) ==
  LET victim == w.slots[v]
      fed == Fed(w, winner, victim.mass)
  IN  IF victim.piece = 0
      THEN [fed EXCEPT
             !.slots = [s \in Slots |-> IF s = v THEN Respawned(fed.slots[v])
                                        ELSE IF s \in Orphaned(fed, v) THEN Cleared
                                        ELSE fed.slots[s]],
             !.deaths = [id \in Ids |-> IF id = victim.id THEN @[id] + 1 ELSE @[id]]]
      ELSE With(fed, v, Cleared)
Meals(w, meets) ==
  LET by == Eaters(meets)
  IN  FoldLeft(LAMBDA x, v : Consumed(x, v, by[v]), w,
               SetToSortSeq({v \in Slots : by[v] # 0}, <))

-----------------------------------------------------------------------------
(* The rest of a step of the world.                                         *)
Less(n) == IF n = 0 THEN 0 ELSE n - 1
TimersRun(w) ==
  [w EXCEPT !.slots = [s \in Slots |-> IF s \in Alive(w)
     THEN [w.slots[s] EXCEPT !.prot = Less(@), !.merge = Less(@)] ELSE w.slots[s]]]
(* Spores, decay and idling move a mass up or down.                         *)
Drifted(w, s, amount) ==
  IF s \notin Alive(w) THEN w
  ELSE [w EXCEPT !.slots[s].mass = IF amount < 0 THEN AtLeastOne(Less(@)) ELSE Grown(@, amount)]
ForcedSplits(w) ==
  FoldLeft(LAMBDA x, s : IF x.slots[s].id \in Bots /\ x.slots[s].mass >= MaxMass
                         THEN Split(x, s) ELSE x,
           w, SetToSortSeq(1..w.count, <))

PrimaryOf(w, id) == IF Primaries(w, id) = {} THEN 0 ELSE Least(Primaries(w, id))
CanMerge(w, p, s) ==
  /\ p # 0 /\ w.slots[s].alive /\ w.slots[s].piece > 0
  /\ w.slots[p].merge = 0 /\ w.slots[s].merge = 0
Merged(w, s) ==
  LET p == PrimaryOf(w, w.slots[s].id)
  IN  IF CanMerge(w, p, s)
      THEN With([w EXCEPT !.slots[p].mass = Grown(@, w.slots[s].mass)], s, Cleared) ELSE w
Merges(w, near) == FoldLeft(Merged, w, SetToSortSeq(near, <))

(* A new round: each colony starts over in its primary.                     *)
Restarted(w) ==
  LET kept == {s \in Alive(w) : w.slots[s].piece = 0 /\ s = PrimaryOf(w, w.slots[s].id)}
  IN  [w EXCEPT
        !.slots = [s \in Slots |-> IF s \notin Alive(w) THEN w.slots[s]
                     ELSE IF s \in kept THEN Respawned(w.slots[s]) ELSE Cleared],
        !.deaths = [id \in Ids |-> 0]]

-----------------------------------------------------------------------------
(* The operations of the server on a world.                                 *)
Playing == {p \in People : owner[p] # 0}

Join(p) ==
  /\ owner[p] = 0 /\ SpawnSlot(world) # 0
  /\ owner' = [owner EXCEPT ![p] = SpawnSlot(world)]
  /\ world' = Spawned(world, p)
  /\ UNCHANGED <<phase, entered>>

Enter(p) ==
  /\ p \in Playing \ entered
  /\ entered' = entered \cup {p}
  /\ world' = [world EXCEPT !.slots[owner[p]].prot = Protection]
  /\ UNCHANGED <<phase, owner>>

(* A leave, a disconnection, or a vote to spectate carried out.             *)
Depart(p) ==
  /\ p \in Playing
  /\ owner' = [owner EXCEPT ![p] = 0]
  /\ entered' = entered \ {p}
  /\ world' = Removed(world, p)
  /\ UNCHANGED phase

(* An input packet with a split, from a client that controls any piece of   *)
(* its colony.                                                              *)
AskSplit(p, s) ==
  /\ p \in entered \cap Playing /\ s \in PiecesOf(world, p)
  /\ world' = Split(world, s)
  /\ UNCHANGED <<phase, owner, entered>>

(* AdjustLobbyBots adds or removes at most one bot in a tick.               *)
BotToRemove(w) == {s \in Alive(w) : w.slots[s].id \in Bots /\ w.slots[s].piece = 0}
Balanced(w) ==
  {w} \cup {Spawned(w, b) : b \in {c \in Bots : SpawnSlot(w) # 0 /\ PiecesOf(w, c) = {}}}
      \cup {Emptied(w, w.slots[s].id) : s \in {t \in BotToRemove(w) : BotToRemove(w) \subseteq 1..t}}

(* Those who have not entered the match are protected afresh in every tick. *)
RosterProtected(w) ==
  [w EXCEPT !.slots = [s \in Slots |-> IF \E p \in Playing \ entered : owner[p] = s /\ w.slots[s].alive
                                       THEN [w.slots[s] EXCEPT !.prot = Protection] ELSE w.slots[s]]]

Fragments(w) == {s \in Alive(w) : w.slots[s].piece > 0}
Drifts(w) ==
  {<<1, 0>>} \cup {d \in Alive(w) \X {-1, 1} : Drifted(w, d[1], d[2]) # w}
(* The meetings that lead to meals, as far as the bounds go: few pairs, and *)
(* no target that has died often enough in this round.                      *)
Mortal(w, s) == w.slots[s].id # NoOne => w.deaths[w.slots[s].id] < MaxDeaths
Meetings(w) ==
  {m \in SUBSET {pair \in Edible(w) : Mortal(w, pair[2])} :
     /\ Cardinality(m) <= MaxMeets
     /\ \A pair \in m : Eaters(m)[pair[2]] = pair[1]}
(* ShroomWorldStep: timers and masses, meals, forced splits, and then the  *)
(* merges of the fragments that came near their primary.                   *)
Moved(w) == LET run == TimersRun(w) IN {Drifted(run, d[1], d[2]) : d \in Drifts(w)}
Settled(w) == {ForcedSplits(Meals(w, meets)) : meets \in Meetings(w)}
Stepped(w) ==
  {Merges(settled, near) : settled \in UNION {Settled(moved) : moved \in Moved(w)},
                           near \in SUBSET Fragments(w)}
Tick ==
  /\ phase = "running"
  /\ \E w \in Balanced(RosterProtected(world)) : world' \in Stepped(w)
  /\ phase' \in {"running", "results"}
  /\ UNCHANGED <<owner, entered>>

(* During the results the world stands still, but bots come and go.         *)
ResultsTick ==
  /\ phase = "results"
  /\ world' \in Balanced(RosterProtected(world))
  /\ UNCHANGED <<phase, owner, entered>>

(* The intermission resolved (ResolveIntermission): those of "entered" who  *)
(* voted to continue stay in the match.                                     *)
NextRound ==
  /\ phase = "results"
  /\ entered' \in SUBSET (Playing \cap entered)
  /\ world' = Restarted(world)
  /\ phase' = "running"
  /\ UNCHANGED owner

Init ==
  /\ world = [slots |-> [s \in Slots |-> Cleared], count |-> 0, deaths |-> [id \in Ids |-> 0]]
  /\ phase = "running" /\ owner = [p \in People |-> 0] /\ entered = {}
Next ==
  \/ \E p \in People : Join(p) \/ Enter(p) \/ Depart(p)
  \/ \E p \in People, s \in Slots : AskSplit(p, s)
  \/ Tick \/ ResultsTick \/ NextRound
Spec == Init /\ [][Next]_vars

-----------------------------------------------------------------------------
(* The types of the variables; pieces beyond the count are never read.      *)
TypeOK ==
  /\ world.slots \in [Slots -> Piece] /\ world.count \in 0..Capacity
  /\ world.deaths \in [Ids -> Nat]
  /\ \A s \in Slots : world.slots[s].prot <= IF Protection > SplitProtection THEN Protection
                                                                          ELSE SplitProtection
  /\ phase \in {"running", "results"} /\ owner \in [People -> 0..Capacity]
  /\ entered \subseteq Playing

(* A session keeps a raw pointer into the array (ServerSession.player) that *)
(* is set once, at the join, while slots are cleared and reused around it:  *)
(* it must always point at the one living primary of that player, and those *)
(* who have left must own no piece.                                         *)
PointersAreRight ==
  \A p \in People : IF owner[p] = 0 THEN PiecesOf(world, p) = {}
                                    ELSE Primaries(world, p) = {owner[p]}

(* The pieces of a colony belong to one life: a fragment never outlives the *)
(* primary's death (the life generation of snapshots tells clients so).     *)
OneLife ==
  \A id \in Ids : \A s, t \in PiecesOf(world, id) : world.slots[s].life = world.slots[t].life

(* Deaths in the round statistics are the lives that were lost: a living    *)
(* colony's life generation moves on exactly when its death is counted, or  *)
(* when the round starts over.                                              *)
DeathsAreLives ==
  [][\A id \in Ids : \A s \in Primaries(world, id) :
       LET now == world.slots[s]
           next == world'.slots[s]
       IN  next.id = id /\ s <= world'.count /\ ~(phase = "results" /\ phase' = "running")
           => (next.life # now.life <=> world'.deaths[id] = world.deaths[id] + 1)]_vars

(* sim.c:991 says of an eaten fragment "clear the slot without respawning": *)
(* every living piece belongs to somebody.                                  *)
NoGhosts == \A s \in Alive(world) : world.slots[s].id # NoOne

==============================================================================
