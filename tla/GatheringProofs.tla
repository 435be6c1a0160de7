--------------------------- MODULE GatheringProofs ---------------------------
(***************************************************************************)
(* What holds of Gathering for any number of players, nodes and creatures, *)
(* any inventory sizes and any durations: a node is depleted exactly while *)
(* its respawn timer runs, sequence numbers only go up, inventories keep   *)
(* their slots and stacks, and a collect gains the whole yield.            *)
(***************************************************************************)
EXTENDS Gathering, InventoryProofs

\* The part of the state the two results depend on: neither what an inventory
\* holds nor the bounds of the counters matter, only that they are numbers.
NodeInv ==
  /\ depleted \in [Node -> BOOLEAN]
  /\ timer \in [Node -> Nat]
  /\ DepletedHasTimer

PlayerInv ==
  /\ body \in [Player -> Bodies]
  /\ wait \in [Player -> Nat]
  /\ lastSeq \in [Player -> Nat]

-----------------------------------------------------------------------------
(* The nodes.                                                              *)

\* Only collecting and the respawn tick write the node status, and both leave
\* the flag and the timer in agreement.
LEMMA NodeStep == NodeInv /\ [GatheringNext]_gatheringVars => NodeInv'
<1> SUFFICES ASSUME NodeInv, [GatheringNext]_gatheringVars
             PROVE  NodeInv'
  OBVIOUS
<1>1. CASE UNCHANGED nodeVars
  BY <1>1 DEF NodeInv, DepletedHasTimer, nodeVars
<1>2. ASSUME NEW p \in Player, NEW n \in Node, NEW s \in 1..MaxSequence,
             CollectImmediate(p, n, s)
      PROVE  NodeInv'
  <2>1. depleted' = [depleted EXCEPT ![n] = TRUE]
    BY <1>2 DEF CollectImmediate, Deplete
  <2>2. timer' = [timer EXCEPT ![n] = RespawnTicks]
    BY <1>2 DEF CollectImmediate
  <2>3. RespawnTicks \in Nat /\ RespawnTicks > 0
    BY GatheringAssumption
  <2>4. depleted' \in [Node -> BOOLEAN] /\ timer' \in [Node -> Nat]
    BY <2>1, <2>2, <2>3 DEF NodeInv
  <2>5. \A m \in Node : depleted'[m] <=> timer'[m] > 0
    BY <2>1, <2>2, <2>3 DEF NodeInv, DepletedHasTimer
  <2> QED
    BY <2>4, <2>5 DEF NodeInv, DepletedHasTimer
<1>3. CASE TickResourceRespawn
  <2>1. depleted' = [n \in Node |-> depleted[n] /\ timer[n] > 1]
    BY <1>3 DEF TickResourceRespawn
  <2>2. timer' = [n \in Node |-> IF ~ depleted[n] THEN timer[n]
                                 ELSE IF timer[n] > 1 THEN timer[n] - 1 ELSE 0]
    BY <1>3 DEF TickResourceRespawn
  <2>3. depleted' \in [Node -> BOOLEAN] /\ timer' \in [Node -> Nat]
    BY <2>1, <2>2 DEF NodeInv
  <2>4. ASSUME NEW m \in Node
        PROVE  depleted'[m] <=> timer'[m] > 0
    <3>1. timer[m] \in Nat /\ (depleted[m] <=> timer[m] > 0)
      BY DEF NodeInv, DepletedHasTimer
    <3>2. depleted'[m] <=> timer[m] > 1
      <4>1. depleted'[m] <=> depleted[m] /\ timer[m] > 1
        BY <2>1, Zenon
      <4>2. timer[m] > 1 => timer[m] > 0
        BY <3>1
      <4> QED
        BY <3>1, <4>1, <4>2, Zenon
    <3>3. timer'[m] > 0 <=> timer[m] > 1
      BY <2>2, <3>1
    <3> QED
      BY <3>2, <3>3
  <2> QED
    BY <2>3, <2>4 DEF NodeInv, DepletedHasTimer
<1> QED
  BY <1>1, <1>2, <1>3
  DEF GatheringNext, Ticks, gatheringVars, nodeVars, Join, Leave, Feed,
      InitializePlayerComponents, TickPlayerCooldowns, TickFeedCooldowns

\* A node is depleted exactly while it has time left on its respawn timer
\* (CollectImmediate and tick_resource_respawn agree), for any world.
THEOREM DepletedNodesHaveTimer == GatheringSafety => []DepletedHasTimer
<1>1. GatheringInit => NodeInv
  BY DEF GatheringInit, NodeInv, DepletedHasTimer
<1>2. NodeInv => DepletedHasTimer
  BY DEF NodeInv
<1> QED
  BY <1>1, <1>2, NodeStep, PTL DEF GatheringSafety

\* A node that stays depleted comes nearer to its respawn with every tick, and nothing that
\* players do takes it further away.
RespawnComesNearer ==
  [][\A n \in Node : depleted[n] /\ depleted'[n] =>
       /\ timer'[n] <= timer[n]
       /\ TickResourceRespawn => timer'[n] < timer[n]]_gatheringVars

\* What NodesRespawn rests on besides that ticks go on: however many players collect, the
\* respawn of a depleted node is never put off.
THEOREM RespawnIsNotPutOff == GatheringSafety => RespawnComesNearer
<1>1. GatheringInit => NodeInv
  BY DEF GatheringInit, NodeInv, DepletedHasTimer
<1>2. ASSUME NodeInv, GatheringNext, NEW n \in Node, depleted[n], depleted'[n]
      PROVE  timer'[n] <= timer[n] /\ (TickResourceRespawn => timer'[n] < timer[n])
  <2>1. timer[n] \in Nat /\ timer \in [Node -> Nat] /\ depleted \in [Node -> BOOLEAN]
    BY <1>2 DEF NodeInv
  <2>2. CASE TickResourceRespawn
    <3>1. /\ depleted'[n] = (depleted[n] /\ timer[n] > 1)
          /\ timer'[n] = IF ~ depleted[n] THEN timer[n]
                         ELSE IF timer[n] > 1 THEN timer[n] - 1 ELSE 0
      BY <2>2 DEF TickResourceRespawn
    <3>2. timer[n] > 1
      BY <1>2, <3>1, Zenon
    <3>3. timer'[n] = timer[n] - 1
      BY <1>2, <3>1, <3>2, Zenon
    <3> QED
      BY <2>1, <3>3
  <2>3. ASSUME NEW p \in Player, NEW m \in Node, NEW s \in 1..MaxSequence,
               CollectImmediate(p, m, s), ~ TickResourceRespawn
        PROVE  timer'[n] = timer[n]
    <3>1. ~ depleted[m] /\ timer' = [timer EXCEPT ![m] = RespawnTicks]
      BY <2>3 DEF CollectImmediate, ValidCollect
    <3> QED
      BY <1>2, <2>1, <3>1
  <2>4. CASE UNCHANGED nodeVars /\ ~ TickResourceRespawn
    BY <2>1, <2>4 DEF nodeVars
  <2>5. \/ UNCHANGED nodeVars \/ TickResourceRespawn
        \/ \E p \in Player, m \in Node, s \in 1..MaxSequence : CollectImmediate(p, m, s)
    BY <1>2 DEF GatheringNext, Ticks, Join, Leave, Feed, InitializePlayerComponents,
                TickPlayerCooldowns, TickFeedCooldowns
  <2> QED
    BY <2>1, <2>2, <2>3, <2>4, <2>5
<1>3. NodeInv /\ [GatheringNext]_gatheringVars =>
        [\A n \in Node : depleted[n] /\ depleted'[n] =>
           /\ timer'[n] <= timer[n]
           /\ TickResourceRespawn => timer'[n] < timer[n]]_gatheringVars
  BY <1>2
<1> QED
  BY <1>1, <1>3, NodeStep, PTL DEF GatheringSafety, RespawnComesNearer

-----------------------------------------------------------------------------
(* The players.                                                            *)

\* No step leaves the types of a player's components.
LEMMA PlayerStep == PlayerInv /\ [GatheringNext]_gatheringVars => PlayerInv'
<1> SUFFICES ASSUME PlayerInv, [GatheringNext]_gatheringVars
             PROVE  PlayerInv'
  OBVIOUS
<1>1. CASE UNCHANGED <<body, wait, lastSeq>>
  BY <1>1 DEF PlayerInv
<1>2. ASSUME NEW p \in Player, Join(p)
      PROVE  PlayerInv'
  BY <1>2 DEF Join, SpawnBody, PlayerInv, Bodies
<1>3. ASSUME NEW p \in Player, Leave(p)
      PROVE  PlayerInv'
  BY <1>3 DEF Leave, DespawnBody, PlayerInv, Bodies
<1>4. ASSUME NEW p \in Player, NEW n \in Node, NEW s \in 1..MaxSequence,
             CollectImmediate(p, n, s)
      PROVE  PlayerInv'
  BY <1>4, GatheringAssumption
  DEF CollectImmediate, StartCooldown, RecordSequence, PlayerInv
<1>5. CASE InitializePlayerComponents
  BY <1>5 DEF InitializePlayerComponents, PlayerInv, Bodies
<1>6. CASE TickPlayerCooldowns
  BY <1>6 DEF TickPlayerCooldowns, PlayerInv
<1> QED
  BY <1>1, <1>2, <1>3, <1>4, <1>5, <1>6
  DEF GatheringNext, Ticks, gatheringVars, playerVars, nodeVars, Feed,
      TickResourceRespawn, TickFeedCooldowns

\* What SequenceAdvances asks of a step, for one player.
Advances(p) ==
  body[p] = "ready" /\ body'[p] = "ready" =>
    /\ lastSeq'[p] >= lastSeq[p]
    /\ CooldownTicks > 0 /\ wait[p] = 0 /\ wait'[p] > 0 => lastSeq'[p] > lastSeq[p]

\* Every step does it.
LEMMA StepAdvances ==
  ASSUME PlayerInv, [GatheringNext]_gatheringVars, NEW q \in Player
  PROVE  Advances(q)
<1>1. lastSeq[q] \in Nat /\ wait[q] \in Nat
  BY DEF PlayerInv
<1>2. CASE wait' = wait /\ lastSeq' = lastSeq
  BY <1>1, <1>2 DEF Advances
<1>3. ASSUME NEW p \in Player, Join(p) \/ Leave(p)
      PROVE  Advances(q)
  <2>1. CASE p = q
    BY <1>3, <2>1 DEF Join, Leave, SpawnBody, DespawnBody, Advances, PlayerInv
  <2>2. CASE p # q
    <3>1. wait'[q] = wait[q] /\ lastSeq'[q] = lastSeq[q]
      BY <1>3, <2>2 DEF Join, Leave, SpawnBody, DespawnBody, PlayerInv
    <3> QED
      BY <1>1, <3>1 DEF Advances
  <2> QED
    BY <2>1, <2>2
<1>4. ASSUME NEW p \in Player, NEW n \in Node, NEW s \in 1..MaxSequence,
             CollectImmediate(p, n, s)
      PROVE  Advances(q)
  <2>1. CASE p = q /\ body[p] = "ready"
    <3>1. lastSeq' = [lastSeq EXCEPT ![p] = s] /\ s > lastSeq[p]
      BY <1>4, <2>1 DEF CollectImmediate, RecordSequence, ValidCollect
    <3>2. lastSeq'[q] = s
      BY <2>1, <3>1 DEF PlayerInv
    <3>3. s \in Nat
      BY GatheringAssumption
    <3> QED
      BY <1>1, <2>1, <3>1, <3>2, <3>3 DEF Advances
  <2>2. CASE ~ (p = q /\ body[p] = "ready")
    <3>1. wait'[q] = wait[q] /\ lastSeq'[q] = lastSeq[q]
      BY <1>4, <2>2 DEF CollectImmediate, StartCooldown, RecordSequence, PlayerInv
    <3> QED
      BY <1>1, <3>1 DEF Advances
  <2> QED
    BY <2>1, <2>2
<1>5. CASE TickPlayerCooldowns
  <2>1. wait[q] = 0 => wait'[q] = 0
    BY <1>5 DEF TickPlayerCooldowns, PlayerInv
  <2>2. lastSeq'[q] = lastSeq[q]
    BY <1>5 DEF TickPlayerCooldowns
  <2> QED
    BY <1>1, <2>1, <2>2 DEF Advances
<1> QED
  BY <1>2, <1>3, <1>4, <1>5
  DEF GatheringNext, Ticks, gatheringVars, playerVars, nodeVars, Feed,
      InitializePlayerComponents, TickResourceRespawn, TickFeedCooldowns

\* The sequence number of a player never goes back while its entity lives, and a
\* collect that starts its cooldown moves it up, for any world.
THEOREM SequencesAdvance == GatheringSafety => SequenceAdvances
<1>1. GatheringInit => PlayerInv
  BY GatheringAssumption DEF GatheringInit, PlayerInv, Bodies
<1>2. PlayerInv /\ [GatheringNext]_gatheringVars =>
        [\A p \in Player : Advances(p)]_gatheringVars
  BY StepAdvances
<1>3. (\A p \in Player : Advances(p)) <=>
        (\A p \in Player : body[p] = "ready" /\ body'[p] = "ready" =>
           /\ lastSeq'[p] >= lastSeq[p]
           /\ CooldownTicks > 0 /\ wait[p] = 0 /\ wait'[p] > 0 => lastSeq'[p] > lastSeq[p])
  BY DEF Advances
<1> QED
  BY <1>1, <1>2, <1>3, PlayerStep, PTL DEF GatheringSafety, SequenceAdvances

-----------------------------------------------------------------------------
(* The inventories. *)

\* Feeding takes one item out of a slot that holds the food.
LEMMA FeedTakes ==
  ASSUME GatheringTypeOK, NEW p \in Player, NEW c \in Creature, Feed(p, c)
  PROVE  \E slot \in 1..Slots :
           /\ inv[p][slot].kind \in Kinds
           /\ inv' = [inv EXCEPT ![p] = TakeFrom(inv[p], slot, 1)]
           /\ TakeFrom(inv[p], slot, 1) \in Inventories
<1>1. inv[p] \in Inventories /\ FoodKind[c] \in Kinds
  BY GatheringAssumption DEF GatheringTypeOK
<1>2. PICK slot : /\ slot = FirstSlotWith(inv[p], FoodKind[c]) /\ slot # 0
                  /\ inv' = [inv EXCEPT ![p] = TakeFrom(inv[p], slot, 1)]
  BY DEF Feed
<1>3. slot \in 1..Slots /\ inv[p][slot].kind \in Kinds
  BY <1>1, <1>2, FirstSlot
<1> QED
  BY <1>1, <1>2, <1>3, TakeKeepsInventory

\* Every step keeps the types: a collect adds to an inventory, feeding takes from one.
LEMMA GatheringTypesStep ==
  ASSUME GatheringTypeOK, [GatheringNext]_gatheringVars
  PROVE  GatheringTypeOK'
<1>0. /\ CooldownTicks \in Nat /\ FeedTicks \in Nat /\ RespawnTicks \in Nat
      /\ MaxSequence \in Nat /\ RespawnTicks # 0
  BY GatheringAssumption
<1>1. CASE UNCHANGED gatheringVars
  BY <1>1 DEF gatheringVars, GatheringTypeOK
<1>2. ASSUME NEW p \in Player, Join(p) \/ Leave(p)
      PROVE  GatheringTypeOK'
  BY <1>0, <1>2, EmptyIsInventory
  DEF Join, Leave, SpawnBody, DespawnBody, GatheringTypeOK, Bodies, nodeVars
<1>3. ASSUME NEW p \in Player, NEW n \in Node, NEW s \in 1..MaxSequence,
             CollectImmediate(p, n, s)
      PROVE  GatheringTypeOK'
  <2>1. NodeKind[n] \in Kinds /\ Yield[n] \in Nat /\ inv[p] \in Inventories
    BY GatheringAssumption, InventoryAssumption DEF GatheringTypeOK
  <2>2. inv' \in [Player -> Inventories]
    <3>1. PICK new \in Inventories : new = Add(inv[p], NodeKind[n], Yield[n])
      BY <2>1, AddKeepsInventory
    <3>2. inv' = [inv EXCEPT ![p] = new] \/ inv' = inv
      BY <1>3, <3>1 DEF CollectImmediate
    <3> QED
      BY <3>1, <3>2 DEF GatheringTypeOK
  <2>3. depleted' \in [Node -> BOOLEAN] /\ timer' \in [Node -> 0..RespawnTicks]
    BY <1>0, <1>3 DEF CollectImmediate, Deplete, GatheringTypeOK
  <2>4. wait' \in [Player -> 0..CooldownTicks] /\ lastSeq' \in [Player -> Nat]
    BY <1>0, <1>3 DEF CollectImmediate, StartCooldown, RecordSequence, GatheringTypeOK
  <2>5. body' = body /\ feedWait' = feedWait
    BY <1>3 DEF CollectImmediate
  <2> QED
    BY <2>2, <2>3, <2>4, <2>5 DEF GatheringTypeOK
<1>4. ASSUME NEW p \in Player, NEW c \in Creature, Feed(p, c)
      PROVE  GatheringTypeOK'
  <2>1. inv' \in [Player -> Inventories]
    <3>1. PICK new \in Inventories : inv' = [inv EXCEPT ![p] = new]
      BY <1>4, FeedTakes
    <3> QED
      BY <3>1 DEF GatheringTypeOK
  <2>2. feedWait' \in [Creature -> 0..FeedTicks] /\ UNCHANGED <<body, wait, lastSeq, nodeVars>>
    BY <1>0, <1>4 DEF Feed, GatheringTypeOK
  <2> QED
    BY <2>1, <2>2 DEF GatheringTypeOK, nodeVars
<1>5. CASE InitializePlayerComponents
  BY <1>5 DEF InitializePlayerComponents, GatheringTypeOK, Bodies, nodeVars
<1>6. CASE TickPlayerCooldowns
  <2>1. \A p \in Player : (IF wait[p] > 0 THEN wait[p] - 1 ELSE 0) \in 0..CooldownTicks
    BY <1>0 DEF GatheringTypeOK
  <2> QED
    BY <1>6, <2>1 DEF TickPlayerCooldowns, GatheringTypeOK, nodeVars
<1>7. CASE TickResourceRespawn
  <2>1. \A n \in Node : (IF ~ depleted[n] THEN timer[n]
                         ELSE IF timer[n] > 1 THEN timer[n] - 1 ELSE 0) \in 0..RespawnTicks
    BY <1>0 DEF GatheringTypeOK
  <2>2. timer' \in [Node -> 0..RespawnTicks]
    BY <1>7, <2>1 DEF TickResourceRespawn
  <2>3. depleted' \in [Node -> BOOLEAN] /\ UNCHANGED <<playerVars, feedWait>>
    BY <1>7 DEF TickResourceRespawn
  <2> QED
    BY <2>2, <2>3 DEF GatheringTypeOK, playerVars
<1>8. CASE TickFeedCooldowns
  <2>1. \A c \in Creature : (IF feedWait[c] > 0 THEN feedWait[c] - 1 ELSE 0) \in 0..FeedTicks
    BY <1>0 DEF GatheringTypeOK
  <2> QED
    BY <1>8, <2>1 DEF TickFeedCooldowns, GatheringTypeOK, playerVars, nodeVars
<1> QED
  BY <1>1, <1>2, <1>3, <1>4, <1>5, <1>6, <1>7, <1>8 DEF GatheringNext, Ticks

\* The types hold at the start.
LEMMA GatheringTypesStart == GatheringInit => GatheringTypeOK
BY GatheringAssumption, EmptyIsInventory DEF GatheringInit, GatheringTypeOK, Bodies

\* Type correctness: whatever is collected and fed, every inventory has its
\* slots and no stack is empty or larger than MaxStack.
THEOREM GatheringTypes == GatheringSafety => []GatheringTypeOK
BY GatheringTypesStart, GatheringTypesStep, PTL DEF GatheringSafety

\* A node that becomes depleted was collected from.
LEMMA DepletedByCollect ==
  ASSUME GatheringTypeOK, [GatheringNext]_gatheringVars,
         NEW n \in Node, ~ depleted[n], depleted'[n]
  PROVE  \E p \in Player, s \in 1..MaxSequence : CollectImmediate(p, n, s)
<1>1. CASE depleted' = depleted
  BY <1>1
<1>2. CASE TickResourceRespawn
  BY <1>2 DEF TickResourceRespawn
<1>3. ASSUME NEW p \in Player, NEW m \in Node, NEW s \in 1..MaxSequence,
             CollectImmediate(p, m, s)
      PROVE  m = n
  BY <1>3 DEF CollectImmediate, Deplete, GatheringTypeOK
<1> QED
  BY <1>1, <1>2, <1>3
  DEF GatheringNext, Ticks, gatheringVars, nodeVars, playerVars, Join, Leave, Feed,
      InitializePlayerComponents, TickPlayerCooldowns, TickFeedCooldowns

\* What a node loses one player gains, whole: handle_action_collect_immediate never
\* loses part of a yield that is no more than a stack, because validate_collect
\* refuses a full inventory.
THEOREM CollectsGainTheYield == GatheringSafety => CollectGainsYield
<1>1. ASSUME GatheringTypeOK, [GatheringNext]_gatheringVars,
             NEW n \in Node, ~ depleted[n], depleted'[n]
      PROVE  \/ /\ \E p \in Player : body[p] = "bare"
                /\ inv' = inv
             \/ \E p \in Player :
                  Gained(p, n) /\ \A other \in Player \ {p} : inv'[other] = inv[other]
  <2>1. PICK p \in Player, s \in 1..MaxSequence : CollectImmediate(p, n, s)
    BY <1>1, DepletedByCollect
  <2>2. /\ NodeKind[n] \in Kinds /\ Yield[n] \in 1..MaxStack
        /\ body[p] \in Bodies /\ inv[p] \in Inventories /\ inv \in [Player -> Inventories]
    BY <1>1, GatheringAssumption DEF GatheringTypeOK
  <2>3. CASE HasInventory(p)
    <3>1. ~ IsFull(inv[p])
      BY <2>1, <2>3 DEF CollectImmediate, ValidCollect
    <3>2. PICK new : new = Add(inv[p], NodeKind[n], Yield[n])
      OBVIOUS
    <3>3. inv' = [inv EXCEPT ![p] = new]
      BY <2>1, <2>3, <3>2 DEF CollectImmediate
    <3>4. inv'[p] = new /\ \A other \in Player \ {p} : inv'[other] = inv[other]
      BY <2>2, <3>3
    <3>5. \A k \in Kinds : CountKind(new, k) =
            CountKind(inv[p], k) + IF k = NodeKind[n] THEN Yield[n] ELSE 0
      BY <2>2, <3>1, <3>2, AddingCounts
    <3> QED
      BY <3>4, <3>5 DEF Gained
  <2>4. CASE ~ HasInventory(p)
    BY <2>1, <2>2, <2>4 DEF CollectImmediate, HasInventory, Bodies
  <2> QED
    BY <2>3, <2>4
<1>2. GatheringTypeOK /\ [GatheringNext]_gatheringVars =>
        [\A n \in Node : ~ depleted[n] /\ depleted'[n] =>
           \/ /\ \E p \in Player : body[p] = "bare"
              /\ inv' = inv
           \/ \E p \in Player :
                Gained(p, n) /\ \A other \in Player \ {p} : inv'[other] = inv[other]
        ]_gatheringVars
  BY <1>1
<1> QED
  BY <1>2, GatheringTypes, PTL DEF GatheringSafety, CollectGainsYield
=============================================================================
