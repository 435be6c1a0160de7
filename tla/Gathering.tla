------------------------------ MODULE Gathering ------------------------------
(***************************************************************************)
(* Gathering resources without a database: the resource nodes of           *)
(* features/resources, the inventory, cooldown and sequence components of  *)
(* the player entities, and the systems of game_server/systems/collect.rs  *)
(* that read and change them.  The server runs this way when no database   *)
(* is configured; CollectPipeline is the other way.                        *)
(*                                                                         *)
(* Systems of one tick run one after the other in no fixed order, and an   *)
(* intent is handled whole.  Whether a player stands near enough to the    *)
(* node or the creature depends on where it walked: an intent from too far *)
(* away changes nothing, so only the others are actions.                   *)
(***************************************************************************)
EXTENDS Inventory

CONSTANTS
  Player,          \* player ids
  Node,            \* resource nodes
  NodeKind,        \* NodeKind[n]: the resource kind node n yields
  Yield,           \* Yield[n]: the amount of one collect (yield_amount)
  RespawnTicks,    \* ticks a node stays depleted (respawn_seconds)
  CooldownTicks,   \* ticks between two collects (INTERACT_COOLDOWN_S)
  Creature,        \* creatures
  FoodKind,        \* FoodKind[c]: the resource kind creature c eats
  FeedTicks,       \* FEED_COOLDOWN_TICKS
  MaxSequence      \* bound of the model: sequence numbers of intents

\* WorldConfig rejects zero yields and respawn times that are not positive.  It
\* does not bound a yield from above; the shipped world stays below a stack.
ASSUME GatheringAssumption ==
  /\ NodeKind \in [Node -> Kinds]
  /\ Yield \in [Node -> 1..MaxStack]
  /\ RespawnTicks \in Nat \ {0}
  /\ CooldownTicks \in Nat
  /\ FoodKind \in [Creature -> Kinds]
  /\ FeedTicks \in Nat
  /\ MaxSequence \in Nat

VARIABLES
  body,       \* body[p]: the player entity of p and the components it has
  inv,        \* PlayerInventory, EmptyInventory while there is none
  wait,       \* InteractionCooldown: ticks until the next collect
  lastSeq,    \* ActionSequence.last_sequence
  depleted,   \* ResourceNodeStatus.depleted
  timer,      \* ResourceNodeStatus.respawn_timer, in ticks
  feedWait    \* FeedCooldown.remaining_ticks of each creature

playerVars == <<body, inv, wait, lastSeq>>
nodeVars == <<depleted, timer>>
gatheringVars == <<body, inv, wait, lastSeq, depleted, timer, feedWait>>

\* absent: no entity.  bare: just spawned, none of the three components.
\* loaded: spawned with a PlayerInventory read from the database, and so never
\* given the other two.  ready: all three, from initialize_player_components.
Bodies == {"absent", "bare", "loaded", "ready"}

HasInventory(p) == body[p] \in {"loaded", "ready"}

GatheringTypeOK ==
  /\ body \in [Player -> Bodies]
  /\ inv \in [Player -> Inventories]
  /\ wait \in [Player -> 0..CooldownTicks]
  /\ lastSeq \in [Player -> Nat]
  /\ depleted \in [Node -> BOOLEAN]
  /\ timer \in [Node -> 0..RespawnTicks]
  /\ feedWait \in [Creature -> 0..FeedTicks]

GatheringInit ==
  /\ body = [p \in Player |-> "absent"]
  /\ inv = [p \in Player |-> EmptyInventory]
  /\ wait = [p \in Player |-> 0]
  /\ lastSeq = [p \in Player |-> 0]
  /\ depleted = [n \in Node |-> FALSE]
  /\ timer = [n \in Node |-> 0]
  /\ feedWait = [c \in Creature |-> 0]

-----------------------------------------------------------------------------
(* Player entities.                                                        *)

\* spawn_player, with the inventory loaded for it when that is not empty.
SpawnBody(p, loaded) ==
  /\ body' = [body EXCEPT ![p] = IF loaded = EmptyInventory THEN "bare" ELSE "loaded"]
  /\ inv' = [inv EXCEPT ![p] = loaded]
  /\ wait' = [wait EXCEPT ![p] = 0]
  /\ lastSeq' = [lastSeq EXCEPT ![p] = 0]

DespawnBody(p) ==
  /\ body' = [body EXCEPT ![p] = "absent"]
  /\ inv' = [inv EXCEPT ![p] = EmptyInventory]
  /\ wait' = [wait EXCEPT ![p] = 0]
  /\ lastSeq' = [lastSeq EXCEPT ![p] = 0]

Join(p) ==
  /\ body[p] = "absent"
  /\ SpawnBody(p, EmptyInventory)
  /\ UNCHANGED <<nodeVars, feedWait>>

\* The client disconnects and its entities are despawned.
Leave(p) ==
  /\ body[p] # "absent"
  /\ DespawnBody(p)
  /\ UNCHANGED <<nodeVars, feedWait>>

\* Every entity without a PlayerInventory gets the three components.
InitializePlayerComponents ==
  /\ \E p \in Player : body[p] = "bare"
  /\ body' = [p \in Player |-> IF body[p] = "bare" THEN "ready" ELSE body[p]]
  /\ UNCHANGED <<inv, wait, lastSeq, nodeVars, feedWait>>

-----------------------------------------------------------------------------
(* Collecting.                                                             *)

\* Mutant: no check that the inventory has room.
ValidCollectNoRoom(p, n, sequence) ==
  /\ ~ depleted[n]
  /\ body[p] = "ready" => wait[p] = 0 /\ sequence > lastSeq[p]

\* Mutant: the same sequence number is accepted again.
ValidCollectReplay(p, n, sequence) ==
  /\ ~ depleted[n]
  /\ body[p] = "ready" => wait[p] = 0 /\ sequence >= lastSeq[p]
  /\ HasInventory(p) => ~ IsFull(inv[p])

\* validate_collect = Success: the checks on a component are skipped when the
\* entity does not have it.
ValidCollect(p, n, sequence) ==
  /\ ~ depleted[n]
  /\ body[p] = "ready" => wait[p] = 0 /\ sequence > lastSeq[p]
  /\ HasInventory(p) => ~ IsFull(inv[p])

Deplete(n) == depleted' = [depleted EXCEPT ![n] = TRUE]

StartCooldown(p) ==
  wait' = IF body[p] = "ready" THEN [wait EXCEPT ![p] = CooldownTicks] ELSE wait

RecordSequence(p, sequence) ==
  lastSeq' = IF body[p] = "ready" THEN [lastSeq EXCEPT ![p] = sequence] ELSE lastSeq

\* handle_action_collect_immediate.
CollectImmediate(p, n, sequence) ==
  /\ body[p] # "absent"
  /\ ValidCollect(p, n, sequence)
  /\ Deplete(n)
  /\ timer' = [timer EXCEPT ![n] = RespawnTicks]
  /\ inv' = IF HasInventory(p) THEN [inv EXCEPT ![p] = Add(@, NodeKind[n], Yield[n])]
            ELSE inv
  /\ StartCooldown(p)
  /\ RecordSequence(p, sequence)
  /\ UNCHANGED <<body, feedWait>>

-----------------------------------------------------------------------------
(* Feeding a creature, and the tick systems.                               *)

\* handle_feed: one unit of the first stack of the food the creature eats.
Feed(p, c) ==
  /\ body[p] # "absent"
  /\ feedWait[c] = 0
  /\ LET slot == FirstSlotWith(inv[p], FoodKind[c])
     IN  /\ slot # 0
         /\ inv' = [inv EXCEPT ![p] = TakeFrom(@, slot, 1)]
  /\ feedWait' = [feedWait EXCEPT ![c] = FeedTicks]
  /\ UNCHANGED <<body, wait, lastSeq, nodeVars>>

\* Mutant: the cooldowns that are over are counted down too.
TickPlayerCooldownsPast ==
  /\ \E p \in Player : wait[p] > 0
  /\ wait' = [p \in Player |-> wait[p] - 1]
  /\ UNCHANGED <<body, inv, lastSeq, nodeVars, feedWait>>

TickPlayerCooldowns ==
  /\ \E p \in Player : wait[p] > 0
  /\ wait' = [p \in Player |-> IF wait[p] > 0 THEN wait[p] - 1 ELSE 0]
  /\ UNCHANGED <<body, inv, lastSeq, nodeVars, feedWait>>

\* Mutant: one tick too late, the timer already at zero.
TickResourceRespawnLate ==
  /\ \E n \in Node : depleted[n]
  /\ depleted' = [n \in Node |-> depleted[n] /\ timer[n] > 0]
  /\ timer' = [n \in Node |->
                 IF ~ depleted[n] THEN timer[n]
                 ELSE IF timer[n] > 1 THEN timer[n] - 1 ELSE 0]
  /\ UNCHANGED <<playerVars, feedWait>>

\* Mutant: the timer runs, the node stays depleted.
TickResourceRespawnNever ==
  /\ timer' = [n \in Node |-> IF timer[n] > 1 THEN timer[n] - 1 ELSE 0]
  /\ UNCHANGED <<playerVars, depleted, feedWait>>

\* A depleted node counts down and is available again at zero.
TickResourceRespawn ==
  /\ \E n \in Node : depleted[n]
  /\ depleted' = [n \in Node |-> depleted[n] /\ timer[n] > 1]
  /\ timer' = [n \in Node |->
                 IF ~ depleted[n] THEN timer[n]
                 ELSE IF timer[n] > 1 THEN timer[n] - 1 ELSE 0]
  /\ UNCHANGED <<playerVars, feedWait>>

TickFeedCooldowns ==
  /\ \E c \in Creature : feedWait[c] > 0
  /\ feedWait' = [c \in Creature |-> IF feedWait[c] > 0 THEN feedWait[c] - 1 ELSE 0]
  /\ UNCHANGED <<playerVars, nodeVars>>

Ticks ==
  \/ InitializePlayerComponents
  \/ TickPlayerCooldowns
  \/ TickResourceRespawn
  \/ TickFeedCooldowns

GatheringNext ==
  \/ \E p \in Player : Join(p)
  \/ \E p \in Player : Leave(p)
  \/ \E p \in Player, n \in Node, s \in 1..MaxSequence : CollectImmediate(p, n, s)
  \/ \E p \in Player, c \in Creature : Feed(p, c)
  \/ Ticks

GatheringSafety == GatheringInit /\ [][GatheringNext]_gatheringVars

\* Each of these systems runs in every fixed tick.
GatheringFairness ==
  /\ WF_gatheringVars(InitializePlayerComponents)
  /\ WF_gatheringVars(TickPlayerCooldowns)
  /\ WF_gatheringVars(TickResourceRespawn)
  /\ WF_gatheringVars(TickFeedCooldowns)

GatheringSpec == GatheringSafety /\ GatheringFairness

-----------------------------------------------------------------------------
(* Properties.                                                             *)

\* A node is depleted exactly while it has time left on its respawn timer: the
\* two fields of ResourceNodeStatus ("only meaningful when depleted") agree,
\* whichever system wrote them last.
DepletedHasTimer == \A n \in Node : depleted[n] <=> timer[n] > 0

\* What a node loses one player gains, whole: its inventory gets exactly the
\* yield more of the node's kind, as much as before of everything else, and no
\* other inventory changes.  (A player whose components are not there yet, and
\* only such a player, depletes the node for nothing.)  It rests on
\* validate_collect refusing a full inventory: add() silently keeps what fits.
Gained(p, n) ==
  \A k \in Kinds : CountKind(inv'[p], k) =
    CountKind(inv[p], k) + IF k = NodeKind[n] THEN Yield[n] ELSE 0

CollectGainsYield ==
  [][\A n \in Node : ~ depleted[n] /\ depleted'[n] =>
       \/ /\ \E p \in Player : body[p] = "bare"
          /\ inv' = inv
       \/ \E p \in Player :
            Gained(p, n) /\ \A other \in Player \ {p} : inv'[other] = inv[other]
    ]_gatheringVars

\* An intent is used once: a player with all its components that depletes a node
\* moves its last sequence number up, and nothing moves it down while it stays.
SequenceAdvances ==
  [][\A p \in Player : body[p] = "ready" /\ body'[p] = "ready" =>
       /\ lastSeq'[p] >= lastSeq[p]
       /\ CooldownTicks > 0 /\ wait[p] = 0 /\ wait'[p] > 0 => lastSeq'[p] > lastSeq[p]]_gatheringVars

\* A depleted node becomes available again.
NodesRespawn == \A n \in Node : depleted[n] ~> ~ depleted[n]
=============================================================================
