------------------------------ MODULE GameState ------------------------------
(***************************************************************************)
(* The deterministic rules of game_core/src/game_state: a state held in    *)
(* lists, the reducers that apply an intent to it, and the encoding its    *)
(* checksum is computed from.  An intent that is refused before it has     *)
(* changed anything is not a step.                                          *)
(***************************************************************************)
EXTENDS Inventory, TLC

CONSTANTS
  PlayerId, CreatureId, PlotId,   \* sets of numbers
  Resources,    \* the configured resources: [kind, count, yield, respawn], a sequence
  FoodOf,       \* food_kind of each creature
  LastTick, LastLevel   \* bounds: of the clock, of a bond

ASSUME GameStateAssumption ==
  /\ PlayerId \subseteq Nat /\ CreatureId \subseteq Nat /\ PlotId \subseteq Nat
  /\ Resources \in Seq([kind : Kinds, count : Nat \ {0}, yield : Nat \ {0}, respawn : Nat])
  /\ FoodOf \in [CreatureId -> Kinds]
  /\ LastTick \in Nat /\ LastLevel \in Nat \ {0}

VARIABLES
  game,      \* GameState: its lists, in insertion order
  reported   \* history: the items the ResourceCollected events speak of

gameState == <<game, reported>>

\* find_resource_for_node: the nodes of a resource are numbered after those of the
\* resources before it.
Offset(r) == SumOf([i \in 1..(r - 1) |-> Resources[i].count])
NodeCount == Offset(Len(Resources) + 1)
ResourceOf(n) ==
  Resources[CHOOSE r \in DOMAIN Resources : Offset(r) < n /\ n <= Offset(r + 1)]

GameInit ==
  /\ game = [tick |-> 0,
             nodes |-> [n \in 1..NodeCount |-> [available |-> TRUE, respawnAt |-> 0]],
             players |-> <<>>, inventories |-> <<>>, bonds |-> <<>>, plots |-> <<>>]
  /\ reported = 0

\* The positions at which a list of tuples names a key.
Find(list, key) == {i \in DOMAIN list : \A k \in DOMAIN key : list[i][k] = key[k]}
Joined(p) == Find(game.inventories, <<p>>) # {}
Index(list, key) == CHOOSE i \in Find(list, key) : \A j \in Find(list, key) : i <= j
InventoryOf(p) == game.inventories[Index(game.inventories, <<p>>)][2]
With(p, inv) == [game.inventories EXCEPT ![Index(game.inventories, <<p>>)][2] = inv]

ApplyTick ==
  /\ game.tick < LastTick
  /\ game' = [game EXCEPT
       !.tick = @ + 1,
       !.nodes = [n \in DOMAIN @ |->
                    IF ~@[n].available /\ game.tick + 1 >= @[n].respawnAt
                    THEN [@[n] EXCEPT !.available = TRUE] ELSE @[n]]]
  /\ UNCHANGED reported

\* Mutant: joining twice makes a second entry.
JoinAgain(p) ==
  /\ game' = [game EXCEPT !.players = Append(@, p),
                          !.inventories = Append(@, <<p, EmptyInventory>>)]
  /\ UNCHANGED reported
\* Joining twice changes nothing.
ApplyJoinPlayer(p) ==
  /\ p \notin Range(game.players)
  /\ game' = [game EXCEPT !.players = Append(@, p),
                          !.inventories = Append(@, <<p, EmptyInventory>>)]
  /\ UNCHANGED reported

\* What add() stores; less than asked for means Err(Full), with the rest kept.
\* Mutant: the result of add() is ignored.
StoredAnyway(inv, kind, quantity) == quantity
StoredBy(inv, kind, quantity) ==
  CountKind(Add(inv, kind, quantity), kind) - CountKind(inv, kind)

ApplyCollect(p, n) ==
  LET rc == ResourceOf(n)
      inv == InventoryOf(p)
  IN
  /\ Joined(p) /\ game.nodes[n].available
  /\ \/ /\ StoredBy(inv, rc.kind, rc.yield) = rc.yield
        /\ game' = [game EXCEPT
             !.inventories = With(p, Add(inv, rc.kind, rc.yield)),
             !.nodes[n] = [available |-> FALSE, respawnAt |-> game.tick + rc.respawn]]
        /\ reported' = reported + rc.yield
     \/ /\ StoredBy(inv, rc.kind, rc.yield) < rc.yield
        /\ game' = [game EXCEPT !.inventories = With(p, Add(inv, rc.kind, rc.yield))]
        /\ UNCHANGED reported

\* A first meal makes a bond, another one strengthens it.
Grown(bonds, p, c) ==
  IF Find(bonds, <<p, c>>) = {} THEN Append(bonds, <<p, c, 1>>)
  ELSE [bonds EXCEPT ![Index(bonds, <<p, c>>)][3] = @ + 1]

ApplyFeed(p, c, slot) ==
  /\ Joined(p)
  /\ InventoryOf(p)[slot].kind = FoodOf[c]
  /\ \A i \in Find(game.bonds, <<p, c>>) : game.bonds[i][3] < LastLevel
  /\ game' = [game EXCEPT
       !.inventories = With(p, TakeFrom(InventoryOf(p), slot, 1)),
       !.bonds = Grown(@, p, c)]
  /\ UNCHANGED reported

\* A plot nobody had becomes the player's.
Built(plots, p, plot, item) ==
  IF Find(plots, <<plot>>) = {} THEN Append(plots, <<plot, [owner |-> p, content |-> item]>>)
  ELSE [plots EXCEPT ![Index(plots, <<plot>>)][2].content = item]

\* One item leaves the slot, whatever it is; the item the intent names is placed.
ApplyPlaceOnPlot(p, plot, item, slot) ==
  /\ Joined(p)
  /\ \A i \in Find(game.plots, <<plot>>) :
       game.plots[i][2] = [owner |-> p, content |-> NoKind]
  /\ InventoryOf(p)[slot] # Empty
  /\ game' = [game EXCEPT
       !.inventories = With(p, TakeFrom(InventoryOf(p), slot, 1)),
       !.plots = Built(@, p, plot, item)]
  /\ UNCHANGED reported

ApplyRemoveFromPlot(p, plot) ==
  LET i == Index(game.plots, <<plot>>) IN
  /\ Find(game.plots, <<plot>>) # {}
  /\ game.plots[i][2].owner = p /\ game.plots[i][2].content # NoKind
  /\ StoredBy(InventoryOf(p), game.plots[i][2].content, 1) = 1
  /\ game' = [game EXCEPT
       !.inventories = With(p, Add(InventoryOf(p), game.plots[i][2].content, 1)),
       !.plots[i][2].content = NoKind]
  /\ UNCHANGED reported

GameNext ==
  \/ ApplyTick
  \/ \E p \in PlayerId :
       \/ ApplyJoinPlayer(p)
       \/ \E n \in 1..NodeCount : ApplyCollect(p, n)
       \/ \E c \in CreatureId, slot \in 1..Slots : ApplyFeed(p, c, slot)
       \/ \E plot \in PlotId, item \in Kinds, slot \in 1..Slots :
            ApplyPlaceOnPlot(p, plot, item, slot)
       \/ \E plot \in PlotId : ApplyRemoveFromPlot(p, plot)

-----------------------------------------------------------------------------
(* The bytes the checksum is taken of, field by field *)

\* Keys are tuples of numbers, and compare as such.
Below(a, b) == \E i \in DOMAIN a : a[i] < b[i] /\ \A h \in 1..(i - 1) : a[h] = b[h]

\* Where an entry stands among the entries sorted by their keys, equal keys in the order
\* they were.
Place(entries, i) ==
  Cardinality({j \in DOMAIN entries :
                 \/ Below(entries[j].key, entries[i].key)
                 \/ entries[j].key = entries[i].key /\ j <= i})

SortedByKey(entries) ==
  [n \in DOMAIN entries |->
     entries[CHOOSE i \in DOMAIN entries : Place(entries, i) = n].bytes]
Counted(entries) == <<Len(entries)>> \o FlattenSeq(SortedByKey(entries))

KindCode(kind) == CHOOSE k \in DOMAIN KindOrder : KindOrder[k] = kind
SlotCode(slot) == IF slot = Empty THEN <<0>> ELSE <<1, KindCode(slot.kind), slot.quantity>>
ContentCode(content) == IF content = NoKind THEN <<0>> ELSE <<1, KindCode(content)>>

NodeEntry(n) == <<IF n.available THEN 1 ELSE 0, n.respawnAt>>
PlayerEntry(p) == [key |-> <<p>>, bytes |-> <<p>>]
InventoryEntry(e) ==
  [key |-> <<e[1]>>,
   bytes |-> <<e[1]>> \o FlattenSeq([i \in DOMAIN e[2] |-> SlotCode(e[2][i])])]
BondEntry(b) == [key |-> <<b[1], b[2]>>, bytes |-> b]
PlotEntry(e) ==
  [key |-> <<e[1]>>, bytes |-> <<e[1], e[2].owner>> \o ContentCode(e[2].content)]

ChecksumBytes(g) ==
  <<g.tick>>
    \o FlattenSeq([n \in DOMAIN g.nodes |-> NodeEntry(g.nodes[n])])
    \o Counted([i \in DOMAIN g.players |-> PlayerEntry(g.players[i])])
    \o Counted([i \in DOMAIN g.inventories |-> InventoryEntry(g.inventories[i])])
    \o Counted([i \in DOMAIN g.bonds |-> BondEntry(g.bonds[i])])
    \o Counted([i \in DOMAIN g.plots |-> PlotEntry(g.plots[i])])

GameSpec == GameInit /\ [][GameNext]_gameState

-----------------------------------------------------------------------------
Nodes == [1..NodeCount -> [available : BOOLEAN, respawnAt : Nat]]
Plots == PlotId \X [owner : PlayerId, content : Kinds \cup {NoKind}]
Bonds == PlayerId \X CreatureId \X (1..LastLevel)

Games == [tick : 0..LastTick, nodes : Nodes, players : Seq(PlayerId),
          inventories : Seq(PlayerId \X Inventories), bonds : Seq(Bonds), plots : Seq(Plots)]

GameTypeOK == game \in Games /\ reported \in Nat

\* "The encoding is independent of insertion order": with every list the other way
\* round the checksum is the same, which holds only while no list names a key twice.
ChecksumOrderFree ==
  LET turned == [game EXCEPT !.players = Reverse(@), !.inventories = Reverse(@),
                             !.bonds = Reverse(@), !.plots = Reverse(@)]
  IN  turned # game => ChecksumBytes(turned) = ChecksumBytes(game)

\* Everything collected is still somewhere: in an inventory, on a plot or in the bond
\* of a creature.  (It may be more: what fits of a yield stays in the inventory
\* when the collect fails, and no event speaks of it.)
ItemsIn(inv) == SumOf([i \in 1..Slots |-> inv[i].quantity])
Carried(list) == SumOf([i \in DOMAIN list |-> ItemsIn(list[i][2])])
Placed(list) == SumOf([i \in DOMAIN list |-> IF list[i][2].content = NoKind THEN 0 ELSE 1])
Fed(list) == SumOf([i \in DOMAIN list |-> list[i][3]])
NothingLost == Carried(game.inventories) + Placed(game.plots) + Fed(game.bonds) >= reported
=============================================================================
