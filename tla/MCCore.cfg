CONSTANTS
  Parts = {"channel", "gathering"}
  Command = {cmd}
  Result = {ok, err}
  Waiting = Waiting
  Closed = Closed
  Capacity = 2
  MaxCommands = 5
  Berry = Berry
  Wood = Wood
  bush = bush
  tree = tree
  fox = fox
  KindOrder <- MCKindOrder
  NoKind = NoKind
  Slots = 2
  MaxStack = 3
  Player = {p1, p2}
  Node = {bush, tree}
  NodeKind <- MCNodeKind
  Yield <- MCYield
  RespawnTicks = 2
  CooldownTicks = 1
  Creature = {fox}
  FoodKind <- MCFoodKind
  FeedTicks = 1
  MaxSequence = 3
SPECIFICATION CoreSpec
INVARIANTS
  TypeOK
  InOrder
  Bounded
  DispatchIsBarrier
  GatheringTypeOK
  DepletedHasTimer
PROPERTIES
  DispatchReturns
  ImplementsService
  CollectGainsYield
  SequenceAdvances
  NodesRespawn
CHECK_DEADLOCK FALSE
