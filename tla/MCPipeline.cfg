CONSTANTS
  Berry = Berry
  Wood = Wood
  bush = bush
  tree = tree
  fox = fox
  Amount = 1
  KindOrder <- MCKindOrder
  NoKind = NoKind
  Slots = 2
  MaxStack = 2
  Player = {1}
  Node = {bush}
  NodeKind <- MCNodeKind
  Yield <- MCYield
  RespawnTicks = 1
  CooldownTicks = 1
  Creature = {fox}
  FoodKind <- MCFoodKind
  FeedTicks = 0
  MaxSequence = 1
  Token = {t1}
  RowLists <- MCRowLists
  Waiting = Waiting
  Closed = Closed
  Capacity = 2
  MaxCommands = 5
  MaxFaults = 1
  MaxCrashes = 1
  MaxJoins = 2
SPECIFICATION PipelineSpec
INVARIANTS
  PipelineTypeOK
  NothingUnsaved
PROPERTIES
  PendingTracked
  NoForeignAck
  PendingDrains
CHECK_DEADLOCK FALSE
