CONSTANTS
  Berry = Berry
  Wood = Wood
  bush = bush
  tree = tree
  fox = fox
  Amount = 1
  KindOrder <- MCKindOrder
  NoKind = NoKind
  Slots = 2
  MaxStack = 2
  Player = {1}
  Node = {bush, tree}
  NodeKind <- MCNodeKind
  Yield <- MCYield
  RespawnTicks = 2
  CooldownTicks = 1
  Creature = {}
  FoodKind <- MCFoodKind
  FeedTicks = 0
  MaxSequence = 1
  Token = {t1}
  RowLists <- MCRowLists
  Waiting = Waiting
  Closed = Closed
  Capacity = 2
  MaxCommands = 5
  MaxFaults = 0
  MaxCrashes = 0
  MaxJoins = 1
SPECIFICATION PipelineSafety
INVARIANT
  AppliedIsStored
CHECK_DEADLOCK FALSE
