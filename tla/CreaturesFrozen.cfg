CONSTANTS
  Parts = {"start"}
  Link = {a, b, c}
  Body = {x, y, z}
  t1 = t1
  p1 = p1
  p2 = p2
  Player = {p1, p2}
  Token = {t1, t2}
  IdentityOf <- MCIdentityOf
  MaxPlayers = 2
  MaxFaults = 1
  NoPlayer = NoPlayer
  NoLink = NoLink
  NoBody = NoBody
  NoToken = NoToken
  Resident = {1, 2, 3}
  PlotCount = 2
  BuildTicks = 1
  Viewer = {v1, v2}
  Entities = 3
  Vacant = Vacant
  Absent = Absent
  Berry = Berry
  Wood = Wood
  KindOrder <- MCKindOrder
  NoKind = NoKind
  Slots = 1
  MaxStack = 2
  PlayerId = {1, 2}
  CreatureId = {1}
  PlotId = {1, 2}
  Resources <- MCResources
  FoodOf <- MCFoodOf
  LastTick = 2
  LastLevel = 1
  w1 = w1
  a1 = a1
  a2 = a2
  Watcher = {w1, w2}
  Thing = {a1, a2, a3}
  OwnThing <- MCOwnThing
  TickInterval = 2
  InputTimeoutTicks = 2
  MaxSilence = 3
  InFlight = 2
  MaxPresses = 2
  Worlds <- MCWorlds
  MinTicks = 1
  MaxTicks = 3
  None = None
  Owner = {1, 2}
  Species = {k1}
  Levels = {l1}
  PlotSlots = {s1, s2}
  Ornaments = {d1}
  Spots = {here}
  Hashes = {h1}
  NoRow = NoRow
  MaxFailures = 1
  FreshDays = 2
  MaxDays = 5
  Missing = {"cargo", "kubectl"}
SPECIFICATION ServerSpec
INVARIANT CreaturesHaveBodies
CHECK_DEADLOCK FALSE
