CONSTANTS
  Parts = {"admin", "connection", "loading", "controls", "fox", "hud"}
  Online = {o1}
  Session = {s1, s2}
  BroadcastEvery = 2
  ChannelSize = 2
  Requests = 1
  Mishaps = 1
  NoSession = NoSession
  Backoff = 2
  WtTimeout = 2
  Unset = Unset
  ArenaModels <- MCArenaModels
  FoxPaths <- MCFoxPaths
  WorldFiles <- MCWorldFiles
  Invalid = Invalid
  Keys = {"move"}
  MaxRadius = 2
  own = own
  Own = own
  Character = {own, other}
  WaveTime = 2
  SnapDistance = 1
  MaxEmotes = 1
  MaxFoxes = 1
SPECIFICATION MCSpec
INVARIANTS
  ClientSafety
PROPERTIES
  DeadSessionBounces
  DashboardCatchesUp
  KeepsTrying
  FallbackNeedsTimeout
  LoadingSettles
  ComesToRest
CHECK_DEADLOCK FALSE
