CONSTANTS
  Berry = Berry
  Wood = Wood
  KindOrder <- MCKindOrder
  NoKind = NoKind
  Slots = 2
  MaxStack = 2
  Token = {t1, t2}
  RowLists <- MCRowLists
  Waiting = Waiting
  Closed = Closed
  Capacity = 2
  MaxCommands = 3
  MaxFaults = 1
  MaxCrashes = 1
SPECIFICATION PersistenceSpec
INVARIANTS
  PersistenceTypeOK
  LoadReturnsLastSave
  AcknowledgedStays
  NeverMixed
  IdentitiesUnique
PROPERTIES
  IdentityStable
CHECK_DEADLOCK FALSE
