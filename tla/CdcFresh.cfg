SPECIFICATION Spec
CONSTANTS
  Price = {p1}
  Fx = {}
  User = {}
  Org = {}
  Seeded = {p1}
  QueueSize = 1
  SignalSize = 1
  InboxSize = 1
  MaxChanges = 2
  MaxFaults = 1
INVARIANTS
  CachesKeptFresh
CHECK_DEADLOCK FALSE
