SPECIFICATION Spec
CONSTANTS
  Price = {p1}
  Fx = {}
  User = {u1}
  Org = {o1}
  Seeded = {p1, u1, o1}
  QueueSize = 1
  SignalSize = 1
  InboxSize = 1
  MaxChanges = 2
  MaxFaults = 1
INVARIANTS
  NoChangeLost
  
  StreamHasNoHoles

  
CHECK_DEADLOCK FALSE
