SPECIFICATION Spec
CONSTANTS
  Key = {k1, k2}
  Writer = {w1, w2}
  Subscriber = {s1, s2}
  Nothing = nothing
  ChannelSize = 2
  Buffer = 1
  MaxStores = 3
INVARIANTS
  StaleOnlyWhileSignalled
  StatsConserved
  ShutdownDrains
PROPERTIES
  EventuallyFresh
CHECK_DEADLOCK FALSE
