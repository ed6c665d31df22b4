SPECIFICATION RegistrySpec
CONSTANTS
  Key = {k1, k2}
  Subscriber = {s1, s2}
  Dispatcher = dispatcher
  Buffer = 1
INVARIANTS
  LiveSubscribersListed
  NoOrphanedListing
PROPERTIES
  DroppedReceiversReclaimed
