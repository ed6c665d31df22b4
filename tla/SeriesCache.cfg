SPECIFICATION CacheSpec
CONSTANTS
  v1 = v1
  v2 = v2
  Thread = {t1, t2}
  Value = {v1, v2}
  Index = {1, 2}
  Absent = absent
  Inserted <- MCInserted
  Capacity = 1
  MaxCalls = 4
INVARIANTS
  IndexInBounds
PROPERTIES
  ImplementsAtomicSeries
CHECK_DEADLOCK FALSE
