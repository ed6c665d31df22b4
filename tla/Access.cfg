SPECIFICATION AccessSpec
CONSTANTS
  Request = {r1, r2}
  Threshold = 3
  LockTime = 2
  CacheTTL = 2
  Expiry <- MCExpiry
  Never = Never
  Nothing = Nothing
  MaxTime = 3
  MaxLogins = 5
  r1 = r1
  r2 = r2
SYMMETRY Symmetry
INVARIANTS
  LocksInTime
  AcceptedInWindow
  RevocationSticks
PROPERTY LockYieldsOnlyToRace
CHECK_DEADLOCK FALSE
