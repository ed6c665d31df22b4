SPECIFICATION Spec
CONSTANTS
  Instrument = {stock, fund}
  Currency = {sek, usd}
  Pair <- MCPair
  FirstDay = 738000
  LastDay = 740000
  Day <- MCDay
  Value = {5, 7}
  Missing = Missing
  MaxWrites = 3
  User = {u1, u2}
  Account = {a1, a2, a3}
  Trade <- MCTrade
  Owner <- MCOwner
  TypeOf <- MCTypeOf
  Sectors <- MCSectors
  Uncategorized = Uncategorized
  Subjects <- MCSubjects
  AsOf <- MCAsOf
  MaxTrades = 2
  a1 = a1
  a2 = a2
  a3 = a3
  u1 = u1
  u2 = u2
  stock = stock
  fund = fund
  sek = sek
  usd = usd
  tech = tech
INVARIANTS
  ReadsAgree
  TotalIsSumOverTrades
  EveryHoldingAccounted
  ChangesAreDifferences
  AllocationsLookThrough
  PositionsAgree
CHECK_DEADLOCK FALSE
