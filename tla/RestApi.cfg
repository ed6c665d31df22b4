SPECIFICATION Spec
CONSTANTS
  User = {"alice", "bob"}
  Org = {"org1", "org2"}
  Name = {"x", "y"}
  Email = {"m"}
  Caller <- MCCaller
  Account <- MCAccount
  Currency = {"usd", "eur", "sek"}
  Trade <- MCTrade
  Prices <- MCPrices
  Key = {"k1"}
  Member <- MCMember
  PageSize = 1
  MaxChanges = 2
INVARIANTS
  CountsExplained
  AccountsAgree
  NamesConverge
  PagesTile
  Confined
CHECK_DEADLOCK FALSE
