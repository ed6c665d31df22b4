SPECIFICATION Spec
CONSTANTS
  p1 = p1
  p2 = p2
  Process = {p1, p2}
  Table = {"organizations"}
  Replicated = {"organizations"}
  External = {"organizations"}
  Full = {}
  Earlier = {{}}
  Credentials <- MCCredentials
  MaxChanges = 2
  Migrating = {"organizations"}
  MaxFaults = 1
INVARIANTS
  TypeOK
  ColumnsAligned
  KeyNamesRow
  NothingPassedOver
PROPERTIES
  TakenBackByOverlap
  StreamsAgain
CHECK_DEADLOCK FALSE
