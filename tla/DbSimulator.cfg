SPECIFICATION SimulatorSpec
CONSTANTS
  Admin = {a1, a2}
  MaxStarts = 3
INVARIANTS
  LoopsAccounted
  StoppedMeansStopped
PROPERTIES
  StopReturns
CHECK_DEADLOCK FALSE
