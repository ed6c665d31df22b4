SPECIFICATION Spec
CONSTANTS
  Tab = {t1, t2}
  MaxTokens = 3
SYMMETRY TabSymmetry
INVARIANTS
  SessionHasSuccessor
  EndedStaysEnded
  StoredTokenCurrent
CHECK_DEADLOCK FALSE
