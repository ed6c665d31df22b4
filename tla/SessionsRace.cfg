SPECIFICATION Spec
CONSTANTS
  Tab = {t1, t2}
  MaxTokens = 3
CHECK_DEADLOCK FALSE
INVARIANTS
  OneActiveToken
