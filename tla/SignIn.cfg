SPECIFICATION Spec
CONSTANTS
  Workers = {w1, w2}
  MaxTokens = 3
  MaxPresses = 2
  MaxFaults = 1
INVARIANTS
  SignedInUnlessCause
PROPERTIES
  DeadTokenGoes
CHECK_DEADLOCK FALSE
