\* Every token string of up to six tokens over a ( ) | ? against "", "a" and "c".
CONSTANTS
  Patterns <- MCPatterns
  Inputs <- MCInputs
  CharCode <- MCCharCode
  RepBounds <- MCRepBounds
  StackMax = 128
  CheckMax = 64
  MaxBackref = 15
SPECIFICATION Spec
INVARIANT NoMissedMatch
CHECK_DEADLOCK FALSE
