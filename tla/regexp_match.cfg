\* Every pattern of up to three tokens over every instruction kind, and (a)\1 and (a*)\1, on every input of up to two characters over "a" and "1", from every start position.
CONSTANTS
  Patterns <- PassPatterns
  Inputs <- PassInputs
  CharCode <- MCCharCode
  RepBounds <- MCRepBounds
  StackMax = 128
  CheckMax = 64
  MaxBackref = 15
SPECIFICATION FairSpec
INVARIANTS NoFalseMatch IpInRange
PROPERTY Terminates
CHECK_DEADLOCK FALSE
