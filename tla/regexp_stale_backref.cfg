\* (.)\1, (a|b)\1 and (.*)\1 against every input of up to three bytes over "a" and "b".
CONSTANTS
  Patterns <- RepeatPatterns
  Inputs <- RepeatInputs
  CharCode <- MCCharCode
  RepBounds <- MCRepBounds
  StackMax = 128
  CheckMax = 64
  MaxBackref = 15
SPECIFICATION Spec
INVARIANT NoMissedRepeat
CHECK_DEADLOCK FALSE
