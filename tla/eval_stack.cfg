\* The evaluator runs a program of self and mutual tail calls, catch, throw, lisp_err and with-output.
CONSTANTS
  f = f  g = g  h = h  k = k  none = none  stdout = stdout  p1 = p1
  Procs <- MCProcs
  Body <- MCBody
  Forms <- MCForms
  Ports = {p1}
  StdOut = stdout
  MaxDepth = 9
SPECIFICATION Spec
INVARIANTS TypeOK ContextMatchesFrames CallstackMarks NoMaxDepthError
CHECK_DEADLOCK FALSE
