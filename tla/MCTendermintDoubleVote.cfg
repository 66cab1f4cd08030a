SPECIFICATION Spec
CONSTANTS
  n1 = n1
  n2 = n2
  Validators = {n1, n2}
  Honest = {n1, n2}
  Scenarios <- Network
  Ids = {1}
  Nil = Nil
INVARIANT OnlyFaultyReported
CHECK_DEADLOCK FALSE
