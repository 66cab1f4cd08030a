SPECIFICATION Spec
CONSTANTS
  n1 = n1
  f1 = f1
  f2 = f2
  f3 = f3
  Validators = {n1, f1, f2, f3}
  Honest = {n1}
  Scenarios <- CommitScenarios
  Ids = {1}
  Nil = Nil
SYMMETRY NodeSymmetry
CHECK_DEADLOCK FALSE
INVARIANT EngineAheadOfChain
