SPECIFICATION Spec
CONSTANTS
  A1 = A1
  A2 = A2
  A3 = A3
  B1 = B1
  B2 = B2
  C1 = C1
  D1 = D1
  Genesis = Genesis
  None = None
  NumVerifiers = 2
  InitialWork = 2
  Items = {A1}
  Parent <- Line1
  Unsound = {}
  Future = {}
  Invalid = {}
  Unclosable = {}
  Proposals = {}
  Batch = 1
  Wrap = 16
  MaxCalls = 4
  MaxClears = 1
  MaxScales = 0
  MaxFlushes = 0
  Closing = FALSE
INVARIANT SizesBounded
CHECK_DEADLOCK FALSE
