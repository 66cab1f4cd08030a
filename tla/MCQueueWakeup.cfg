SPECIFICATION FairSpec
CONSTANTS
  A1 = A1
  A2 = A2
  A3 = A3
  B1 = B1
  B2 = B2
  C1 = C1
  D1 = D1
  Genesis = Genesis
  None = None
  NumVerifiers = 2
  InitialWork = 1
  Items = {A1}
  Parent <- Line1
  Unsound = {}
  Future = {}
  Invalid = {}
  Unclosable = {}
  Proposals = {}
  Batch = 1
  Wrap = 16
  MaxCalls = 1
  MaxClears = 0
  MaxScales = 0
  MaxFlushes = 0
  Closing = FALSE
PROPERTY WorkIsTaken
CHECK_DEADLOCK FALSE
