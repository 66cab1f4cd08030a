SPECIFICATION FairSpec
CONSTANTS
  A1 = A1
  A2 = A2
  A3 = A3
  B1 = B1
  B2 = B2
  C1 = C1
  D1 = D1
  Genesis = Genesis
  None = None
  NumVerifiers = 3
  InitialWork = 2
  Items = {A1, A2, A3}
  Parent <- Line3
  Unsound = {}
  Future = {}
  Invalid = {A3}
  Unclosable = {}
  Proposals = {A2}
  Batch = 1
  Wrap = 16
  MaxCalls = 3
  MaxClears = 0
  MaxScales = 0
  MaxFlushes = 0
  Closing = TRUE
INVARIANTS NoSleeperAfterExit
PROPERTIES DropReturns VerifiedIsDelivered WorkIsTaken
