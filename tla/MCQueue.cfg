SPECIFICATION Spec
CONSTANTS
  A1 = A1
  A2 = A2
  A3 = A3
  B1 = B1
  B2 = B2
  C1 = C1
  D1 = D1
  Genesis = Genesis
  None = None
  NumVerifiers = 2
  InitialWork = 2
  Items = {A1, A2, A3, B1, B2, C1, D1}
  Parent <- Branches
  Unsound = {C1}
  Future = {D1}
  Invalid = {A1}
  Unclosable = {B1}
  Proposals = {}
  Batch = 1
  Wrap = 16
  MaxCalls = 4
  MaxClears = 1
  MaxScales = 1
  MaxFlushes = 1
  Closing = FALSE
CHECK_DEADLOCK FALSE
INVARIANTS TypeOK OrderKept NothingLost NoVerifiedChildOfBad SignalNotLost SizesExact QueuedIsProcessing
