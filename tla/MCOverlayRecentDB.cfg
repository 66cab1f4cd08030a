SPECIFICATION Spec
CONSTANTS
  Blocks <- Tree
  Keys <- AllKeys
  State <- AllStates
  Root <- OwnKey
  History = 2
  HistoryMem = 80
  MaxCrashes = 1
INVARIANTS TypeOK StateAvailable ReadersSucceed RecoveredIsSame PruneFindsCanon HistoryIsKept
CHECK_DEADLOCK FALSE
