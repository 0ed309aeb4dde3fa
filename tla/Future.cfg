CONSTANTS
  None = None
  Clock = "r"
  Futures <- MCFutures
  Threads <- MCThreads
  Users <- MCUsers
  Programs <- AllPrograms
SPECIFICATION FairSpec
INVARIANTS CallbacksOnce CombinatorsHold RequestsReach
PROPERTIES AwaitReturns RecoveryNotDiscarded
CHECK_DEADLOCK FALSE
