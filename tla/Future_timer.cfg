CONSTANTS
  None = None
  Clock = "r"
  Futures <- MCFutures
  Threads <- MCThreads
  Users <- MCUsers
  Programs <- AfterPrograms
SPECIFICATION Spec
INVARIANTS TimerReleased
CHECK_DEADLOCK FALSE
