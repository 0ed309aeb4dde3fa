SPECIFICATION FairSpec
CONSTANTS
  Process = {"p1", "p2", "p3"}
  Ids = {"a", "b"}
  Id <- TwoNames
  Managed = {"p2"}
  Worker = {w1}
  Client = {c1}
  Filtering = FALSE
  CanExtract = TRUE
  LockFreeEvents = FALSE
  MaxEvents = 2
  None = None
INVARIANT OneProcessPerName
PROPERTIES QueuesDrain 
CHECK_DEADLOCK FALSE
