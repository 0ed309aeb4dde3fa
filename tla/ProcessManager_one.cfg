SPECIFICATION Spec
CONSTANTS
  Process = {"p1"}
  Ids = {"a"}
  Id <- SameName
  Managed = {}
  Worker = {w1, w2}
  Client = {c1, c2}
  Filtering = TRUE
  CanExtract = TRUE
  LockFreeEvents = FALSE
  MaxEvents = 3
  None = None
SYMMETRY Threads
INVARIANTS OneToken NoLostWakeup NoAbort NoDanglingUse DecomissionedStaysEmpty
PROPERTY ImplementsActor
CHECK_DEADLOCK FALSE
