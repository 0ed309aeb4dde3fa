SPECIFICATION Spec
CONSTANTS
  Process = {"p1"}
  Ids = {"a"}
  Id <- SameName
  Managed = {}
  Worker = {w1, w2}
  Client = {c1, c2}
  Filtering = TRUE
  CanExtract = FALSE
  LockFreeEvents = TRUE
  MaxEvents = 3
  None = None
SYMMETRY Threads
INVARIANT DecomissionedStaysEmpty
CHECK_DEADLOCK FALSE
