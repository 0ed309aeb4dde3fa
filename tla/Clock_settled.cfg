CONSTANTS
  None = None
  Process = {p}
  Clients = {c}
  Durations = {1}
  MaxTimers = 2
  MaxReal = 2
  MaxAdvance = 1
  MaxPauses = 2
  Workers = {w1, w2}
  Donors = {d1}
  MaxWork = 1
SPECIFICATION MCSpec
INVARIANTS SettledMeansExecuted
CHECK_DEADLOCK FALSE
