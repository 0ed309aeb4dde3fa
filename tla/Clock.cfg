CONSTANTS
  None = None
  Process = {p, q}
  Clients = {c}
  Durations = {1}
  MaxTimers = 2
  MaxReal = 1
  MaxAdvance = 1
  MaxPauses = 1
  Workers = {w1, w2}
  Donors = {d1}
  MaxWork = 1
SPECIFICATION MCSpec
INVARIANTS TimersExact 
PROPERTIES TimeForward ClockGoesOn
CHECK_DEADLOCK FALSE
