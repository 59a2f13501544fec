SPECIFICATION Spec
CONSTANTS
  Sinks = {s1}
  Casts = {c1}
  ModuleIds = {m1, m2}
  SessionIds = {t1, t2}
  None = None
  Raop = Raop
  Foreign = Foreign
  QueueCap = 2
  LanKnown = TRUE
  Faults = {"garbled", "lost", "late", "pwRestart", "crash"}
  MaxStarts = 1
SYMMETRY Symmetry
CHECK_DEADLOCK FALSE
INVARIANT RouteMatchesActive
PROPERTY ServesInOrder
